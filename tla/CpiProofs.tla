------------------------------ MODULE CpiProofs ------------------------------
EXTENDS SafetyProofs, CpiInvariant, SequenceTheorems

-----------------------------------------------------------------------------
(* Between transactions the accounts are the committed ones.               *)

\* What does not look at the accounts is the same in Committed.
LEMMA SameConstants ==
    /\ Committed!Accounts = Accounts /\ Committed!Key = Key
    /\ Committed!BasisPoints = BasisPoints /\ Committed!U64 = U64
    /\ Committed!Rooms = Rooms
    /\ \A w, m : Committed!Ata(w, m) = Ata(w, m)
    /\ \A m : Committed!MetaPda(m) = MetaPda(m)
    /\ \A n : Committed!Rent(n) = Rent(n)
    /\ \A w : Committed!PlainMint(w) = PlainMint(w)
    /\ \A m, conf, w, immutable, room :
          Committed!NewAccount(m, conf, w, immutable, room)
              = NewAccount(m, conf, w, immutable, room)
    /\ \A state : Committed!Slots(state) = Slots(state)
    /\ \A conf, n : Committed!Fee(conf, n) = Fee(conf, n)
    /\ \A f, S : Committed!Total(f, S) = Total(f, S)
    /\ \A S : Committed!Cardinality(S) = Cardinality(S)
<1>0. \A S : Committed!Cardinality(S) = Cardinality(S)
  BY DEF Committed!Cardinality, Cardinality
<1>1. Committed!Accounts = Accounts /\ Committed!Key = Key
  BY DEF Committed!Accounts, Accounts, Committed!Key, Key
<1>2. /\ Committed!BasisPoints = BasisPoints /\ Committed!U64 = U64
      /\ Committed!Rooms = Rooms
  BY DEF Committed!BasisPoints, BasisPoints, Committed!U64, U64,
         Committed!Rooms, Rooms
<1>3. /\ \A w, m : Committed!Ata(w, m) = Ata(w, m)
      /\ \A m : Committed!MetaPda(m) = MetaPda(m)
  BY DEF Committed!Ata, Ata, Committed!MetaPda, MetaPda
<1>4. \A n : Committed!Rent(n) = Rent(n)  BY DEF Committed!Rent, Rent
<1>5. \A w : Committed!PlainMint(w) = PlainMint(w)
  BY DEF Committed!PlainMint, PlainMint
<1>6. \A m, conf, w, immutable, room :
          Committed!NewAccount(m, conf, w, immutable, room)
              = NewAccount(m, conf, w, immutable, room)
  BY DEF Committed!NewAccount, NewAccount
<1>7. \A state : Committed!Slots(state) = Slots(state)
  BY <1>0 DEF Committed!Slots, Slots
<1>8. \A conf, n : Committed!Fee(conf, n) = Fee(conf, n)
  BY DEF Committed!Fee, Fee, Committed!Min2, Min2
<1>9. \A f, S : Committed!Total(f, S) = Total(f, S)
  BY <1>0 DEF Committed!Total, Total, Committed!Sum, Sum, Committed!Below, Below
<1>10. QED
  BY <1>0, <1>1, <1>2, <1>3, <1>4, <1>5, <1>6, <1>7, <1>8, <1>9

\* The checks.
LEMMA SameChecks ==
    ASSUME call = Idle
    PROVE  /\ \A m : Committed!Live(m) <=> Live(m)
           /\ \A a : Committed!Open(a) <=> Open(a)
           /\ \A m, a, w : Committed!MayDebit(m, a, w) <=> MayDebit(m, a, w)
           /\ \A m, from, to, w, n, memo :
                 Committed!TransferAllowed(m, from, to, w, n, memo)
                     <=> TransferAllowed(m, from, to, w, n, memo)
           /\ \A to, fee : Committed!AcceptsFee(to, fee) <=> AcceptsFee(to, fee)
           /\ \A m, from, to, hooked :
                 Committed!AcceptsHook(m, from, to, hooked)
                     <=> AcceptsHook(m, from, to, hooked)
           /\ \A m, from, to, w :
                 Committed!HookAccepts(m, from, to, w) <=> HookAccepts(m, from, to, w)
           /\ \A m, S : Committed!Harvestable(m, S) = Harvestable(m, S)
           /\ \A S : Committed!Emptied(S) = Emptied(S)
           /\ \A S : Committed!SourcesAccepted(S) <=> SourcesAccepted(S)
           /\ \A S : Committed!FilterSources(S) = FilterSources(S)
<1>1. /\ \A m : Committed!Live(m) <=> Live(m)
      /\ \A a : Committed!Open(a) <=> Open(a)
  BY DEF Committed!Live, Live, Committed!Open, Open, Visible
<1>2. \A m, a, w : Committed!MayDebit(m, a, w) <=> MayDebit(m, a, w)
  BY DEF Committed!MayDebit, MayDebit, Visible
<1>3. \A m, from, to, w, n, memo :
          Committed!TransferAllowed(m, from, to, w, n, memo)
              <=> TransferAllowed(m, from, to, w, n, memo)
  BY <1>1, <1>2 DEF Committed!TransferAllowed, TransferAllowed, Visible
<1>4. \A to, fee : Committed!AcceptsFee(to, fee) <=> AcceptsFee(to, fee)
  BY DEF Committed!AcceptsFee, AcceptsFee, Visible
<1>5. \A m, from, to, hooked :
          Committed!AcceptsHook(m, from, to, hooked)
              <=> AcceptsHook(m, from, to, hooked)
  BY DEF Committed!AcceptsHook, AcceptsHook, Visible
<1>6. \A m, from, to, w :
          Committed!HookAccepts(m, from, to, w) <=> HookAccepts(m, from, to, w)
  BY DEF Committed!HookAccepts, HookAccepts, Visible
<1>7. \A m, S : Committed!Harvestable(m, S) = Harvestable(m, S)
  BY DEF Committed!Harvestable, Harvestable, Visible
<1>8. \A S : Committed!Emptied(S) = Emptied(S)
  BY SameConstants DEF Committed!Emptied, Emptied, Visible
<1>9. \A S : Committed!SourcesAccepted(S) <=> SourcesAccepted(S)
  BY <1>1, SameConstants
  DEF Committed!SourcesAccepted, SourcesAccepted, Visible
<1>10. \A S : Committed!FilterSources(S) = FilterSources(S)
  BY DEF Committed!FilterSources, FilterSources, Visible
<1>11. QED
  BY <1>1, <1>2, <1>3, <1>4, <1>5, <1>6, <1>7, <1>8, <1>9, <1>10

\* The calls to other programs, in a step between transactions.
LEMMA SameCalls ==
    ASSUME call = Idle, call' = Idle
    PROVE  /\ \A S : Committed!Signed(S) <=> Signed(S)
           /\ \A S : Committed!SignedWithMemo(S) <=> SignedWithMemo(S)
           /\ \A p, x, rent :
                 Committed!CreateAccount(p, x, rent) <=> CreateAccount(p, x, rent)
           /\ \A p, x, rx, y, ry :
                 Committed!CreateTwoAccounts(p, x, rx, y, ry)
                     <=> CreateTwoAccounts(p, x, rx, y, ry)
           /\ \A m, conf :
                 Committed!InitializeMint(m, conf) <=> InitializeMint(m, conf)
           /\ \A a, new :
                 Committed!InitializeAccount(a, new) <=> InitializeAccount(a, new)
           /\ \A from, to, n :
                 Committed!TransferSol(from, to, n) <=> TransferSol(from, to, n)
           /\ \A m, from, to, w, n, memo, hooked :
                 Committed!TransferChecked(m, from, to, w, n, memo, hooked)
                     <=> TransferChecked(m, from, to, w, n, memo, hooked)
           /\ \A m, to, n :
                 Committed!MintTokens(m, to, n) <=> MintTokens(m, to, n)
           /\ \A m, from, w, n :
                 Committed!BurnTokens(m, from, w, n) <=> BurnTokens(m, from, w, n)
           /\ \A m, dest, w, S :
                 Committed!CollectFees(m, dest, w, S) <=> CollectFees(m, dest, w, S)
           /\ \A m, S : Committed!HarvestFees(m, S) <=> HarvestFees(m, S)
           /\ \A m, dest, w :
                 Committed!CollectPool(m, dest, w) <=> CollectPool(m, dest, w)
<1>1. /\ \A S : Committed!Signed(S) <=> Signed(S)
      /\ \A S : Committed!SignedWithMemo(S) <=> SignedWithMemo(S)
  BY DEF Committed!Signed, Signed, Committed!SignedWithMemo, SignedWithMemo,
         Visible
<1>2. \A p, x, rent :
          Committed!CreateAccount(p, x, rent) <=> CreateAccount(p, x, rent)
  BY DEF Committed!CreateAccount, CreateAccount, Visible
<1>3. \A p, x, rx, y, ry :
          Committed!CreateTwoAccounts(p, x, rx, y, ry)
              <=> CreateTwoAccounts(p, x, rx, y, ry)
  BY DEF Committed!CreateTwoAccounts, CreateTwoAccounts, Visible
<1>4. \A m, conf : Committed!InitializeMint(m, conf) <=> InitializeMint(m, conf)
  BY DEF Committed!InitializeMint, InitializeMint, Visible
<1>5. \A a, new : Committed!InitializeAccount(a, new) <=> InitializeAccount(a, new)
  BY DEF Committed!InitializeAccount, InitializeAccount, Visible
<1>6. \A from, to, n :
          Committed!TransferSol(from, to, n) <=> TransferSol(from, to, n)
  BY DEF Committed!TransferSol, TransferSol, Visible
<1>7. \A m, from, to, w, n, memo, hooked :
          Committed!TransferChecked(m, from, to, w, n, memo, hooked)
              <=> TransferChecked(m, from, to, w, n, memo, hooked)
  BY SameChecks, SameConstants
  DEF Committed!TransferChecked, TransferChecked, Visible
<1>8. \A m, to, n : Committed!MintTokens(m, to, n) <=> MintTokens(m, to, n)
  BY DEF Committed!MintTokens, MintTokens, Visible
<1>9. \A m, from, w, n :
          Committed!BurnTokens(m, from, w, n) <=> BurnTokens(m, from, w, n)
  BY SameChecks DEF Committed!BurnTokens, BurnTokens, Visible
<1>10. \A m, dest, w, S :
           Committed!CollectFees(m, dest, w, S) <=> CollectFees(m, dest, w, S)
  BY SameChecks, SameConstants DEF Committed!CollectFees, CollectFees, Visible
<1>11. \A m, S : Committed!HarvestFees(m, S) <=> HarvestFees(m, S)
  BY SameChecks, SameConstants DEF Committed!HarvestFees, HarvestFees, Visible
<1>12. \A m, dest, w : Committed!CollectPool(m, dest, w) <=> CollectPool(m, dest, w)
  BY DEF Committed!CollectPool, CollectPool, Visible
<1>13. QED
  BY <1>1, <1>2, <1>3, <1>4, <1>5, <1>6, <1>7, <1>8, <1>9, <1>10, <1>11, <1>12

\* The part that the handlers creating a mint share.
LEMMA SameMintCreation ==
    ASSUME call = Idle, call' = Idle
    PROVE  /\ \A m, p, w, conf, rent :
                 Committed!CreateFundedMint(m, p, w, conf, rent)
                     <=> CreateFundedMint(m, p, w, conf, rent)
           /\ \A m, a, p, w, slots, conf, room :
                 Committed!CreateMintAndAccount(m, a, p, w, slots, conf, room)
                     <=> CreateMintAndAccount(m, a, p, w, slots, conf, room)
<1>1. \A m, p, w, conf, rent :
          Committed!CreateFundedMint(m, p, w, conf, rent)
              <=> CreateFundedMint(m, p, w, conf, rent)
  BY SameChecks, SameCalls
  DEF Committed!CreateFundedMint, CreateFundedMint, Visible
<1>2. ASSUME NEW m, NEW a, NEW p, NEW w, NEW slots, NEW conf, NEW room
      PROVE  Committed!CreateMintAndAccount(m, a, p, w, slots, conf, room)
                 <=> CreateMintAndAccount(m, a, p, w, slots, conf, room)
  <2> DEFINE new == NewAccount(m, conf, w, TRUE, room)
  <2>1. /\ Committed!NewAccount(m, conf, w, TRUE, room) = new
        /\ Committed!Rent(slots) = Rent(slots)
        /\ Committed!Rent(Committed!Slots(new)) = Rent(Slots(new))
    BY SameConstants
  <2> HIDE DEF new
  <2>2. /\ Committed!Live(m) <=> Live(m)
        /\ Committed!Open(a) <=> Open(a)
        /\ Committed!CreateTwoAccounts(p, m, Rent(slots), a, Rent(Slots(new)))
             <=> CreateTwoAccounts(p, m, Rent(slots), a, Rent(Slots(new)))
        /\ Committed!InitializeMint(m, conf) <=> InitializeMint(m, conf)
        /\ Committed!InitializeAccount(a, new) <=> InitializeAccount(a, new)
        /\ Committed!Signed({p, w}) <=> Signed({p, w})
    BY SameChecks, SameCalls
  <2>3. QED
    BY <2>1, <2>2
    DEF Committed!CreateMintAndAccount, CreateMintAndAccount, Visible, new
<1>3. QED  BY <1>1, <1>2

\* An instruction that creates a mint is one of Committed.
LEMMA SameCreateMintStep ==
    ASSUME call = Idle, call' = Idle, CreateMintStep
    PROVE  Committed!CreateMintStep
<1>1. \A m, p, w, conf :
          Committed!CreateMint(m, p, w, conf) <=> CreateMint(m, p, w, conf)
  BY SameMintCreation, SameConstants DEF Committed!CreateMint, CreateMint
<1>2. \A m, p, w :
          /\ Committed!MintCloseAuthority(m, p, w) <=> MintCloseAuthority(m, p, w)
          /\ Committed!DefaultAccountState(m, p, w) <=> DefaultAccountState(m, p, w)
          /\ Committed!PermanentDelegate(m, p, w) <=> PermanentDelegate(m, p, w)
  BY <1>1, SameConstants
  DEF Committed!MintCloseAuthority, MintCloseAuthority,
      Committed!DefaultAccountState, DefaultAccountState,
      Committed!PermanentDelegate, PermanentDelegate
<1>3. \A m, p, w :
          /\ Committed!InterestBearingToken(m, p, w) <=> InterestBearingToken(m, p, w)
          /\ Committed!InitializeConfidentialMint(m, p, w)
                 <=> InitializeConfidentialMint(m, p, w)
          /\ Committed!InitializeGroupPointer(m, p, w)
                 <=> InitializeGroupPointer(m, p, w)
  BY <1>1, SameConstants
  DEF Committed!InterestBearingToken, InterestBearingToken,
      Committed!InitializeConfidentialMint, InitializeConfidentialMint,
      Committed!InitializeGroupPointer, InitializeGroupPointer
<1>4. \A m, p, w, withdraw, bps, maxFee :
          Committed!TransferFeeConfig(m, p, w, withdraw, bps, maxFee)
              <=> TransferFeeConfig(m, p, w, withdraw, bps, maxFee)
  BY <1>1, SameConstants
  DEF Committed!TransferFeeConfig, TransferFeeConfig
<1>5. \A m, p, w, program :
          Committed!InitializeHookMint(m, p, w, program)
              <=> InitializeHookMint(m, p, w, program)
  BY <1>1, SameConstants
  DEF Committed!InitializeHookMint, InitializeHookMint
<1>6. \A m, group, p, w :
          Committed!InitializeMemberPointer(m, group, p, w)
              <=> InitializeMemberPointer(m, group, p, w)
  BY <1>1, SameConstants, SameChecks
  DEF Committed!InitializeMemberPointer, InitializeMemberPointer, Visible
<1>7. \A m, w :
          Committed!ClientCreateMint(m, w)
              <=> ClientCreateMint(m, w)
  BY SameMintCreation, SameConstants
  DEF Committed!ClientCreateMint, ClientCreateMint
<1>8. \A m, a, p, w, room :
          Committed!ImmutableOwner(m, a, p, w, room)
              <=> ImmutableOwner(m, a, p, w, room)
  BY SameMintCreation, SameConstants
  DEF Committed!ImmutableOwner, ImmutableOwner
<1>9. \A m, a, p, w, room :
          Committed!NonTransferableToken(m, a, p, w, room)
              <=> NonTransferableToken(m, a, p, w, room)
  BY SameMintCreation, SameConstants
  DEF Committed!NonTransferableToken, NonTransferableToken
<1>10. QED
  BY <1>2, <1>3, <1>4, <1>5, <1>6, <1>7, <1>8, <1>9,
     SameConstants
  DEF Committed!CreateMintStep, CreateMintStep, Committed!Hooks, Hooks

\* So is one that closes or changes a mint.
LEMMA SameChangeMintStep ==
    ASSUME call = Idle, call' = Idle, ChangeMintStep
    PROVE  Committed!ChangeMintStep
<1>1. \A m, dest, w :
          Committed!CloseMintAccount(m, dest, w)
              <=> CloseMintAccount(m, dest, w)
  BY SameChecks, SameCalls, SameConstants
  DEF Committed!CloseMintAccount, CloseMintAccount, Committed!ledger, ledger, Visible
<1>2. \A m, w, frozen :
          Committed!UpdateDefaultAccountState(m, w, frozen)
              <=> UpdateDefaultAccountState(m, w, frozen)
  BY SameChecks, SameCalls, SameConstants
  DEF Committed!UpdateDefaultAccountState, UpdateDefaultAccountState,
      Committed!ledger, ledger, Visible
<1>3. \A m, p :
          Committed!InitializeExtraAccountMetaList(m, p)
              <=> InitializeExtraAccountMetaList(m, p)
  BY SameChecks, SameCalls, SameConstants
  DEF Committed!InitializeExtraAccountMetaList, InitializeExtraAccountMetaList,
      Committed!ledger, ledger, Visible
<1>4. QED
  BY <1>1, <1>2, <1>3, SameConstants
  DEF Committed!ChangeMintStep, ChangeMintStep

\* So is one that creates or reallocates a token account.
LEMMA SameAccountStep ==
    ASSUME call = Idle, call' = Idle, AccountStep
    PROVE  Committed!AccountStep
<1>1. ASSUME NEW a, NEW m, NEW p, NEW w, NEW room, NEW memo
      PROVE  Committed!CreateTokenAccount(a, m, p, w, room, memo)
                 <=> CreateTokenAccount(a, m, p, w, room, memo)
  <2> DEFINE new   == NewAccount(m, mint[m], w, FALSE, room)
             final == [new EXCEPT !.memo = memo,
                                  !.room = IF memo THEN @ - 1 ELSE @]
  <2>1. /\ Committed!NewAccount(m, Visible(mint, saved.mint)[m], w, FALSE, room) = new
        /\ Committed!Rent(Committed!Slots(new)) = Rent(Slots(new))
    BY SameConstants DEF Visible
  <2>2. /\ Committed!Live(m) <=> Live(m)
        /\ Committed!Open(a) <=> Open(a)
        /\ Committed!CreateAccount(p, a, Rent(Slots(new)))
             <=> CreateAccount(p, a, Rent(Slots(new)))
        /\ Committed!InitializeAccount(a, final) <=> InitializeAccount(a, final)
        /\ Committed!Signed({p, w}) <=> Signed({p, w})
    BY SameChecks, SameCalls
  <2>3. Committed!CreateTokenAccount(a, m, p, w, room, memo)
          <=> /\ Live(m) /\ ~Open(a)
              /\ memo => room > 0
              /\ CreateAccount(p, a, Rent(Slots(new)))
              /\ InitializeAccount(a, final)
              /\ Signed({p, w})
              /\ UNCHANGED <<mint, ledger, metaLists>>
    <3> HIDE DEF new
    <3>1. /\ UNCHANGED <<Visible(mint, saved.mint), Committed!ledger,
                         Visible(metaLists, saved.metaLists)>>
               <=> UNCHANGED <<mint, ledger, metaLists>>
      BY DEF Visible, Committed!ledger, ledger
    <3>2. QED  BY ONLY <2>1, <2>2, <3>1 DEF Committed!CreateTokenAccount
  <2>4. QED  BY <2>3 DEF CreateTokenAccount
<1>2. \A a, m, p, w, room :
          Committed!EnableMemo(a, m, p, w, room)
              <=> EnableMemo(a, m, p, w, room)
  BY <1>1, SameChecks
  DEF Committed!EnableMemo, EnableMemo, Visible
<1>3. \A a, m, p, w, room :
          Committed!InitializeTokenAccountWith(a, m, p, w, room)
              <=> InitializeTokenAccountWith(a, m, p, w, room)
  BY <1>1, SameChecks
  DEF Committed!InitializeTokenAccountWith, InitializeTokenAccountWith, Visible
<1>4. \A a, m, p, w, room :
          Committed!InitializeConfidentialAccount(a, m, p, w, room)
              <=> InitializeConfidentialAccount(a, m, p, w, room)
  BY <1>1, SameChecks
  DEF Committed!InitializeConfidentialAccount, InitializeConfidentialAccount, Visible
<1>5. ASSUME NEW w, NEW m, NEW p
      PROVE  Committed!CreateAta(w, m, p) <=> CreateAta(w, m, p)
  <2> DEFINE a   == Ata(w, m)
             new == NewAccount(m, mint[m], w, TRUE, 0)
  <2>1. /\ Committed!NewAccount(m, Visible(mint, saved.mint)[m], w, TRUE, 0) = new
        /\ Committed!Rent(Committed!Slots(new)) = Rent(Slots(new))
        /\ Committed!Ata(w, m) = a
    BY SameConstants DEF Visible
  <2>2. /\ Committed!Live(m) <=> Live(m)
        /\ Committed!Open(a) <=> Open(a)
        /\ Committed!CreateAccount(p, a, Rent(Slots(new)))
             <=> CreateAccount(p, a, Rent(Slots(new)))
        /\ Committed!InitializeAccount(a, new) <=> InitializeAccount(a, new)
        /\ Committed!Signed({p}) <=> Signed({p})
    BY SameChecks, SameCalls
  <2>3. /\ UNCHANGED <<Visible(mint, saved.mint), Committed!ledger,
                       Visible(metaLists, saved.metaLists)>>
             <=> UNCHANGED <<mint, ledger, metaLists>>
        /\ UNCHANGED <<Visible(account, saved.account),
                       Visible(lamports, saved.lamports)>>
             <=> UNCHANGED <<account, lamports>>
    BY DEF Visible, Committed!ledger, ledger
  <2>4. Committed!CreateAta(w, m, p)
          <=> /\ Live(m)
              /\ \/ Open(a) /\ UNCHANGED <<account, lamports>>
                 \/ /\ ~Open(a)
                    /\ CreateAccount(p, a, Rent(Slots(new)))
                    /\ InitializeAccount(a, new)
              /\ Signed({p})
              /\ UNCHANGED <<mint, ledger, metaLists>>
    <3> HIDE DEF new, a
    <3>1. QED  BY ONLY <2>1, <2>2, <2>3 DEF Committed!CreateAta
  <2>5. QED  BY <2>4 DEF CreateAta
<1>6. ASSUME NEW a, NEW p, NEW w
      PROVE  Committed!Realloc(a, p, w) <=> Realloc(a, p, w)
  <2>1. (Committed!Open(a) <=> Open(a)) /\ (Committed!Signed({p, w}) <=> Signed({p, w}))
    BY SameChecks, SameCalls
  <2>2. QED
    BY ONLY <2>1, call = Idle, call' = Idle
    DEF Committed!Realloc, Realloc, Committed!ledger, ledger, Visible
<1>7. QED
  BY <1>1, <1>2, <1>3, <1>4, <1>5, <1>6, SameConstants
  DEF Committed!AccountStep, AccountStep

\* So is one that mints, moves or burns tokens.
LEMMA SameTokenStep ==
    ASSUME call = Idle, call' = Idle, TokenStep
    PROVE  Committed!TokenStep
<1>0. /\ Visible(mint, saved.mint) = mint
      /\ Visible(account, saved.account) = account
      /\ Visible(metaLists, saved.metaLists) = metaLists
      /\ UNCHANGED <<Visible(mint, saved.mint), Visible(account, saved.account),
                     Visible(lamports, saved.lamports),
                     Visible(metaLists, saved.metaLists)>>
           <=> UNCHANGED <<mint, account, lamports, metaLists>>
      /\ UNCHANGED <<Visible(mint, saved.mint), Visible(account, saved.account),
                     Visible(metaLists, saved.metaLists)>>
           <=> UNCHANGED <<mint, account, metaLists>>
  BY DEF Visible
<1>1. \A m, w, n : Committed!MintTo(m, w, n) <=> MintTo(m, w, n)
  BY SameChecks, SameCalls, SameConstants
  DEF Committed!MintTo, MintTo, Visible
<1>2. \A m, from, w, n :
          Committed!BurnCpi(m, from, w, n)
              <=> BurnCpi(m, from, w, n)
  BY SameChecks, SameCalls, SameConstants
  DEF Committed!BurnCpi, BurnCpi, Visible
<1>3. ASSUME NEW m, NEW w, NEW to, NEW n, NEW fee
      PROVE  Committed!TransferTo(m, w, to, n, fee) <=> TransferTo(m, w, to, n, fee)
  <2>1. /\ Committed!Ata(w, m) = Ata(w, m)
        /\ Committed!Fee(Visible(mint, saved.mint)[m], n) = Fee(mint[m], n)
    BY SameConstants DEF Visible
  <2>2. /\ Committed!Live(m) <=> Live(m)
        /\ Committed!TransferChecked(m, Ata(w, m), to, w, n, FALSE, FALSE)
             <=> TransferChecked(m, Ata(w, m), to, w, n, FALSE, FALSE)
        /\ Committed!Signed({w}) <=> Signed({w})
    BY SameChecks, SameCalls
  <2>3. QED
    BY ONLY <2>1, <2>2, <1>0 DEF Committed!TransferTo, TransferTo
<1>4. \A m, w, to, n :
          Committed!MemoTransfer(m, w, to, n)
              <=> MemoTransfer(m, w, to, n)
  BY SameChecks, SameCalls, SameConstants
  DEF Committed!MemoTransfer, MemoTransfer, Visible
<1>5. ASSUME NEW m, NEW from, NEW to, NEW w, NEW bad, NEW n
      PROVE  Committed!TransferToken(m, from, to, w, bad, n)
                 <=> TransferToken(m, from, to, w, bad, n)
  <2>1. /\ Committed!Live(m) <=> Live(m)
        /\ Committed!Open(from) <=> Open(from)
        /\ Committed!TransferSol(w, bad, SolToll) <=> TransferSol(w, bad, SolToll)
        /\ Committed!TransferChecked(m, from, to, w, n, FALSE, FALSE)
             <=> TransferChecked(m, from, to, w, n, FALSE, FALSE)
        /\ Committed!Signed({w}) <=> Signed({w})
    BY SameChecks, SameCalls
  <2>2. QED
    BY ONLY <2>1, <1>0 DEF Committed!TransferToken, TransferToken
<1>6. ASSUME NEW m, NEW from, NEW to, NEW w, NEW n
      PROVE  Committed!TransferHookToken(m, from, to, w, n)
                 <=> TransferHookToken(m, from, to, w, n)
  <2> DEFINE told == mint[m].hook = "other" \/ HookAccepts(m, from, to, w)
  <2>1. /\ (\/ Visible(mint, saved.mint)[m].hook = "other"
            \/ Committed!HookAccepts(m, from, to, w)) = told
        /\ (Visible(mint, saved.mint)[m].hook = "transfer_hook"
                => m \in Visible(metaLists, saved.metaLists))
             <=> (mint[m].hook = "transfer_hook" => m \in metaLists)
    BY DEF Committed!HookAccepts, HookAccepts, Visible
  <2>2. /\ Committed!Live(m) <=> Live(m)
        /\ Committed!Open(from) <=> Open(from)
        /\ Committed!Open(to) <=> Open(to)
        /\ Committed!TransferChecked(m, from, to, w, n, FALSE, told)
             <=> TransferChecked(m, from, to, w, n, FALSE, told)
        /\ Committed!Signed({w}) <=> Signed({w})
    BY SameChecks, SameCalls
  <2>3. QED
    BY ONLY <2>1, <2>2, <1>0 DEF Committed!TransferHookToken, TransferHookToken
<1>7. QED
  BY <1>1, <1>2, <1>3, <1>4, <1>5, <1>6, SameConstants
  DEF Committed!TokenStep, TokenStep

\* So is one that gathers fees.
LEMMA SameFeeStep ==
    ASSUME call = Idle, call' = Idle, FeeStep
    PROVE  Committed!FeeStep
<1>1. \A m, w, remaining :
          Committed!WithdrawWithheldAccount(m, w, remaining)
              <=> WithdrawWithheldAccount(m, w, remaining)
  BY SameChecks, SameCalls, SameConstants
  DEF Committed!WithdrawWithheldAccount, WithdrawWithheldAccount, Visible
<1>2. \A m, remaining :
          Committed!HarvestWithheldToken(m, remaining)
              <=> HarvestWithheldToken(m, remaining)
  BY SameChecks, SameCalls, SameConstants
  DEF Committed!HarvestWithheldToken, HarvestWithheldToken, Visible
<1>3. \A m, w :
          Committed!WithdrawWithheldMint(m, w)
              <=> WithdrawWithheldMint(m, w)
  BY SameChecks, SameCalls, SameConstants
  DEF Committed!WithdrawWithheldMint, WithdrawWithheldMint, Visible
<1>4. QED
  BY <1>1, <1>2, <1>3, SameConstants
  DEF Committed!FeeStep, FeeStep

\* So is what the clients ask of Token-2022 directly.
LEMMA SameClientStep ==
    ASSUME call = Idle, call' = Idle, ClientStep
    PROVE  Committed!ClientStep
<1>1. \A a, w : Committed!EnableCpiGuard(a, w) <=> EnableCpiGuard(a, w)
  BY SameChecks, SameCalls, SameConstants
  DEF Committed!EnableCpiGuard, EnableCpiGuard, Committed!ledger, ledger, Visible
<1>2. \A m, w, to, n :
          Committed!ClientMintTo(m, w, to, n)
              <=> ClientMintTo(m, w, to, n)
  BY SameChecks, SameCalls, SameConstants
  DEF Committed!ClientMintTo, ClientMintTo, Visible
<1>3. QED
  BY <1>1, <1>2, SameConstants
  DEF Committed!ClientStep, ClientStep

\* So is one that creates a mint with metadata, or updates it.
LEMMA SameMetadataStep ==
    ASSUME call = Idle, call' = Idle, MetadataStep
    PROVE  Committed!MetadataStep
<1>1. \A m, p, w :
          Committed!InitializeMetadataPointer(m, p, w)
              <=> InitializeMetadataPointer(m, p, w)
  BY SameMintCreation, SameConstants
  DEF Committed!InitializeMetadataPointer, InitializeMetadataPointer, Visible
<1>2. \A m, p, w :
          Committed!UpdateMetadataField(m, p, w)
              <=> UpdateMetadataField(m, p, w)
  BY SameChecks, SameCalls, SameConstants
  DEF Committed!UpdateMetadataField, UpdateMetadataField,
      Committed!ledger, ledger, Visible
<1>3. QED
  BY <1>1, <1>2, SameConstants
  DEF Committed!MetadataStep, MetadataStep

\* An instruction that is not taken apart is a step of Committed.
LEMMA AtomicStepCommitted ==
    ASSUME AtomicStep
    PROVE  Committed!Next
<1>1. call = Idle /\ call' = Idle /\ Next  BY DEF AtomicStep, cpiVars
<1>2. QED
  BY <1>1, SameCreateMintStep, SameChangeMintStep, SameAccountStep,
     SameTokenStep, SameFeeStep, SameClientStep, SameMetadataStep
  DEF Next, Committed!Next

-----------------------------------------------------------------------------
(* Calls and their arguments.                                              *)

MintKinds    == ExtensionKinds \cup MintAndAccountKinds
AccountKinds == MintAndAccountKinds \cup TokenAccountKinds
MintCalls    == {"create_mint", "initialize_extension", "initialize_mint2"}
AccountCalls ==
    {"create_account", "initialize_immutable_owner", "initialize_account3",
     "enable_required_transfer_memos"}

CallNames ==
    MintCalls \cup AccountCalls
      \cup {"reallocate", "build_memo", "transfer_sol", "transfer_checked"}

\* s is a list of the calls in names.
IsCallList(s, names) ==
    /\ s \in Seq(CallNames) /\ Len(s) \in Nat
    /\ s = ToCall(s, 0) /\ Done(s, 0) = {}
    /\ \A i \in 1 .. Len(s) : s[i] \in names
    /\ Done(s, Len(s)) = names

\* A tuple of two names is a list of them.
LEMMA TwoCalls ==
    ASSUME NEW a \in CallNames, NEW b \in CallNames
    PROVE  IsCallList(<<a, b>>, {a, b})
<1> DEFINE s == <<a, b>>
<1>1. Len(s) = 2 /\ \A i \in 1 .. 2 : i = 1 \/ i = 2
  OBVIOUS
<1>2. /\ s[1] = a
      /\ s[2] = b
  OBVIOUS
<1>3. s \in Seq(CallNames)  OBVIOUS
<1>4. s = ToCall(s, 0)  BY DEF ToCall
<1> HIDE DEF s
<1>5. \A i \in 1 .. Len(s) : s[i] \in {a, b}  BY <1>1, <1>2
<1>6. Done(s, Len(s)) = {a, b} /\ Done(s, 0) = {}  BY <1>1, <1>2 DEF Done
<1>7. QED  BY <1>1, <1>3, <1>4, <1>5, <1>6 DEF IsCallList, s

\* A tuple of three names is a list of them.
LEMMA ThreeCalls ==
    ASSUME NEW a \in CallNames, NEW b \in CallNames, NEW c \in CallNames
    PROVE  IsCallList(<<a, b, c>>, {a, b, c})
<1> DEFINE s == <<a, b, c>>
<1>1. Len(s) = 3 /\ \A i \in 1 .. 3 : i = 1 \/ i = 2 \/ i = 3
  OBVIOUS
<1>2. /\ s[1] = a
      /\ s[2] = b
      /\ s[3] = c
  OBVIOUS
<1>3. s \in Seq(CallNames)  OBVIOUS
<1>4. s = ToCall(s, 0)  BY DEF ToCall
<1> HIDE DEF s
<1>5. \A i \in 1 .. Len(s) : s[i] \in {a, b, c}  BY <1>1, <1>2
<1>6. Done(s, Len(s)) = {a, b, c} /\ Done(s, 0) = {}  BY <1>1, <1>2 DEF Done
<1>7. QED  BY <1>1, <1>3, <1>4, <1>5, <1>6 DEF IsCallList, s

\* A tuple of five names is a list of them.
LEMMA FiveCalls ==
    ASSUME NEW a \in CallNames, NEW b \in CallNames, NEW c \in CallNames,
           NEW d \in CallNames, NEW e \in CallNames
    PROVE  IsCallList(<<a, b, c, d, e>>, {a, b, c, d, e})
<1> DEFINE s == <<a, b, c, d, e>>
<1>1. Len(s) = 5 /\ \A i \in 1 .. 5 : i = 1 \/ i = 2 \/ i = 3 \/ i = 4 \/ i = 5
  OBVIOUS
<1>2. /\ s[1] = a
      /\ s[2] = b
      /\ s[3] = c
      /\ s[4] = d
      /\ s[5] = e
  OBVIOUS
<1>3. s \in Seq(CallNames)  OBVIOUS
<1>4. s = ToCall(s, 0)  BY DEF ToCall
<1> HIDE DEF s
<1>5. \A i \in 1 .. Len(s) : s[i] \in {a, b, c, d, e}  BY <1>1, <1>2
<1>6. Done(s, Len(s)) = {a, b, c, d, e} /\ Done(s, 0) = {}  BY <1>1, <1>2 DEF Done
<1>7. QED  BY <1>1, <1>3, <1>4, <1>5, <1>6 DEF IsCallList, s

\* A tuple of six names is a list of them.
LEMMA SixCalls ==
    ASSUME NEW a \in CallNames, NEW b \in CallNames, NEW c \in CallNames,
           NEW d \in CallNames, NEW e \in CallNames, NEW f \in CallNames
    PROVE  IsCallList(<<a, b, c, d, e, f>>, {a, b, c, d, e, f})
<1> DEFINE s == <<a, b, c, d, e, f>>
<1>1. /\ Len(s) = 6
      /\ \A i \in 1 .. 6 : \/ i = 1 \/ i = 2 \/ i = 3
                           \/ i = 4 \/ i = 5 \/ i = 6
  OBVIOUS
<1>2. /\ s[1] = a
      /\ s[2] = b
      /\ s[3] = c
      /\ s[4] = d
      /\ s[5] = e
      /\ s[6] = f
  OBVIOUS
<1>3. s \in Seq(CallNames)  OBVIOUS
<1>4. s = ToCall(s, 0)  BY DEF ToCall
<1> HIDE DEF s
<1>5. \A i \in 1 .. Len(s) : s[i] \in {a, b, c, d, e, f}  BY <1>1, <1>2
<1>6. Done(s, Len(s)) = {a, b, c, d, e, f} /\ Done(s, 0) = {}  BY <1>1, <1>2 DEF Done
<1>7. QED  BY <1>1, <1>3, <1>4, <1>5, <1>6 DEF IsCallList, s

\* The calls of each handler.
CallsOf(op) ==
    CASE op \in ExtensionKinds -> MintCalls
      [] op = "immutable_owner" ->
             {"create_mint", "initialize_mint2", "create_account",
              "initialize_immutable_owner", "initialize_account3"}
      [] op = "non_transferable_token" ->
             MintCalls \cup {"create_account", "initialize_immutable_owner",
                             "initialize_account3"}
      [] op = "enable_memo" ->
             {"create_account", "initialize_account3",
              "enable_required_transfer_memos"}
      [] op = "initialize_token_account_with" ->
             {"create_account", "initialize_account3"}
      [] op = "realloc" -> {"reallocate", "enable_required_transfer_memos"}
      [] op = "memo_transfer" -> {"build_memo", "transfer_checked"}
      [] op = "transfer_token" -> {"transfer_sol", "transfer_checked"}

\* Every handler makes its calls, each in the list.
LEMMA CpisAreLists ==
    ASSUME NEW c \in Calls
    PROVE  IsCallList(CpisOf(c.op), CallsOf(c.op))
<1> DEFINE op == c.op
<1>0. /\ op \in ExtensionKinds \/ op \in {"immutable_owner",
             "non_transferable_token", "enable_memo",
             "initialize_token_account_with", "realloc", "memo_transfer",
             "transfer_token"}
      /\ \A n \in {"create_mint", "initialize_extension", "initialize_mint2",
             "create_account", "initialize_immutable_owner",
             "initialize_account3", "enable_required_transfer_memos",
             "reallocate", "build_memo", "transfer_sol", "transfer_checked"} :
             n \in CallNames
  BY DEF Calls, MintAndAccountKinds, TokenAccountKinds, CallNames, MintCalls,
         AccountCalls
<1> HIDE DEF op
<1>1. CASE op \in ExtensionKinds
  <2>1. CpisOf(op) = ExtensionMintCpis /\ CallsOf(op) = MintCalls
    BY <1>1 DEF CpisOf, CallsOf, ExtensionKinds
  <2>2. IsCallList(ExtensionMintCpis, MintCalls)
    BY <1>0, ThreeCalls DEF ExtensionMintCpis, MintCalls
  <2>3. QED  BY <2>1, <2>2 DEF op
<1>2. CASE op = "immutable_owner"
  BY <1>0, <1>2, FiveCalls
  DEF CpisOf, CallsOf, ImmutableOwnerCpis, ExtensionKinds, op
<1>3. CASE op = "non_transferable_token"
  <2>1. MintCalls \cup {"create_account", "initialize_immutable_owner",
                        "initialize_account3"}
          = {"create_mint", "initialize_extension", "initialize_mint2",
             "create_account", "initialize_immutable_owner",
             "initialize_account3"}
    BY DEF MintCalls
  <2>2. CpisOf(op) = NonTransferableTokenCpis
    BY <1>3 DEF CpisOf, ExtensionKinds
  <2>3. CallsOf(op) = MintCalls \cup {"create_account",
                         "initialize_immutable_owner", "initialize_account3"}
    BY <1>3 DEF CallsOf, ExtensionKinds
  <2>4. IsCallList(NonTransferableTokenCpis,
            {"create_mint", "initialize_extension", "initialize_mint2",
             "create_account", "initialize_immutable_owner",
             "initialize_account3"})
    BY <1>0, SixCalls DEF NonTransferableTokenCpis
  <2>5. QED  BY <2>1, <2>2, <2>3, <2>4 DEF op
<1>4. CASE op = "enable_memo"
  BY <1>0, <1>4, ThreeCalls DEF CpisOf, CallsOf, EnableMemoCpis, ExtensionKinds, op
<1>5. CASE op = "initialize_token_account_with"
  BY <1>0, <1>5, TwoCalls DEF CpisOf, CallsOf, TokenAccountCpis, ExtensionKinds, op
<1>6. CASE op = "realloc"
  BY <1>0, <1>6, TwoCalls DEF CpisOf, CallsOf, ReallocCpis, ExtensionKinds, op
<1>7. CASE op = "memo_transfer"
  BY <1>0, <1>7, TwoCalls DEF CpisOf, CallsOf, MemoTransferCpis, ExtensionKinds, op
<1>8. CASE op = "transfer_token"
  BY <1>0, <1>8, TwoCalls DEF CpisOf, CallsOf, TransferTokenCpis, ExtensionKinds, op
<1>9. QED  BY <1>0, <1>1, <1>2, <1>3, <1>4, <1>5, <1>6, <1>7, <1>8

\* The next call of a handler that made the first k.
LEMMA NextCall ==
    ASSUME NEW cpis, NEW names, IsCallList(cpis, names),
           NEW k \in 0 .. Len(cpis), todo = ToCall(cpis, k), todo # <<>>
    PROVE  /\ k + 1 \in 0 .. Len(cpis)
           /\ Head(todo) = cpis[k + 1] /\ cpis[k + 1] \in names
           /\ Tail(todo) = ToCall(cpis, k + 1)
           /\ Done(cpis, k + 1) = Done(cpis, k) \cup {cpis[k + 1]}
<1>0. cpis \in Seq(CallNames) /\ Len(cpis) \in Nat  BY DEF IsCallList
<1>1. todo \in Seq(CallNames) /\ Len(todo) = Len(cpis) - k  BY <1>0 DEF ToCall
<1>2. k < Len(cpis)
  <2>1. Len(todo) # 0  BY <1>1, EmptySeq
  <2>2. QED  BY <1>0, <1>1, <2>1
<1>3. /\ Tail(todo) \in Seq(CallNames) /\ Len(Tail(todo)) = Len(todo) - 1
      /\ \A i \in 1 .. Len(Tail(todo)) : Tail(todo)[i] = todo[i + 1]
  BY <1>1, HeadTailProperties
<1>4. Head(todo) = cpis[k + 1]  BY <1>0, <1>1, <1>2 DEF ToCall
<1>5. Tail(todo) = ToCall(cpis, k + 1)
  <2> DEFINE rest == ToCall(cpis, k + 1)
  <2>1. rest \in Seq(CallNames) /\ Len(rest) = Len(cpis) - (k + 1)
    BY <1>0, <1>2 DEF ToCall
  <2>2. ASSUME NEW i \in 1 .. Len(Tail(todo))
        PROVE  Tail(todo)[i] = rest[i]
    <3>1. i \in 1 .. Len(cpis) - (k + 1) /\ i + 1 \in 1 .. Len(cpis) - k
      BY <1>0, <1>1, <1>2, <1>3
    <3>2. rest[i] = cpis[i + (k + 1)]  BY <3>1 DEF ToCall
    <3>3. todo[i + 1] = cpis[(i + 1) + k]  BY <3>1 DEF ToCall
    <3>4. QED  BY <1>3, <3>1, <3>2, <3>3
  <2> HIDE DEF rest
  <2>3. Len(Tail(todo)) = Len(rest)  BY <1>0, <1>1, <1>2, <1>3, <2>1
  <2>4. QED  BY <1>3, <2>1, <2>2, <2>3, SeqEqual DEF rest
<1>6. Done(cpis, k + 1) = Done(cpis, k) \cup {cpis[k + 1]}
  BY <1>0, <1>2 DEF Done
<1>7. QED  BY <1>0, <1>2, <1>4, <1>5, <1>6 DEF IsCallList

\* When there is none, all calls were made.
LEMMA NoNextCall ==
    ASSUME NEW cpis, NEW names, IsCallList(cpis, names),
           NEW k \in 0 .. Len(cpis), todo = ToCall(cpis, k), todo = <<>>
    PROVE  Done(cpis, k) = names
<1>0. cpis \in Seq(CallNames) /\ Len(cpis) \in Nat  BY DEF IsCallList
<1>1. Len(todo) = Len(cpis) - k  BY <1>0 DEF ToCall
<1>2. Len(todo) = 0  OBVIOUS
<1>3. k = Len(cpis)  BY <1>0, <1>1, <1>2
<1>4. QED  BY <1>3 DEF IsCallList

\* What was called is in the list.
LEMMA DoneIsListed ==
    ASSUME NEW cpis, NEW names, IsCallList(cpis, names), NEW k \in 0 .. Len(cpis)
    PROVE  Done(cpis, k) \subseteq names
BY DEF Done, IsCallList

-----------------------------------------------------------------------------
(* Handlers that create accounts, call by call.                            *)

\* The arguments of a handler that makes the calls in names.
CreationArgs(names) ==
    /\ call.p \in Wallets /\ call.w \in Wallets
    /\ names \cap MintCalls # {} =>
           /\ call.m \in Mints /\ call.mintLen \in Rooms
           /\ saved.mint[call.m] = Absent
    /\ names \cap AccountCalls # {} =>
           /\ call.m \in Mints /\ call.a \in KeyAccounts
           /\ call.accountLen \in Rooms
           /\ saved.account[call.a] = Absent

\* It made the calls in done.
Ready(names, done) ==
    /\ TypeOK /\ saved \in SavedState /\ CreationArgs(names)
    /\ done \subseteq names /\ Creating(done)

\* The types of what was saved.
LEMMA SavedTypes ==
    ASSUME saved \in SavedState
    PROVE  /\ saved.mint \in [Mints -> MintState \cup {Absent}]
           /\ saved.account \in [Accounts -> AccountState \cup {Absent}]
           /\ saved.supply \in [Mints -> U64] /\ saved.feePool \in [Mints -> U64]
           /\ saved.amount \in [Accounts -> U64]
           /\ saved.withheld \in [Accounts -> U64]
           /\ saved.lamports \in [Addresses -> Nat]
           /\ saved.metaLists \subseteq Mints
           /\ saved.tx \in [signers : SUBSET Wallets, memo : BOOLEAN]
BY DEF SavedState

\* A mint is neither a wallet nor a token account, nor is an account a wallet.
LEMMA DistinctAddresses ==
    /\ \A m \in Mints, p \in Wallets : m # p
    /\ \A a \in KeyAccounts, p \in Wallets : a # p
    /\ \A a \in KeyAccounts, m \in Mints : a # m
    /\ KeyAccounts \subseteq Accounts
    /\ Mints \subseteq Addresses /\ KeyAccounts \subseteq Addresses
    /\ Wallets \subseteq Addresses
BY OneKindOfAddress DEF Accounts, Addresses

\* A call that leaves the mint alone.
LEMMA MintMadeKept ==
    ASSUME NEW done, NEW more, MintMade(done),
           "initialize_mint2" \in done <=> "initialize_mint2" \in more,
           "initialize_mint2" \in done =>
               ("initialize_extension" \in done <=> "initialize_extension" \in more),
           UNCHANGED <<mint, supply, feePool, call, saved>>
    PROVE  MintMade(more)'
BY DEF MintMade, MintExtensions

\* A call that leaves the token account alone, and the mint once there is one.
LEMMA AccountMadeKept ==
    ASSUME NEW done, NEW more, AccountMade(done),
           "initialize_account3" \in done <=> "initialize_account3" \in more,
           "initialize_account3" \in done =>
               /\ "initialize_immutable_owner" \in done
                      <=> "initialize_immutable_owner" \in more
               /\ "enable_required_transfer_memos" \in done
                      <=> "enable_required_transfer_memos" \in more
               /\ mint' = mint,
           UNCHANGED <<account, call, saved>>
    PROVE  AccountMade(more)'
<1>1. CASE "initialize_account3" \in done
  <2>1. /\ AccountExtensions(more)' = AccountExtensions(done)
        /\ ("enable_required_transfer_memos" \in more)
              = ("enable_required_transfer_memos" \in done)
    BY <1>1 DEF AccountExtensions
  <2>2. /\ mint'[call'.m] = mint[call.m] /\ call' = call /\ saved' = saved
        /\ account' = account
    BY <1>1
  <2>3. QED  BY <1>1, <2>1, <2>2 DEF AccountMade
<1>2. CASE "initialize_account3" \notin done
  BY <1>2 DEF AccountMade
<1>3. QED  BY <1>1, <1>2

\* A call that moves no SOL.
LEMMA RentSpentKept ==
    ASSUME NEW done, NEW more, RentSpent(done),
           "create_mint" \in done <=> "create_mint" \in more,
           "create_account" \in done <=> "create_account" \in more,
           UNCHANGED <<lamports, call, saved>>
    PROVE  RentSpent(more)'
BY DEF RentSpent

\* create_mint: the mint has the rent of its length and no extension yet.
LEMMA CreateMintCall ==
    ASSUME NEW names, NEW done, Ready(names, done), "create_mint" \in names,
           CreateRaw(call.m, call.p, call.mintLen), call' = call, saved' = saved
    PROVE  /\ TypeOK' /\ Creating(done \cup {"create_mint"})'
           /\ UNCHANGED <<metaLists, tx>>
<1> DEFINE more == done \cup {"create_mint"}
<1>1. /\ call.m \in Mints /\ call.p \in Wallets /\ call.mintLen \in Nat
      /\ Rent(call.mintLen) \in Nat /\ Rent(call.mintLen) > 0
  BY BoundsAreNatural DEF Ready, CreationArgs, MintCalls, Rooms, Rent
<1>2. /\ UNCHANGED <<mint, account, ledger, metaLists, tx>>
      /\ lamports[call.m] = 0 /\ lamports[call.p] >= Rent(call.mintLen)
      /\ lamports' = [lamports EXCEPT ![call.p] = @ - Rent(call.mintLen),
                                      ![call.m] = Rent(call.mintLen)]
      /\ raw' = [raw EXCEPT ![call.m] = [len |-> call.mintLen, extensions |-> {}]]
  BY DEF CreateRaw, CreateAccount
<1>3. "create_mint" \notin done
  BY <1>1, <1>2, DistinctAddresses DEF Ready, Creating, RentSpent
<1>4. "initialize_extension" \notin done /\ "initialize_mint2" \notin done
  BY <1>3 DEF Ready, Creating, InOrder
<1>5. /\ "create_mint" \in more
      /\ \A n : n # "create_mint" => (n \in more <=> n \in done)
  OBVIOUS
<1> HIDE DEF more
<1>6. InOrder(more)
  BY <1>3, <1>4, <1>5 DEF Ready, Creating, InOrder
<1>7. (raw = RawOf(more))'
  <2>1. raw = RawOf(done)  BY DEF Ready, Creating
  <2>2. QED
    BY <1>1, <1>2, <1>3, <1>4, <1>5, <2>1, DistinctAddresses
    DEF RawOf, RawMint, RawAccount, MintExtensions, AccountExtensions
<1>8. RentSpent(more)'
  <2> DEFINE paid == IF "create_account" \in done THEN Rent(call.accountLen) ELSE 0
             mintRent == Rent(call.mintLen)
  <2>1. /\ "create_account" \in done => saved.lamports[call.a] = 0
        /\ saved.lamports[call.p] >= 0 + paid
        /\ lamports = [x \in Addresses |->
               IF "create_account" \in done /\ x = call.a THEN paid
               ELSE IF x = call.p THEN saved.lamports[x] - (0 + paid)
               ELSE saved.lamports[x]]
    BY <1>3 DEF Ready, Creating, RentSpent
  <2>2. /\ paid \in Nat
        /\ "create_account" \in done => call.a \in KeyAccounts
    BY BoundsAreNatural DEF Ready, CreationArgs, AccountCalls, Rooms, Rent
  <2>3. saved.lamports \in [Addresses -> Nat]  BY SavedTypes DEF Ready
  <2> HIDE DEF paid, mintRent
  <2>4. /\ lamports[call.m] = saved.lamports[call.m]
        /\ lamports[call.p] = saved.lamports[call.p] - paid
    BY <1>1, <2>1, <2>2, <2>3, DistinctAddresses
  <2>5. mintRent \in Nat  BY <1>1 DEF mintRent
  <2>6. /\ saved.lamports[call.m] = 0
        /\ saved.lamports[call.p] >= mintRent + paid
    BY <1>1, <1>2, <2>2, <2>3, <2>4, <2>5, DistinctAddresses DEF mintRent
  <2>7. lamports' = [x \in Addresses |->
               IF x = call.m THEN mintRent
               ELSE IF "create_account" \in done /\ x = call.a THEN paid
               ELSE IF x = call.p THEN saved.lamports[x] - (mintRent + paid)
               ELSE saved.lamports[x]]
    BY <1>1, <1>2, <2>1, <2>2, <2>3, <2>4, <2>5, DistinctAddresses
    DEF mintRent
  <2>8. QED
    BY <1>5, <2>1, <2>6, <2>7 DEF RentSpent, paid, mintRent
<1>9. MintMade(more)'
  BY <1>2, <1>4, <1>5, MintMadeKept DEF Ready, Creating, ledger
<1>10. AccountMade(more)'
  BY <1>2, <1>4, <1>5, AccountMadeKept DEF Ready, Creating, ledger
<1>11. TypeOK'
  <2>1. lamports' \in [Addresses -> Nat]
    BY <1>1, CreateAccountType, DistinctAddresses DEF Ready, TypeOK, CreateRaw
  <2>2. QED  BY <1>2, <2>1 DEF Ready, TypeOK, ledger
<1>12. QED
  BY <1>2, <1>6, <1>7, <1>8, <1>9, <1>10, <1>11 DEF Ready, Creating, ledger, more
\* What is left uninitialised is the mint, or the account.
LEMMA RawMintAt ==
    ASSUME NEW names, NEW done, Ready(names, done),
           call.m \in Mints, raw[call.m] # Absent
    PROVE  /\ RawMint(done)
           /\ raw[call.m] = [len |-> call.mintLen,
                             extensions |-> MintExtensions(done)]
           /\ call.mintLen \in Nat /\ saved.mint[call.m] = Absent
<1>1. RawAccount(done) => call.a \in KeyAccounts
  BY DEF Ready, CreationArgs, RawAccount, AccountCalls
<1>2. raw = RawOf(done)  BY DEF Ready, Creating
<1>3. RawMint(done)  BY <1>1, <1>2, DistinctAddresses DEF RawOf
<1>4. call.mintLen \in Rooms /\ saved.mint[call.m] = Absent
  BY <1>3 DEF Ready, CreationArgs, RawMint, MintCalls
<1>5. QED  BY <1>2, <1>3, <1>4, BoundsAreNatural DEF RawOf, Rooms

\* The same for the account.
LEMMA RawAccountAt ==
    ASSUME NEW names, NEW done, Ready(names, done),
           call.a \in KeyAccounts, raw[call.a] # Absent
    PROVE  /\ RawAccount(done)
           /\ raw[call.a] = [len |-> call.accountLen,
                             extensions |-> AccountExtensions(done)]
           /\ call.accountLen \in Rooms /\ saved.account[call.a] = Absent
<1>1. RawMint(done) => call.m \in Mints
  BY DEF Ready, CreationArgs, RawMint, MintCalls
<1>2. raw = RawOf(done)  BY DEF Ready, Creating
<1>3. RawAccount(done)  BY <1>1, <1>2, DistinctAddresses DEF RawOf
<1>4. call.accountLen \in Rooms /\ saved.account[call.a] = Absent
  BY <1>3 DEF Ready, CreationArgs, RawAccount, AccountCalls
<1>5. QED  BY <1>1, <1>2, <1>3, <1>4, DistinctAddresses DEF RawOf

\* initialize_extension: the uninitialised mint has its extension.
LEMMA InitializeExtensionCall ==
    ASSUME NEW names, NEW done, Ready(names, done),
           "initialize_extension" \in names,
           InitializeExtension(call.m, call.op), call' = call, saved' = saved
    PROVE  /\ TypeOK' /\ Creating(done \cup {"initialize_extension"})'
           /\ UNCHANGED <<metaLists, tx>>
<1> DEFINE more == done \cup {"initialize_extension"}
<1>1. call.m \in Mints  BY DEF Ready, CreationArgs, MintCalls
<1>2. /\ UNCHANGED vars /\ raw[call.m] # Absent
      /\ raw' = [raw EXCEPT ![call.m].extensions = @ \cup {call.op}]
  BY DEF InitializeExtension, CanExtend
<1>3. /\ RawMint(done)
      /\ raw[call.m] = [len |-> call.mintLen, extensions |-> MintExtensions(done)]
  BY <1>1, <1>2, RawMintAt
<1>4. "create_mint" \in done /\ "initialize_mint2" \notin done
  BY <1>3 DEF RawMint
<1>5. /\ "initialize_extension" \in more
      /\ \A n : n # "initialize_extension" => (n \in more <=> n \in done)
  OBVIOUS
<1> HIDE DEF more
<1>6. InOrder(more)
  BY <1>4, <1>5 DEF Ready, Creating, InOrder
<1>7. (raw = RawOf(more))'
  <2>1. raw = RawOf(done)  BY DEF Ready, Creating
  <2>2. MintExtensions(done) \cup {call.op} = {call.op}  BY DEF MintExtensions
  <2>3. raw'[call.m] = [len |-> call.mintLen, extensions |-> {call.op}]
    BY <1>1, <1>2, <1>3, <2>1, <2>2 DEF RawOf
  <2>4. QED
    BY <1>1, <1>2, <1>4, <1>5, <2>1, <2>3
    DEF RawOf, RawMint, RawAccount, MintExtensions, AccountExtensions
<1>8. RentSpent(more)'
  BY <1>2, <1>5, RentSpentKept DEF Ready, Creating, vars
<1>9. MintMade(more)'
  BY <1>2, <1>4, <1>5, MintMadeKept DEF Ready, Creating, vars
<1>10. AccountMade(more)'
  BY <1>2, <1>4, <1>5, AccountMadeKept DEF Ready, Creating, vars
<1>11. TypeOK'  BY <1>2 DEF Ready, TypeOK, vars
<1>12. QED
  BY <1>2, <1>6, <1>7, <1>8, <1>9, <1>10, <1>11 DEF Ready, Creating, vars, more

\* initialize_mint2 of a mint with any extensions leaves a well-formed one.
LEMMA ExtendedMintType ==
    ASSUME NEW w \in Wallets, NEW extensions
    PROVE  ExtendedMint(w, extensions) \in MintState
<1>1. PlainMint(w) \in MintState  BY PlainMintType
<1>2. w \in Key /\ NoOne \in Key  BY DEF Key
<1> DEFINE plain == PlainMint(w)
<1> HIDE DEF plain
<1>3. plain \in MintState  BY <1>1 DEF plain
<1> DEFINE close    == IF "mint_close_authority" \in extensions THEN w ELSE NoOne
           delegate == IF "permanent_delegate" \in extensions THEN w ELSE NoOne
           frozen   == "default_account_state" \in extensions
           freeze   == IF "default_account_state" \in extensions THEN w ELSE NoOne
           stays    == "non_transferable_token" \in extensions
<1>4. /\ close \in Key /\ delegate \in Key /\ freeze \in Key
      /\ frozen \in BOOLEAN /\ stays \in BOOLEAN
  BY <1>2
<1>5. ExtendedMint(w, extensions) =
          [plain EXCEPT !.close = close, !.delegate = delegate,
                        !.frozenDefault = frozen, !.freeze = freeze,
                        !.nonTransferable = stays]
  BY DEF ExtendedMint, plain
<1> HIDE DEF close, delegate, frozen, freeze, stays
<1>6. QED  BY <1>3, <1>4, <1>5 DEF MintState

\* initialize_mint2: the mint is made, of the extensions initialised.
LEMMA InitializeMint2Call ==
    ASSUME NEW names, NEW done, Ready(names, done),
           "initialize_mint2" \in names,
           InitializeMint2(call.m, call.w), call' = call, saved' = saved
    PROVE  /\ TypeOK' /\ Creating(done \cup {"initialize_mint2"})'
           /\ UNCHANGED <<metaLists, tx>>
<1> DEFINE more == done \cup {"initialize_mint2"}
           made == ExtendedMint(call.w, MintExtensions(done))
<1>1. call.m \in Mints /\ call.w \in Wallets
  BY DEF Ready, CreationArgs, MintCalls
<1>2. /\ UNCHANGED <<account, amount, withheld, lamports, metaLists, tx>>
      /\ raw[call.m] # Absent
      /\ raw' = [raw EXCEPT ![call.m] = Absent]
  BY DEF InitializeMint2, CanMakeMint
<1>3. /\ RawMint(done)
      /\ raw[call.m] = [len |-> call.mintLen, extensions |-> MintExtensions(done)]
      /\ saved.mint[call.m] = Absent
  BY <1>1, <1>2, RawMintAt
<1>4. /\ Cardinality(MintExtensions(done)) = call.mintLen
      /\ mint' = [mint EXCEPT ![call.m] = made]
      /\ supply' = [supply EXCEPT ![call.m] = 0]
      /\ feePool' = [feePool EXCEPT ![call.m] = 0]
  BY <1>3 DEF InitializeMint2, CanMakeMint, InitializeMint
<1>5. "create_mint" \in done /\ "initialize_mint2" \notin done
  BY <1>3 DEF RawMint
<1>6. mint = saved.mint /\ supply = saved.supply /\ feePool = saved.feePool
  BY <1>5 DEF Ready, Creating, MintMade
<1>7. "initialize_account3" \notin done
  BY <1>3, <1>6 DEF Ready, Creating, AccountMade
<1>8. /\ "initialize_mint2" \in more
      /\ \A n : n # "initialize_mint2" => (n \in more <=> n \in done)
  OBVIOUS
<1>9. made \in MintState  BY <1>1, ExtendedMintType
<1> HIDE DEF more
<1>10. InOrder(more)
  BY <1>5, <1>8 DEF Ready, Creating, InOrder
<1>11. (raw = RawOf(more))'
  <2>1. raw = RawOf(done)  BY DEF Ready, Creating
  <2>2. RawAccount(done) => call.a \in KeyAccounts
    BY DEF Ready, CreationArgs, RawAccount, AccountCalls
  <2>3. QED
    BY <1>1, <1>2, <1>8, <2>1, <2>2, DistinctAddresses
    DEF RawOf, RawMint, RawAccount, MintExtensions, AccountExtensions
<1>12. RentSpent(more)'
  BY <1>2, <1>8, RentSpentKept DEF Ready, Creating
<1>13. MintMade(more)'
  <2>1. MintExtensions(more)' = MintExtensions(done)
    BY <1>8 DEF MintExtensions
  <2> HIDE DEF made
  <2>2. made = ExtendedMint(call'.w, MintExtensions(more)')  BY <2>1 DEF made
  <2>3. QED
    BY <1>4, <1>6, <1>8, <2>1, <2>2 DEF MintMade
<1>14. AccountMade(more)'
  BY <1>2, <1>7, <1>8, AccountMadeKept DEF Ready, Creating
<1>15. TypeOK'
  <2> HIDE DEF made
  <2>1. /\ mint' \in [Mints -> MintState \cup {Absent}]
        /\ supply' \in [Mints -> U64] /\ feePool' \in [Mints -> U64]
    BY <1>1, <1>4, <1>9, U64Facts DEF Ready, TypeOK
  <2>2. QED  BY <1>2, <2>1 DEF Ready, TypeOK
<1>16. QED
  BY <1>2, <1>10, <1>11, <1>12, <1>13, <1>14, <1>15 DEF Ready, Creating, more
\* create_account: the token account has the rent of its length.
LEMMA CreateAccountCall ==
    ASSUME NEW names, NEW done, Ready(names, done), "create_account" \in names,
           CreateRaw(call.a, call.p, call.accountLen), call' = call,
           saved' = saved
    PROVE  /\ TypeOK' /\ Creating(done \cup {"create_account"})'
           /\ UNCHANGED <<metaLists, tx>>
<1> DEFINE more == done \cup {"create_account"}
           accountRent == Rent(call.accountLen)
<1>1. /\ call.a \in KeyAccounts /\ call.p \in Wallets
      /\ accountRent \in Nat /\ accountRent > 0
  BY BoundsAreNatural DEF Ready, CreationArgs, AccountCalls, Rooms, Rent
<1>2. /\ UNCHANGED <<mint, account, ledger, metaLists, tx>>
      /\ lamports[call.a] = 0 /\ lamports[call.p] >= accountRent
      /\ lamports' = [lamports EXCEPT ![call.p] = @ - accountRent,
                                      ![call.a] = accountRent]
      /\ raw' = [raw EXCEPT ![call.a] =
                                 [len |-> call.accountLen, extensions |-> {}]]
  BY DEF CreateRaw, CreateAccount
<1>0. "create_mint" \in done => call.m \in Mints
  BY DEF Ready, CreationArgs, MintCalls
<1>3. "create_account" \notin done
  BY <1>0, <1>1, <1>2, DistinctAddresses DEF Ready, Creating, RentSpent
<1>4. /\ "initialize_immutable_owner" \notin done
      /\ "initialize_account3" \notin done
  BY <1>3 DEF Ready, Creating, InOrder
<1>5. /\ "create_account" \in more
      /\ \A n : n # "create_account" => (n \in more <=> n \in done)
  OBVIOUS
<1> HIDE DEF more
<1>6. InOrder(more)
  BY <1>3, <1>4, <1>5 DEF Ready, Creating, InOrder
<1>7. (raw = RawOf(more))'
  <2>1. raw = RawOf(done)  BY DEF Ready, Creating
  <2>2. RawMint(done) => call.m \in Mints
    BY <1>0 DEF RawMint
  <2>3. QED
    BY <1>1, <1>2, <1>3, <1>4, <1>5, <2>1, <2>2, DistinctAddresses
    DEF RawOf, RawMint, RawAccount, MintExtensions, AccountExtensions
<1>8. RentSpent(more)'
  <2> DEFINE paid == IF "create_mint" \in done THEN Rent(call.mintLen) ELSE 0
  <2>1. /\ "create_mint" \in done => saved.lamports[call.m] = 0
        /\ saved.lamports[call.p] >= paid + 0
        /\ lamports = [x \in Addresses |->
               IF "create_mint" \in done /\ x = call.m THEN paid
               ELSE IF x = call.p THEN saved.lamports[x] - (paid + 0)
               ELSE saved.lamports[x]]
    BY <1>3 DEF Ready, Creating, RentSpent
  <2>2. paid \in Nat
    BY BoundsAreNatural DEF Ready, CreationArgs, MintCalls, Rooms, Rent
  <2>3. saved.lamports \in [Addresses -> Nat]  BY SavedTypes DEF Ready
  <2> HIDE DEF paid, accountRent
  <2>4. /\ lamports[call.a] = saved.lamports[call.a]
        /\ lamports[call.p] = saved.lamports[call.p] - paid
    BY <1>0, <1>1, <2>1, <2>2, <2>3, DistinctAddresses
  <2>5. /\ saved.lamports[call.a] = 0
        /\ saved.lamports[call.p] >= paid + accountRent
    BY <1>1, <1>2, <2>2, <2>3, <2>4, DistinctAddresses
  <2>6. lamports' = [x \in Addresses |->
               IF "create_mint" \in done /\ x = call.m THEN paid
               ELSE IF x = call.a THEN accountRent
               ELSE IF x = call.p THEN saved.lamports[x] - (paid + accountRent)
               ELSE saved.lamports[x]]
    BY <1>0, <1>1, <1>2, <2>1, <2>2, <2>3, <2>4, DistinctAddresses
  <2>7. QED
    BY <1>5, <2>1, <2>5, <2>6 DEF RentSpent, paid, accountRent
<1>9. MintMade(more)'
  BY <1>2, <1>5, MintMadeKept DEF Ready, Creating, ledger
<1>10. AccountMade(more)'
  BY <1>2, <1>4, <1>5, AccountMadeKept DEF Ready, Creating, ledger
<1>11. TypeOK'
  <2>1. lamports' \in [Addresses -> Nat]
    BY <1>1, CreateAccountType, DistinctAddresses DEF Ready, TypeOK, CreateRaw
  <2>2. QED  BY <1>2, <2>1 DEF Ready, TypeOK, ledger
<1>12. QED
  BY <1>2, <1>6, <1>7, <1>8, <1>9, <1>10, <1>11 DEF Ready, Creating, ledger, more

\* initialize_immutable_owner: the uninitialised account has its extension.
LEMMA InitializeImmutableOwnerCall ==
    ASSUME NEW names, NEW done, Ready(names, done),
           "initialize_immutable_owner" \in names,
           InitializeExtension(call.a, "immutable_owner"),
           call' = call, saved' = saved
    PROVE  /\ TypeOK' /\ Creating(done \cup {"initialize_immutable_owner"})'
           /\ UNCHANGED <<metaLists, tx>>
<1> DEFINE more == done \cup {"initialize_immutable_owner"}
<1>1. call.a \in KeyAccounts  BY DEF Ready, CreationArgs, AccountCalls
<1>2. /\ UNCHANGED vars /\ raw[call.a] # Absent
      /\ raw' = [raw EXCEPT ![call.a].extensions = @ \cup {"immutable_owner"}]
  BY DEF InitializeExtension, CanExtend
<1>3. /\ RawAccount(done)
      /\ raw[call.a] = [len |-> call.accountLen,
                        extensions |-> AccountExtensions(done)]
  BY <1>1, <1>2, RawAccountAt
<1>4. "create_account" \in done /\ "initialize_account3" \notin done
  BY <1>3 DEF RawAccount
<1>5. /\ "initialize_immutable_owner" \in more
      /\ \A n : n # "initialize_immutable_owner" => (n \in more <=> n \in done)
  OBVIOUS
<1> HIDE DEF more
<1>6. InOrder(more)
  BY <1>4, <1>5 DEF Ready, Creating, InOrder
<1>7. (raw = RawOf(more))'
  <2>1. raw = RawOf(done)  BY DEF Ready, Creating
  <2>2. AccountExtensions(done) \cup {"immutable_owner"} = {"immutable_owner"}
    BY DEF AccountExtensions
  <2>3. raw'[call.a] = [len |-> call.accountLen, extensions |-> {"immutable_owner"}]
    BY <1>1, <1>2, <1>3, <2>1, <2>2 DEF RawOf
  <2>4. RawMint(done) => call.m \in Mints
    BY DEF Ready, CreationArgs, RawMint, MintCalls
  <2>5. QED
    BY <1>1, <1>2, <1>4, <1>5, <2>1, <2>3, <2>4, DistinctAddresses
    DEF RawOf, RawMint, RawAccount, MintExtensions, AccountExtensions
<1>8. RentSpent(more)'
  BY <1>2, <1>5, RentSpentKept DEF Ready, Creating, vars
<1>9. MintMade(more)'
  BY <1>2, <1>5, MintMadeKept DEF Ready, Creating, vars
<1>10. AccountMade(more)'
  BY <1>2, <1>4, <1>5, AccountMadeKept DEF Ready, Creating, vars
<1>11. TypeOK'  BY <1>2 DEF Ready, TypeOK, vars
<1>12. QED
  BY <1>2, <1>6, <1>7, <1>8, <1>9, <1>10, <1>11 DEF Ready, Creating, vars, more

\* initialize_account3: the account is made, with the room its length leaves.
LEMMA InitializeAccount3Call ==
    ASSUME NEW names, NEW done, Ready(names, done),
           "initialize_account3" \in names,
           InitializeAccount3(call.a, call.m, call.w), call' = call, saved' = saved
    PROVE  /\ TypeOK' /\ Creating(done \cup {"initialize_account3"})'
           /\ UNCHANGED <<metaLists, tx>>
<1> DEFINE more == done \cup {"initialize_account3"}
           owned == AccountExtensions(done) # {}
           new == NewAccount(call.m, mint[call.m], call.w, owned, 0)
           free == call.accountLen - Slots(new)
           made == [new EXCEPT !.room = free]
<1>1. call.m \in Mints /\ call.w \in Wallets /\ call.a \in KeyAccounts
  BY DEF Ready, CreationArgs, AccountCalls
<1>2. /\ UNCHANGED <<mint, ledger, lamports, metaLists, tx>>
      /\ raw[call.a] # Absent /\ mint[call.m] # Absent
      /\ raw' = [raw EXCEPT ![call.a] = Absent]
  BY DEF InitializeAccount3, CanOpen, Live
<1>3. /\ RawAccount(done)
      /\ raw[call.a] = [len |-> call.accountLen,
                        extensions |-> AccountExtensions(done)]
      /\ call.accountLen \in Rooms /\ saved.account[call.a] = Absent
  BY <1>1, <1>2, RawAccountAt
<1>4. /\ "create_account" \in done /\ "initialize_account3" \notin done
      /\ "enable_required_transfer_memos" \notin done
  BY <1>3 DEF RawAccount, Ready, Creating, InOrder
<1>5. ("immutable_owner" \in raw[call.a].extensions) = owned
  BY <1>3 DEF AccountExtensions
<1>6. /\ Slots(new) <= call.accountLen
      /\ account' = [account EXCEPT ![call.a] = made]
  <2> DEFINE flag == "immutable_owner" \in raw[call.a].extensions
             other == NewAccount(call.m, mint[call.m], call.w, flag, 0)
  <2>1. /\ Slots(other) <= raw[call.a].len
        /\ account' = [account EXCEPT ![call.a] =
                          [other EXCEPT !.room = raw[call.a].len - Slots(other)]]
    BY DEF InitializeAccount3, CanOpen, AccountOf, InitializeAccount
  <2>2. other = new  BY <1>5
  <2>3. raw[call.a].len = call.accountLen  BY <1>3
  <2> HIDE DEF other, new
  <2>4. QED  BY <2>1, <2>2, <2>3
<1>7. account = saved.account
  BY <1>4 DEF Ready, Creating, AccountMade
<1>8. /\ "initialize_account3" \in more
      /\ \A n : n # "initialize_account3" => (n \in more <=> n \in done)
  OBVIOUS
<1>9. new \in AccountState /\ Slots(new) \in Nat /\ free \in Rooms
  <2>1. mint[call.m] \in MintState  BY <1>1, <1>2 DEF Ready, TypeOK
  <2>2. owned \in BOOLEAN /\ 0 \in Rooms  BY BoundsAreNatural DEF Rooms
  <2>3. new \in AccountState  BY <1>1, <2>1, <2>2, NewAccountType
  <2>4. new.room = 0  BY DEF NewAccount
  <2> HIDE DEF new
  <2>5. Slots(new) \in Nat  BY <2>4, SlotsNat
  <2>6. QED
    BY <1>3, <1>6, <2>3, <2>5, BoundsAreNatural DEF Rooms
<1>10. made = [new EXCEPT !.memo = FALSE, !.room = free]
  <2> HIDE DEF free
  <2>1. new.memo = FALSE  BY DEF NewAccount
  <2> HIDE DEF new
  <2>2. QED  BY <1>9, <2>1 DEF AccountState
<1> HIDE DEF more, new
<1>11. InOrder(more)
  BY <1>4, <1>8 DEF Ready, Creating, InOrder
<1>12. (raw = RawOf(more))'
  <2>1. raw = RawOf(done)  BY DEF Ready, Creating
  <2>2. RawMint(done) => call.m \in Mints
    BY DEF Ready, CreationArgs, RawMint, MintCalls
  <2>3. QED
    BY <1>1, <1>2, <1>8, <2>1, <2>2, DistinctAddresses
    DEF RawOf, RawMint, RawAccount, MintExtensions, AccountExtensions
<1>13. RentSpent(more)'
  BY <1>2, <1>8, RentSpentKept DEF Ready, Creating
<1>14. MintMade(more)'
  BY <1>2, <1>8, MintMadeKept DEF Ready, Creating, ledger
<1>15. AccountMade(more)'
  <2>1. AccountExtensions(more)' = AccountExtensions(done)
    BY <1>8 DEF AccountExtensions
  <2>2. ("enable_required_transfer_memos" \in more) = FALSE
    BY <1>4, <1>8
  <2>3. new = NewAccount(call'.m, mint'[call'.m], call'.w,
                         AccountExtensions(more)' # {}, 0)
    BY <1>2, <2>1 DEF new
  <2>4. free >= 0  BY <1>9 DEF Rooms
  <2> HIDE DEF made, free
  <2>5. account' = [saved'.account EXCEPT ![call'.a] =
                       [new EXCEPT !.memo = FALSE, !.room = free]]
    BY <1>6, <1>7, <1>10
  <2>6. QED
    BY <1>2, <1>8, <2>2, <2>3, <2>4, <2>5 DEF AccountMade, free
<1>16. TypeOK'
  <2>1. made \in AccountState  BY <1>9 DEF AccountState
  <2> HIDE DEF made
  <2>2. account' \in [Accounts -> AccountState \cup {Absent}]
    BY <1>1, <1>6, <2>1, DistinctAddresses DEF Ready, TypeOK
  <2>3. QED  BY <1>2, <2>2 DEF Ready, TypeOK, ledger
<1>17. QED
  BY <1>2, <1>11, <1>12, <1>13, <1>14, <1>15, <1>16
  DEF Ready, Creating, ledger, more

\* enable_required_transfer_memos of the new account takes a slot of its room.
LEMMA EnableNewMemoCall ==
    ASSUME NEW names, NEW done, Ready(names, done),
           "enable_required_transfer_memos" \in names,
           EnableRequiredMemos(call.a, call.w), call' = call, saved' = saved
    PROVE  /\ TypeOK' /\ Creating(done \cup {"enable_required_transfer_memos"})'
           /\ UNCHANGED <<metaLists, tx>>
<1> DEFINE more == done \cup {"enable_required_transfer_memos"}
           new == NewAccount(call.m, mint[call.m], call.w,
                             AccountExtensions(done) # {}, 0)
           free == call.accountLen - Slots(new)
           memo == "enable_required_transfer_memos" \in done
<1>1. /\ call.m \in Mints /\ call.w \in Wallets /\ call.a \in KeyAccounts
      /\ saved.account[call.a] = Absent
  BY DEF Ready, CreationArgs, AccountCalls
<1>2. /\ UNCHANGED <<mint, ledger, lamports, metaLists, tx, raw>>
      /\ account[call.a] # Absent
  BY DEF EnableRequiredMemos, OwnedBy, Open
<1>3. "initialize_account3" \in done
  BY <1>1, <1>2 DEF Ready, Creating, AccountMade
<1>4. /\ mint[call.m] # Absent
      /\ free >= 0 /\ (memo => free > 0)
      /\ account = [saved.account EXCEPT ![call.a] =
                       [new EXCEPT !.memo = memo,
                                   !.room = IF memo THEN free - 1 ELSE free]]
  BY <1>3 DEF Ready, Creating, AccountMade
<1>5. /\ "enable_required_transfer_memos" \in more
      /\ \A n : n # "enable_required_transfer_memos" => (n \in more <=> n \in done)
  OBVIOUS
<1>6. InOrder(more)
  BY <1>3, <1>5 DEF Ready, Creating, InOrder
<1>7. (raw = RawOf(more))'
  <2>1. raw = RawOf(done)  BY DEF Ready, Creating
  <2> HIDE DEF more
  <2>2. QED
    BY <1>2, <1>5, <2>1
    DEF RawOf, RawMint, RawAccount, MintExtensions, AccountExtensions
<1>8. RentSpent(more)'
  BY <1>2, <1>5, RentSpentKept DEF Ready, Creating
<1>9. MintMade(more)'
  BY <1>2, <1>5, MintMadeKept DEF Ready, Creating, ledger
<1>10. AccountMade(more)' /\ TypeOK'
  <2>0. account \in [Accounts -> AccountState \cup {Absent}]
    BY DEF Ready, TypeOK
  <2>1. CASE memo
    <3>1. account' = account
      <4>1. /\ call.a \in Accounts
              /\ saved.account \in [Accounts -> AccountState \cup {Absent}]
        BY <1>1, DistinctAddresses, SavedTypes DEF Ready
      <4>2. account[call.a] = [new EXCEPT !.memo = memo,
                                 !.room = IF memo THEN free - 1 ELSE free]
        BY <1>4, <4>1
      <4>3. account[call.a].memo  BY <2>1, <4>2 DEF NewAccount
      <4>4. QED  BY <4>3 DEF EnableRequiredMemos
    <3>2. TypeOK'  BY <1>2, <3>1 DEF Ready, TypeOK, ledger
    <3>3. AccountMade(more)'
      BY <1>2, <1>5, <2>1, <3>1, AccountMadeKept DEF Ready, Creating
    <3>4. QED  BY <3>2, <3>3
  <2>2. CASE ~memo
    <3>1. call.a \in Accounts
            /\ saved.account \in [Accounts -> AccountState \cup {Absent}]
      BY <1>1, DistinctAddresses, SavedTypes DEF Ready
    <3>2. account[call.a] = [new EXCEPT !.memo = FALSE, !.room = free]
      <4> DEFINE made(room) == [new EXCEPT !.memo = memo, !.room = room]
      <4>1. account[call.a] = made(IF memo THEN free - 1 ELSE free)
        BY <1>4, <3>1
      <4>2. (IF memo THEN free - 1 ELSE free) = free  BY <2>2
      <4>3. memo = FALSE  BY <2>2
      <4> HIDE DEF new, free, memo
      <4>4. QED  BY <4>1, <4>2, <4>3
    <3>3. ~account[call.a].memo /\ account[call.a].room = free
      BY <3>2 DEF NewAccount
    <3>4. /\ free > 0
          /\ account' = [account EXCEPT ![call.a].memo = TRUE,
                                        ![call.a].room = @ - 1]
      BY <3>3 DEF EnableRequiredMemos
    <3>5. account'[call.a] = [new EXCEPT !.memo = TRUE, !.room = free - 1]
      <4>1. account'[call.a] = [account[call.a] EXCEPT !.memo = TRUE,
                                                       !.room = @ - 1]
        BY <2>0, <3>1, <3>4
      <4> HIDE DEF free
      <4>2. QED  BY <3>2, <3>3, <4>1, ZenonT(60) DEF NewAccount
    <3>6. account' = [saved.account EXCEPT ![call.a] =
                          [new EXCEPT !.memo = TRUE, !.room = free - 1]]
      <4> DEFINE after == [new EXCEPT !.memo = TRUE, !.room = free - 1]
                 before == [new EXCEPT !.memo = memo,
                                       !.room = IF memo THEN free - 1 ELSE free]
      <4>1. account'[call.a] = after  BY <3>5
      <4>2. account = [saved.account EXCEPT ![call.a] = before]  BY <1>4
      <4> HIDE DEF after, before
      <4>3. DOMAIN account' = Accounts
              /\ \A x \in Accounts : x # call.a => account'[x] = account[x]
        BY <2>0, <3>1, <3>4
      <4>4. account' = [x \in Accounts |-> account'[x]]
        BY <2>0, <3>4
      <4>5. account' = [saved.account EXCEPT ![call.a] = after]
        BY <3>1, <4>1, <4>2, <4>3, <4>4
      <4>6. QED  BY <4>5 DEF after
    <3>7. AccountMade(more)'
      <4>1. AccountExtensions(more)' = AccountExtensions(done)
        BY <1>5 DEF AccountExtensions
      <4>2. new = NewAccount(call'.m, mint'[call'.m], call'.w,
                             AccountExtensions(more)' # {}, 0)
        BY <1>2, <4>1
      <4>3. ("enable_required_transfer_memos" \in more) = TRUE  BY <1>5
      <4> HIDE DEF new, more
      <4>4. free = call'.accountLen - Slots(new)  OBVIOUS
      <4> HIDE DEF free
      <4>5. QED
        BY <1>2, <1>3, <1>4, <1>5, <3>4, <3>6, <4>2, <4>3, <4>4
        DEF AccountMade
    <3>8. TypeOK'
      <4>1. account[call.a] \in AccountState  BY <1>2, <2>0, <3>1
      <4>2. account[call.a].room \in Rooms  BY <4>1 DEF AccountState
      <4>3. account[call.a].room - 1 \in Rooms
        BY <3>3, <3>4, <4>2, BoundsAreNatural DEF Rooms
      <4>4. [account[call.a] EXCEPT !.memo = TRUE, !.room = @ - 1]
               \in AccountState
        BY <4>1, <4>3 DEF AccountState
      <4>5. account' \in [Accounts -> AccountState \cup {Absent}]
        BY <2>0, <3>1, <3>4, <4>4
      <4>6. QED  BY <1>2, <4>5 DEF Ready, TypeOK, ledger
    <3>9. QED  BY <3>7, <3>8
  <2>3. QED  BY <2>1, <2>2
<1>11. QED
  BY <1>2, <1>6, <1>7, <1>8, <1>9, <1>10 DEF Ready, Creating, ledger, more
\* The calls of a handler that creates accounts have the arguments they need.
LEMMA CreationArgsFit ==
    ASSUME call \in Calls, call.op \in CreatingKinds, Begun
    PROVE  CreationArgs(CallsOf(call.op))
<1>1. CASE call.op \in ExtensionKinds
  <2>1. /\ call.p \in Wallets /\ call.w \in Wallets /\ call.m \in Mints
        /\ call.mintLen \in Rooms /\ saved.mint[call.m] = Absent
    BY <1>1, LengthsFitRooms
    DEF Calls, Begun, ExtensionKinds, MintAndAccountKinds, TokenAccountKinds
  <2>2. CallsOf(call.op) \cap AccountCalls = {}
    <3>1. CallsOf(call.op) = MintCalls  BY <1>1 DEF CallsOf, ExtensionKinds
    <3>2. QED  BY <3>1 DEF MintCalls, AccountCalls
  <2>3. QED  BY <2>1, <2>2 DEF CreationArgs
<1>2. CASE call.op \in MintAndAccountKinds
  BY <1>2, LengthsFitRooms
  DEF Calls, Begun, ExtensionKinds, MintAndAccountKinds, TokenAccountKinds,
      CreationArgs
<1>3. CASE call.op \in TokenAccountKinds
  <2>1. /\ call.p \in Wallets /\ call.w \in Wallets /\ call.m \in Mints
        /\ call.a \in KeyAccounts /\ call.accountLen \in Rooms
        /\ saved.account[call.a] = Absent
    BY <1>3, LengthsFitRooms
    DEF Calls, Begun, ExtensionKinds, MintAndAccountKinds, TokenAccountKinds
  <2>2. CallsOf(call.op) \cap MintCalls = {}
    BY <1>3 DEF CallsOf, MintCalls, ExtensionKinds, TokenAccountKinds
  <2>3. QED  BY <2>1, <2>2 DEF CreationArgs
<1>4. QED  BY <1>1, <1>2, <1>3 DEF CreatingKinds

\* Each call of a handler that creates accounts does its part.
LEMMA CreatingCall ==
    ASSUME call \in Calls, call.op \in CreatingKinds, Begun,
           TypeOK, saved \in SavedState,
           NEW names, names = CallsOf(call.op), NEW done \in SUBSET names,
           Creating(done), NEW name \in names, Cpi(call, name),
           call' = call, saved' = saved
    PROVE  /\ TypeOK' /\ Creating(done \cup {name})'
           /\ UNCHANGED <<metaLists, tx>>
<1>1. Ready(names, done)  BY CreationArgsFit DEF Ready
<1>2. name \in MintCalls \cup AccountCalls
  BY DEF CallsOf, MintCalls, AccountCalls, CreatingKinds, ExtensionKinds,
         MintAndAccountKinds, TokenAccountKinds
<1>3. CASE name = "create_mint"
  <2>1. CreateRaw(call.m, call.p, call.mintLen)  BY <1>3 DEF Cpi
  <2>2. QED  BY <1>1, <1>3, <2>1, CreateMintCall
<1>4. CASE name = "initialize_extension"
  <2>1. InitializeExtension(call.m, call.op)  BY <1>4 DEF Cpi
  <2>2. QED  BY <1>1, <1>4, <2>1, InitializeExtensionCall
<1>5. CASE name = "initialize_mint2"
  <2>1. InitializeMint2(call.m, call.w)  BY <1>5 DEF Cpi
  <2>2. QED  BY <1>1, <1>5, <2>1, InitializeMint2Call
<1>6. CASE name = "create_account"
  <2>1. CreateRaw(call.a, call.p, call.accountLen)  BY <1>6 DEF Cpi
  <2>2. QED  BY <1>1, <1>6, <2>1, CreateAccountCall
<1>7. CASE name = "initialize_immutable_owner"
  <2>1. InitializeExtension(call.a, "immutable_owner")  BY <1>7 DEF Cpi
  <2>2. QED  BY <1>1, <1>7, <2>1, InitializeImmutableOwnerCall
<1>8. CASE name = "initialize_account3"
  <2>1. InitializeAccount3(call.a, call.m, call.w)  BY <1>8 DEF Cpi
  <2>2. QED  BY <1>1, <1>8, <2>1, InitializeAccount3Call
<1>9. CASE name = "enable_required_transfer_memos"
  <2>1. EnableRequiredMemos(call.a, call.w)  BY <1>9 DEF Cpi
  <2>2. QED  BY <1>1, <1>9, <2>1, EnableNewMemoCall
<1>10. QED
  BY <1>2, <1>3, <1>4, <1>5, <1>6, <1>7, <1>8, <1>9 DEF MintCalls, AccountCalls

-----------------------------------------------------------------------------
(* realloc and the transfers, call by call.                                *)

\* The account of realloc.
LEMMA ReallocArgs ==
    ASSUME call \in Calls, call.op = "realloc", Begun, saved \in SavedState
    PROVE  /\ call.a \in Accounts /\ call.p \in Wallets /\ call.w \in Wallets
           /\ saved.account \in [Accounts -> AccountState \cup {Absent}]
           /\ saved.account[call.a] \in AccountState
           /\ saved.account[call.a].room \in Nat
           /\ saved.lamports \in [Addresses -> Nat]
<1>1. call.a \in Accounts /\ call.p \in Wallets /\ call.w \in Wallets
  BY DEF Calls, ExtensionKinds, MintAndAccountKinds, TokenAccountKinds
<1>2. saved.account[call.a] # Absent  BY DEF Begun
<1>3. saved.account[call.a] \in AccountState  BY <1>1, <1>2, SavedTypes
<1>4. saved.account[call.a].room \in Rooms  BY <1>3 DEF AccountState
<1>5. QED  BY <1>1, <1>3, <1>4, SavedTypes, BoundsAreNatural DEF Rooms

\* reallocate pays for a slot when the account has none.
LEMMA ReallocateCall ==
    ASSUME call \in Calls, call.op = "realloc", Begun, TypeOK,
           saved \in SavedState, Reallocating({}),
           Reallocate(call.a, call.p, call.w), call' = call, saved' = saved
    PROVE  /\ TypeOK' /\ Reallocating({"reallocate"})'
           /\ UNCHANGED <<metaLists, tx>>
<1> DEFINE old == saved.account[call.a]
           room == IF NeedsSlot(call.a) THEN 1 ELSE old.room
<1>1. /\ call.a \in Accounts /\ call.p \in Wallets /\ call.w \in Wallets
      /\ saved.account \in [Accounts -> AccountState \cup {Absent}]
      /\ old \in AccountState /\ old.room \in Nat
      /\ saved.lamports \in [Addresses -> Nat]
  BY ReallocArgs
<1>2. UNCHANGED <<mint, ledger, metaLists, tx, raw>>  BY DEF Reallocate
<1>3. /\ lamports = saved.lamports
      /\ account = [saved.account EXCEPT ![call.a].room = old.room]
      /\ raw = Nothing
      /\ mint = saved.mint /\ supply = saved.supply /\ feePool = saved.feePool
      /\ amount = saved.amount /\ withheld = saved.withheld
  BY DEF Reallocating
<1>4. [old EXCEPT !.room = old.room] = old  BY <1>1 DEF AccountState
<1> HIDE DEF old
<1>5. account = saved.account
  <2>1. account = [saved.account EXCEPT ![call.a] = old]
    BY <1>3, <1>4 DEF old
  <2>2. QED  BY <1>1, <2>1 DEF old
<1>6. CASE NeedsSlot(call.a)
  <2>1. ~(account[call.a].memo \/ account[call.a].room > 0)
    BY <1>5, <1>6 DEF NeedsSlot
  <2>2. /\ lamports[call.p] > 0
        /\ lamports' = [lamports EXCEPT ![call.p] = @ - 1, ![call.a] = @ + 1]
        /\ account' = [account EXCEPT ![call.a].room = 1]
    BY <2>1 DEF Reallocate, HasSlot
  <2>3. account' \in [Accounts -> AccountState \cup {Absent}]
    <3>1. 1 \in Rooms  BY LengthsFitRooms
    <3>2. [old EXCEPT !.room = 1] \in AccountState
      BY <1>1, <3>1 DEF AccountState
    <3>3. QED  BY <1>1, <1>5, <2>2, <3>2 DEF old
  <2>4. lamports' \in [Addresses -> Nat]
    BY <1>1, <1>3, <2>2, AddressKinds
  <2>5. TypeOK'  BY <1>2, <2>3, <2>4 DEF TypeOK, ledger
  <2>6. SlotPaid' /\ NeedsSlot(call.a)'
    BY <1>3, <1>6, <2>2 DEF SlotPaid, NeedsSlot
  <2>7. QED
    BY <1>2, <1>3, <1>5, <2>2, <2>5, <2>6 DEF Reallocating, ledger
<1>7. CASE ~NeedsSlot(call.a)
  <2>1. account[call.a].memo \/ account[call.a].room > 0
    BY <1>1, <1>5, <1>7 DEF NeedsSlot, old
  <2>2. UNCHANGED <<account, lamports>>  BY <2>1 DEF Reallocate, HasSlot
  <2>3. TypeOK'  BY <1>2, <2>2 DEF TypeOK, ledger
  <2>4. SlotPaid' /\ ~NeedsSlot(call.a)'
    BY <1>3, <1>7, <2>2 DEF SlotPaid, NeedsSlot
  <2>5. account' = [saved.account EXCEPT ![call.a].room = old.room]
    BY <1>3, <2>2
  <2>6. QED
    BY <1>2, <1>3, <2>2, <2>3, <2>4, <2>5 DEF Reallocating, ledger, old
<1>8. QED  BY <1>6, <1>7

\* enable_required_transfer_memos takes the slot.
LEMMA EnableMemoCall ==
    ASSUME call \in Calls, call.op = "realloc", Begun, TypeOK,
           saved \in SavedState, Reallocating({"reallocate"}),
           EnableRequiredMemos(call.a, call.w), call' = call, saved' = saved
    PROVE  /\ TypeOK'
           /\ Reallocating({"reallocate", "enable_required_transfer_memos"})'
           /\ UNCHANGED <<metaLists, tx>>
<1> DEFINE old == saved.account[call.a]
           room == IF NeedsSlot(call.a) THEN 1 ELSE old.room
<1>1. /\ call.a \in Accounts /\ call.p \in Wallets /\ call.w \in Wallets
      /\ saved.account \in [Accounts -> AccountState \cup {Absent}]
      /\ old \in AccountState /\ old.room \in Nat
      /\ saved.lamports \in [Addresses -> Nat]
  BY ReallocArgs
<1>2. UNCHANGED <<mint, ledger, lamports, metaLists, tx, raw>>
  BY DEF EnableRequiredMemos
<1>3. /\ SlotPaid
      /\ account = [saved.account EXCEPT ![call.a].room = room]
      /\ raw = Nothing
      /\ mint = saved.mint /\ supply = saved.supply /\ feePool = saved.feePool
      /\ amount = saved.amount /\ withheld = saved.withheld
  BY DEF Reallocating
<1>4. SlotPaid' /\ (NeedsSlot(call.a)' <=> NeedsSlot(call.a))
  BY <1>2, <1>3 DEF SlotPaid, NeedsSlot
<1> HIDE DEF room
<1>5. account[call.a] = [old EXCEPT !.room = room]  BY <1>1, <1>3
<1> HIDE DEF old
<1>6. /\ account[call.a].owner = old.owner /\ account[call.a].memo = old.memo
      /\ account[call.a].room = room
  BY <1>1, <1>5 DEF AccountState
<1>7. old.owner = call.w  BY <1>6 DEF EnableRequiredMemos, OwnedBy
<1>8. CASE old.memo
  <2>1. account' = account  BY <1>6, <1>8 DEF EnableRequiredMemos
  <2>2. room = old.room  BY <1>8 DEF room, NeedsSlot, old
  <2>3. [old EXCEPT !.room = old.room] = old  BY <1>1 DEF AccountState
  <2>4. account = saved.account
    <3>1. account = [saved.account EXCEPT ![call.a] = old]
      BY <1>3, <2>2, <2>3 DEF old
    <3>2. QED  BY <1>1, <3>1 DEF old
  <2>5. TypeOK'  BY <1>2, <2>1 DEF TypeOK, ledger
  <2>6. QED
    BY <1>2, <1>3, <1>4, <1>7, <1>8, <2>1, <2>4, <2>5
    DEF Reallocating, ledger, old
<1>9. CASE ~old.memo
  <2>1. /\ room > 0
        /\ account' = [account EXCEPT ![call.a].memo = TRUE,
                                      ![call.a].room = @ - 1]
    BY <1>6, <1>9 DEF EnableRequiredMemos
  <2>2. /\ account[call.a] \in AccountState
        /\ account \in [Accounts -> AccountState \cup {Absent}]
    BY <1>1 DEF TypeOK, EnableRequiredMemos, OwnedBy, Open
  <2>3. room \in Rooms  BY <1>6, <2>2 DEF AccountState
  <2>4. room - 1 \in Rooms  BY <2>1, <2>3, BoundsAreNatural DEF Rooms
  <2>5. account'[call.a] = [old EXCEPT !.memo = TRUE, !.room = room - 1]
    <3>1. account'[call.a] = [account[call.a] EXCEPT !.memo = TRUE, !.room = @ - 1]
      BY <1>1, <2>1, <2>2
    <3>2. QED  BY <1>1, <1>5, <1>6, <3>1 DEF AccountState
  <2>6. account' = [saved.account EXCEPT ![call.a].memo = TRUE,
                                         ![call.a].room = room - 1]
    <3> DEFINE after == [old EXCEPT !.memo = TRUE, !.room = room - 1]
               before == [old EXCEPT !.room = room]
    <3>1. account = [saved.account EXCEPT ![call.a] = before]
      BY <1>3 DEF old
    <3>2. account'[call.a] = after  BY <2>5
    <3>3. account' = [saved.account EXCEPT ![call.a] = after]
      <4> HIDE DEF after, before
      <4>1. account' \in [Accounts -> {account'[x] : x \in Accounts}]
              /\ \A x \in Accounts : x # call.a => account'[x] = account[x]
        BY <1>1, <2>1, <2>2
      <4>2. QED  BY <1>1, <3>1, <3>2, <4>1
    <3>4. QED  BY <3>3 DEF old
  <2>7. TypeOK'
    <3>1. [account[call.a] EXCEPT !.memo = TRUE, !.room = @ - 1] \in AccountState
      BY <1>6, <2>2, <2>4 DEF AccountState
    <3>2. account' \in [Accounts -> AccountState \cup {Absent}]
      BY <1>1, <2>1, <2>2, <3>1
    <3>3. QED  BY <1>2, <3>2 DEF TypeOK, ledger
  <2>8. QED
    BY <1>2, <1>3, <1>4, <1>7, <1>9, <2>6, <2>7
    DEF Reallocating, ledger, old, room
<1>10. QED  BY <1>8, <1>9
\* The accounts of a transfer.
LEMMA TransferArgs ==
    ASSUME call \in Calls, call.op \in TransferKinds, saved \in SavedState
    PROVE  /\ call.m \in Mints /\ call.w \in Wallets /\ call.n \in U64
           /\ call.from \in Accounts /\ call.to \in Accounts
           /\ call.op = "transfer_token" => call.badWallet \in Wallets
           /\ saved.lamports \in [Addresses -> Nat]
<1>1. saved.lamports \in [Addresses -> Nat]  BY SavedTypes
<1>2. QED
  BY <1>1 DEF Calls, TransferKinds, ExtensionKinds, MintAndAccountKinds,
              TokenAccountKinds

\* build_memo leaves a memo before the transfer.
LEMMA BuildMemoCall ==
    ASSUME NEW done, "transfer_checked" \notin done, TypeOK,
           Transferring(done), BuildMemo, call' = call, saved' = saved
    PROVE  /\ TypeOK' /\ Transferring(done \cup {"build_memo"})'
           /\ metaLists' = metaLists /\ tx' = [tx EXCEPT !.memo = TRUE]
<1>1. UNCHANGED <<mint, account, ledger, lamports, metaLists, raw>>
        /\ tx' = [tx EXCEPT !.memo = TRUE]
  BY DEF BuildMemo
<1>2. TypeOK'  BY <1>1 DEF TypeOK, ledger
<1>3. Transferring(done \cup {"build_memo"})'
  BY <1>1 DEF Transferring, ledger
<1>4. QED  BY <1>1, <1>2, <1>3

\* The opaque program takes the toll.
LEMMA PayTollCall ==
    ASSUME call \in Calls, call.op = "transfer_token", TypeOK,
           saved \in SavedState, Transferring({}),
           PayToll(call), call' = call, saved' = saved
    PROVE  /\ TypeOK' /\ Transferring({"transfer_sol"})'
           /\ UNCHANGED <<metaLists, tx>>
<1>1. call.w \in Wallets /\ call.badWallet \in Wallets
  BY TransferArgs DEF TransferKinds
<1>2. UNCHANGED <<mint, account, ledger, metaLists, tx, raw>>
  BY DEF PayToll
<1>3. /\ lamports = saved.lamports /\ lamports[call.w] >= SolToll
      /\ lamports' = [[lamports EXCEPT ![call.w] = @ - SolToll]
                         EXCEPT ![call.badWallet] = @ + SolToll]
  BY DEF PayToll, TransferSol, Transferring
<1>4. lamports' \in [Addresses -> Nat]
  BY <1>1, TransferSolType DEF TypeOK, PayToll
<1>5. TypeOK'  BY <1>2, <1>4 DEF TypeOK, ledger
<1>6. Transferring({"transfer_sol"})'
  BY <1>2, <1>3 DEF Transferring, ledger
<1>7. QED  BY <1>2, <1>5, <1>6

\* What a transfer asks for, in terms of the accounts saved.
LEMMA ChecksOnSaved ==
    ASSUME call # Idle, mint = saved.mint, account = saved.account,
           amount = saved.amount
    PROVE  /\ \A m, from, to, w, n, memo :
                 Committed!TransferAllowed(m, from, to, w, n, memo)
                     <=> TransferAllowed(m, from, to, w, n, memo)
           /\ \A to, fee : Committed!AcceptsFee(to, fee) <=> AcceptsFee(to, fee)
           /\ \A m, from, to, hooked :
                 Committed!AcceptsHook(m, from, to, hooked)
                     <=> AcceptsHook(m, from, to, hooked)
<1>1. \A a : Committed!Open(a) <=> Open(a)
  BY DEF Committed!Open, Open, Visible
<1>2. \A m, a, w : Committed!MayDebit(m, a, w) <=> MayDebit(m, a, w)
  BY DEF Committed!MayDebit, MayDebit, Visible
<1>3. \A m, from, to, w, n, memo :
          Committed!TransferAllowed(m, from, to, w, n, memo)
              <=> TransferAllowed(m, from, to, w, n, memo)
  BY <1>1, <1>2 DEF Committed!TransferAllowed, TransferAllowed, Visible
<1>4. \A to, fee : Committed!AcceptsFee(to, fee) <=> AcceptsFee(to, fee)
  BY DEF Committed!AcceptsFee, AcceptsFee, Visible
<1>5. \A m, from, to, hooked :
          Committed!AcceptsHook(m, from, to, hooked)
              <=> AcceptsHook(m, from, to, hooked)
  BY DEF Committed!AcceptsHook, AcceptsHook, Visible
<1>6. QED  BY <1>3, <1>4, <1>5

\* The transfer, of what the accounts held before.
LEMMA TransferTokensCall ==
    ASSUME call \in Calls, call.op \in TransferKinds, Begun, TypeOK,
           saved \in SavedState, NEW done, "transfer_checked" \notin done,
           Transferring(done), TransferTokens(call), MemoBefore(call) = tx.memo,
           call' = call, saved' = saved
    PROVE  /\ TypeOK' /\ Transferring(done \cup {"transfer_checked"})'
           /\ UNCHANGED <<metaLists, tx>>
<1> DEFINE m == call.m
           from == call.from
           to == call.to
           n == call.n
           fee == Fee(saved.mint[m], n)
<1>0. call # Idle  BY IdleIsNoCall
<1>1. m \in Mints /\ from \in Accounts /\ to \in Accounts /\ n \in U64
  BY TransferArgs
<1>2. /\ TransferChecked(m, from, to, call.w, n, tx.memo, FALSE)
      /\ UNCHANGED <<mint, account, lamports, metaLists, tx, raw>>
  BY DEF TransferTokens
<1>3. /\ mint = saved.mint /\ account = saved.account
      /\ supply = saved.supply /\ feePool = saved.feePool
      /\ amount = saved.amount /\ withheld = saved.withheld
      /\ raw = Nothing
      /\ IF "transfer_sol" \in done
         THEN /\ saved.lamports[call.w] >= SolToll
              /\ lamports = [[saved.lamports EXCEPT ![call.w] = @ - SolToll]
                                EXCEPT ![call.badWallet] = @ + SolToll]
         ELSE lamports = saved.lamports
  BY DEF Transferring
<1>4. mint[m] \in MintState
  BY <1>1, <1>3 DEF Begun, TypeOK
<1>5. TypeOK'
  <2>1. LedgerTypeOK'
    BY <1>1, <1>2, <1>4, TransferType DEF TypeOK, LedgerTypeOK
  <2>2. QED  BY <1>2, <2>1 DEF TypeOK, LedgerTypeOK
<1>6. supply' = supply /\ feePool' = feePool  BY <1>2 DEF TransferChecked
<1>7. Transferred'
  <2>1. Committed!TransferAllowed(m, from, to, call.w, n, tx.memo)
    BY <1>0, <1>2, <1>3, ChecksOnSaved DEF TransferChecked
  <2>2. Committed!TransferAllowed(m, from, to, call.w, n, tx.memo)'
    BY <1>0, <1>2, <2>1
    DEF Committed!TransferAllowed, Committed!Open, Committed!MayDebit, Visible
  <2>3. CASE from = to
    <3>1. amount' = saved.amount /\ withheld' = saved.withheld
      BY <1>2, <1>3, <2>3 DEF TransferChecked
    <3>2. QED  BY <2>2, <2>3, <3>1 DEF Transferred
  <2>4. CASE from # to
    <3>1. /\ fee <= n
          /\ amount[to] + (n - fee) <= MaxU64
          /\ withheld[to] + fee <= MaxU64
          /\ AcceptsFee(to, fee)
          /\ AcceptsHook(m, from, to, FALSE)
          /\ amount' = [amount EXCEPT ![from] = @ - n, ![to] = @ + (n - fee)]
          /\ withheld' = [withheld EXCEPT ![to] = @ + fee]
      BY <1>2, <1>3, <2>4 DEF TransferChecked
    <3>2. Committed!AcceptsFee(to, fee)' /\ Committed!AcceptsHook(m, from, to, FALSE)'
      <4>1. /\ Committed!AcceptsFee(to, fee)
            /\ Committed!AcceptsHook(m, from, to, FALSE)
        BY <1>0, <1>3, <3>1, ChecksOnSaved
      <4>2. fee' = fee  OBVIOUS
      <4> HIDE DEF fee
      <4>3. QED
        BY <1>0, <4>1, <4>2 DEF Committed!AcceptsFee, Committed!AcceptsHook, Visible
    <3>3. QED  BY <1>3, <2>2, <2>4, <3>1, <3>2 DEF Transferred
  <2>5. QED  BY <2>3, <2>4
<1>8. Transferring(done \cup {"transfer_checked"})'
  <2> DEFINE more == done \cup {"transfer_checked"}
  <2>1. "transfer_checked" \in more
          /\ ("transfer_sol" \in more <=> "transfer_sol" \in done)
    OBVIOUS
  <2> HIDE DEF more
  <2>2. Transferring(more)'
    BY <1>2, <1>3, <1>6, <1>7, <2>1 DEF Transferring
  <2>3. QED  BY <2>2 DEF more
<1>9. QED  BY <1>2, <1>5, <1>8
-----------------------------------------------------------------------------
(* The invariant.                                                          *)

\* The kinds of calls are apart, and only a memo transfer writes a memo.
LEMMA KindsOfCalls ==
    ASSUME call \in Calls
    PROVE  /\ \/ call.op \in CreatingKinds
              \/ call.op = "realloc"
              \/ call.op = "memo_transfer"
              \/ call.op = "transfer_token"
           /\ call.op \in CreatingKinds => call.op # "realloc"
           /\ call.op \in CreatingKinds => call.op \notin TransferKinds
           /\ "realloc" \notin TransferKinds
           /\ call.op \in CreatingKinds => "build_memo" \notin CallsOf(call.op)
<1>1. /\ \/ call.op \in CreatingKinds
         \/ call.op = "realloc"
         \/ call.op = "memo_transfer"
         \/ call.op = "transfer_token"
      /\ call.op \in CreatingKinds => call.op # "realloc"
      /\ call.op \in CreatingKinds => call.op \notin TransferKinds
      /\ "realloc" \notin TransferKinds
  BY DEF Calls, CreatingKinds, TransferKinds, ExtensionKinds,
         MintAndAccountKinds, TokenAccountKinds
<1>2. call.op \in CreatingKinds => "build_memo" \notin CallsOf(call.op)
  BY DEF CallsOf, CreatingKinds, MintCalls, ExtensionKinds,
         MintAndAccountKinds, TokenAccountKinds
<1>3. QED  BY <1>1, <1>2

\* The two lists of two calls that realloc and the transfers make.
LEMMA TwoCallsInOrder ==
    ASSUME NEW cpis, Len(cpis) = 2, NEW k \in 0 .. Len(cpis),
           k + 1 \in 0 .. Len(cpis)
    PROVE  \/ k = 0 /\ Done(cpis, k) = {} /\ Done(cpis, k + 1) = {cpis[1]}
           \/ /\ k = 1 /\ Done(cpis, k) = {cpis[1]}
              /\ Done(cpis, k + 1) = {cpis[1], cpis[2]}
<1>1. k = 0 \/ k = 1  OBVIOUS
<1>2. Done(cpis, 0) = {} /\ Done(cpis, 1) = {cpis[1]}  BY DEF Done
<1>3. Done(cpis, 2) = {cpis[1], cpis[2]}
  <2>1. \A i \in 1 .. 2 : i = 1 \/ i = 2  OBVIOUS
  <2>2. QED  BY <2>1 DEF Done
<1>4. QED  BY <1>1, <1>2, <1>3

\* Before the transfer a handler made one call: that was the memo, or there is
\* none.
LEMMA MemoIsTheLastCall ==
    ASSUME call.op \in TransferKinds,
           NEW k \in 0 .. Len(CpisOf(call.op)), k + 1 \in 0 .. Len(CpisOf(call.op)),
           todo = ToCall(CpisOf(call.op), k),
           CpisOf(call.op)[k + 1] = "transfer_checked",
           tx.memo = ("build_memo" \in Done(CpisOf(call.op), k))
    PROVE  MemoBefore(call) = tx.memo
<1>1. PICK cpis : cpis = CpisOf(call.op)  OBVIOUS
<1>2. /\ Len(cpis) = 2 /\ cpis[1] \in {"build_memo", "transfer_sol"}
      /\ cpis[2] = "transfer_checked"
  <2>1. CASE call.op = "memo_transfer"
    BY <1>1, <2>1 DEF CpisOf, MemoTransferCpis, ExtensionKinds
  <2>2. CASE call.op = "transfer_token"
    BY <1>1, <2>2 DEF CpisOf, TransferTokenCpis, ExtensionKinds
  <2>3. QED  BY <2>1, <2>2 DEF TransferKinds
<1>3. k = 1 /\ Done(cpis, k) = {cpis[1]}
  <2>1. \/ k = 0
        \/ k = 1 /\ Done(cpis, k) = {cpis[1]}
    BY <1>1, <1>2, TwoCallsInOrder
  <2>2. k # 0  BY <1>1, <1>2
  <2>3. QED  BY <2>1, <2>2
<1>4. Len(cpis) - Len(todo) = 1
  <2>1. todo = [i \in 1 .. 1 |-> cpis[i + 1]]  BY <1>1, <1>2, <1>3 DEF ToCall
  <2>2. Len(todo) = 1  BY <2>1
  <2>3. QED  BY <1>2, <2>2
<1>5. MemoBefore(call) = (cpis[1] = "build_memo")  BY <1>1, <1>4 DEF MemoBefore
<1>6. QED  BY <1>1, <1>3, <1>5

\* A call that succeeds.
LEMMA CallNextKeeps ==
    ASSUME CpiInv, CallNext
    PROVE  CpiInv'
<1>1. /\ call \in Calls /\ saved \in SavedState /\ Begun /\ TypeOK
      /\ call # Idle /\ todo # <<>> /\ Cpi(call, Head(todo))
      /\ todo' = Tail(todo) /\ call' = call /\ saved' = saved
  BY DEF CpiInv, CallNext
<1>2. PICK op : op = call.op  OBVIOUS
<1> DEFINE cpis == CpisOf(op)
           names == CallsOf(op)
<1>3. IsCallList(cpis, names)  BY <1>1, <1>2, CpisAreLists
<1>4. PICK k \in 0 .. Len(cpis) : Underway(k)  BY <1>1, <1>2 DEF CpiInv
<1> DEFINE done == Done(cpis, k)
           more == Done(cpis, k + 1)
           name == cpis[k + 1]
<1>5. /\ todo = ToCall(cpis, k)
      /\ tx = [signers |-> Signers, memo |-> "build_memo" \in done]
      /\ metaLists = saved.metaLists
      /\ op \in CreatingKinds => Creating(done)
      /\ op = "realloc" => Reallocating(done)
      /\ op \in TransferKinds => Transferring(done)
  BY <1>2, <1>4 DEF Underway
<1>6. /\ k + 1 \in 0 .. Len(cpis)
      /\ Head(todo) = name /\ name \in names
      /\ Tail(todo) = ToCall(cpis, k + 1)
      /\ more = done \cup {name}
  <2> HIDE DEF cpis, names
  <2>1. QED  BY <1>1, <1>3, <1>4, <1>5, NextCall
<1>7. done \subseteq names
  <2> HIDE DEF cpis, names
  <2>1. QED  BY <1>3, <1>4, DoneIsListed
<1>8. Cpi(call, name)  BY <1>1, <1>6
<1>memo. op \in TransferKinds /\ name = "transfer_checked"
             => MemoBefore(call) = tx.memo
  BY <1>2, <1>5, <1>6, MemoIsTheLastCall
<1> HIDE DEF name, more, done
<1>9. SUFFICES
        /\ TypeOK' /\ metaLists' = metaLists
        /\ tx' = [signers |-> Signers, memo |-> "build_memo" \in more]
        /\ op \in CreatingKinds => Creating(more)'
        /\ op = "realloc" => Reallocating(more)'
        /\ op \in TransferKinds => Transferring(more)'
  <2>1. todo' = ToCall(cpis, k + 1)  BY <1>1, <1>6
  <2>2. Signers' = Signers /\ Begun' /\ call'.op = op
    BY <1>1, <1>2 DEF Signers, Begun
  <2>3. Underway(k + 1)'
    BY <1>1, <1>5, <1>9, <2>1, <2>2 DEF Underway, more
  <2>4. QED  BY <1>1, <1>6, <1>9, <2>2, <2>3 DEF CpiInv
<1>10. CASE op \in CreatingKinds
  <2>1. TypeOK' /\ Creating(done \cup {name})' /\ UNCHANGED <<metaLists, tx>>
    <3> HIDE DEF names
    <3>1. names = CallsOf(call.op)  BY <1>2 DEF names
    <3>2. QED
      BY <1>1, <1>2, <1>5, <1>6, <1>7, <1>8, <1>10, <3>1, CreatingCall
  <2>2. "build_memo" \notin done /\ "build_memo" \notin more
    BY <1>1, <1>2, <1>6, <1>7, <1>10, KindsOfCalls
  <2>3. op # "realloc" /\ op \notin TransferKinds
    BY <1>1, <1>2, <1>10, KindsOfCalls
  <2>4. QED  BY <1>5, <1>6, <2>1, <2>2, <2>3
<1>11. CASE op = "realloc"
  <2>1. cpis = <<"reallocate", "enable_required_transfer_memos">>
    BY <1>11 DEF CpisOf, ReallocCpis, ExtensionKinds
  <2>2. \/ name = "reallocate" /\ done = {} /\ more = {"reallocate"}
        \/ /\ name = "enable_required_transfer_memos" /\ done = {"reallocate"}
           /\ more = {"reallocate", "enable_required_transfer_memos"}
    <3>1. Len(cpis) = 2 /\ cpis[1] = "reallocate"
            /\ cpis[2] = "enable_required_transfer_memos"
      BY <2>1
    <3> HIDE DEF cpis
    <3>2. \/ k = 0 /\ Done(cpis, k) = {} /\ Done(cpis, k + 1) = {cpis[1]}
          \/ /\ k = 1 /\ Done(cpis, k) = {cpis[1]}
             /\ Done(cpis, k + 1) = {cpis[1], cpis[2]}
      BY <1>4, <1>6, <3>1, TwoCallsInOrder
    <3>3. QED  BY <3>1, <3>2 DEF name, done, more
  <2>3. op \notin CreatingKinds /\ op \notin TransferKinds
    BY <1>1, <1>2, <1>11, KindsOfCalls
  <2>4. CASE name = "reallocate" /\ done = {} /\ more = {"reallocate"}
    <3>1. Reallocate(call.a, call.p, call.w)  BY <1>8, <2>4 DEF Cpi
    <3>2. TypeOK' /\ Reallocating(more)' /\ UNCHANGED <<metaLists, tx>>
      BY <1>1, <1>2, <1>5, <1>11, <2>4, <3>1, ReallocateCall
    <3>3. "build_memo" \notin done /\ "build_memo" \notin more  BY <2>4
    <3>4. QED  BY <1>5, <2>3, <3>2, <3>3
  <2>5. CASE /\ name = "enable_required_transfer_memos" /\ done = {"reallocate"}
             /\ more = {"reallocate", "enable_required_transfer_memos"}
    <3>1. EnableRequiredMemos(call.a, call.w)  BY <1>8, <2>5 DEF Cpi
    <3>2. TypeOK' /\ Reallocating(more)' /\ UNCHANGED <<metaLists, tx>>
      BY <1>1, <1>2, <1>5, <1>11, <2>5, <3>1, EnableMemoCall
    <3>3. "build_memo" \notin done /\ "build_memo" \notin more  BY <2>5
    <3>4. QED  BY <1>5, <2>3, <3>2, <3>3
  <2>6. QED  BY <2>2, <2>4, <2>5
<1>12. CASE op = "memo_transfer"
  <2>1. cpis = <<"build_memo", "transfer_checked">>
    BY <1>12 DEF CpisOf, MemoTransferCpis, ExtensionKinds
  <2>2. \/ name = "build_memo" /\ done = {} /\ more = {"build_memo"}
        \/ /\ name = "transfer_checked" /\ done = {"build_memo"}
           /\ more = {"build_memo", "transfer_checked"}
    <3>1. Len(cpis) = 2 /\ cpis[1] = "build_memo"
            /\ cpis[2] = "transfer_checked"
      BY <2>1
    <3> HIDE DEF cpis
    <3>2. \/ k = 0 /\ Done(cpis, k) = {} /\ Done(cpis, k + 1) = {cpis[1]}
          \/ /\ k = 1 /\ Done(cpis, k) = {cpis[1]}
             /\ Done(cpis, k + 1) = {cpis[1], cpis[2]}
      BY <1>4, <1>6, <3>1, TwoCallsInOrder
    <3>3. QED  BY <3>1, <3>2 DEF name, done, more
  <2>3. op \notin CreatingKinds /\ op # "realloc" /\ op \in TransferKinds
    BY <1>12 DEF TransferKinds, CreatingKinds, ExtensionKinds,
                 MintAndAccountKinds, TokenAccountKinds
  <2>4. CASE name = "build_memo" /\ done = {} /\ more = {"build_memo"}
    <3>1. BuildMemo  BY <1>8, <2>4 DEF Cpi
    <3>2. /\ TypeOK' /\ Transferring(done \cup {"build_memo"})'
          /\ metaLists' = metaLists /\ tx' = [tx EXCEPT !.memo = TRUE]
      BY <1>1, <1>5, <2>3, <2>4, <3>1, BuildMemoCall
    <3>3. Transferring(more)'  BY <1>6, <2>4, <3>2
    <3>4. tx' = [signers |-> Signers, memo |-> TRUE]  BY <1>5, <3>2
    <3>5. ("build_memo" \in more) = TRUE  BY <2>4
    <3>6. QED  BY <2>3, <3>2, <3>3, <3>4, <3>5
  <2>5. CASE /\ name = "transfer_checked" /\ done = {"build_memo"}
             /\ more = {"build_memo", "transfer_checked"}
    <3>1. TransferTokens(call)  BY <1>8, <2>5 DEF Cpi
    <3>2. /\ TypeOK' /\ Transferring(done \cup {"transfer_checked"})'
          /\ UNCHANGED <<metaLists, tx>>
      BY <1>1, <1>2, <1>5, <1>memo, <2>3, <2>5, <3>1, TransferTokensCall
    <3>3. Transferring(more)'  BY <1>6, <2>5, <3>2
    <3>4. ("build_memo" \in more) = ("build_memo" \in done)  BY <2>5
    <3>5. QED  BY <1>5, <2>3, <3>2, <3>3, <3>4
  <2>6. QED  BY <2>2, <2>4, <2>5
<1>13. CASE op = "transfer_token"
  <2>1. cpis = <<"transfer_sol", "transfer_checked">>
    BY <1>13 DEF CpisOf, TransferTokenCpis, ExtensionKinds
  <2>2. \/ name = "transfer_sol" /\ done = {} /\ more = {"transfer_sol"}
        \/ /\ name = "transfer_checked" /\ done = {"transfer_sol"}
           /\ more = {"transfer_sol", "transfer_checked"}
    <3>1. Len(cpis) = 2 /\ cpis[1] = "transfer_sol"
            /\ cpis[2] = "transfer_checked"
      BY <2>1
    <3> HIDE DEF cpis
    <3>2. \/ k = 0 /\ Done(cpis, k) = {} /\ Done(cpis, k + 1) = {cpis[1]}
          \/ /\ k = 1 /\ Done(cpis, k) = {cpis[1]}
             /\ Done(cpis, k + 1) = {cpis[1], cpis[2]}
      BY <1>4, <1>6, <3>1, TwoCallsInOrder
    <3>3. QED  BY <3>1, <3>2 DEF name, done, more
  <2>3. op \notin CreatingKinds /\ op # "realloc" /\ op \in TransferKinds
    BY <1>13 DEF TransferKinds, CreatingKinds, ExtensionKinds,
                 MintAndAccountKinds, TokenAccountKinds
  <2>4. CASE name = "transfer_sol" /\ done = {} /\ more = {"transfer_sol"}
    <3>1. PayToll(call)  BY <1>8, <2>4 DEF Cpi
    <3>2. TypeOK' /\ Transferring(more)' /\ UNCHANGED <<metaLists, tx>>
      BY <1>1, <1>2, <1>5, <1>13, <2>3, <2>4, <3>1, PayTollCall
    <3>3. ("build_memo" \in more) = ("build_memo" \in done)  BY <2>4
    <3>4. QED  BY <1>5, <2>3, <3>2, <3>3
  <2>5. CASE /\ name = "transfer_checked" /\ done = {"transfer_sol"}
             /\ more = {"transfer_sol", "transfer_checked"}
    <3>1. TransferTokens(call)  BY <1>8, <2>5 DEF Cpi
    <3>2. /\ TypeOK' /\ Transferring(done \cup {"transfer_checked"})'
          /\ UNCHANGED <<metaLists, tx>>
      BY <1>1, <1>2, <1>5, <1>memo, <2>3, <2>5, <3>1, TransferTokensCall
    <3>3. Transferring(more)'  BY <1>6, <2>5, <3>2
    <3>4. ("build_memo" \in more) = ("build_memo" \in done)  BY <2>5
    <3>5. QED  BY <1>5, <2>3, <3>2, <3>3, <3>4
  <2>6. QED  BY <2>2, <2>4, <2>5
<1>14. QED
  BY <1>1, <1>2, <1>10, <1>11, <1>12, <1>13, KindsOfCalls
\* An instruction that starts: nothing was called yet.
LEMMA BeginKeeps ==
    ASSUME CpiInv, NEW c \in Calls, NEW signers \in SUBSET Wallets,
           Begin(c, CpisOf(c.op), signers), Begun', Signers' = signers
    PROVE  CpiInv'
<1>1. /\ TypeOK /\ call = Idle /\ raw = Nothing
      /\ call' = c /\ todo' = CpisOf(c.op)
      /\ saved' = [mint |-> mint, account |-> account, supply |-> supply,
                   feePool |-> feePool, amount |-> amount,
                   withheld |-> withheld, lamports |-> lamports,
                   metaLists |-> metaLists, tx |-> tx]
      /\ tx' = [signers |-> signers, memo |-> FALSE]
      /\ UNCHANGED <<mint, account, ledger, lamports, metaLists, raw>>
  BY DEF CpiInv, Begin, Signed
<1>2. c # Idle  BY IdleIsNoCall
<1>3. TypeOK' /\ saved' \in SavedState
  BY <1>1 DEF TypeOK, SavedState, ledger
<1>4. /\ saved'.mint = mint' /\ saved'.account = account'
      /\ saved'.supply = supply' /\ saved'.feePool = feePool'
      /\ saved'.amount = amount' /\ saved'.withheld = withheld'
      /\ saved'.lamports = lamports' /\ saved'.metaLists = metaLists'
      /\ raw' = Nothing
  BY <1>1 DEF ledger
<1> DEFINE cpis == CpisOf(c.op)
<1>5. IsCallList(cpis, CallsOf(c.op))  BY CpisAreLists
<1> HIDE DEF cpis
<1>6. 0 \in 0 .. Len(cpis) /\ cpis = ToCall(cpis, 0) /\ Done(cpis, 0) = {}
  BY <1>5 DEF IsCallList
<1>7. c.op \in CreatingKinds => Creating({})'
  <2> SUFFICES ASSUME c.op \in CreatingKinds PROVE Creating({})'
    OBVIOUS
  <2>1. c.p \in Wallets
    BY DEF Calls, CreatingKinds, ExtensionKinds, MintAndAccountKinds,
           TokenAccountKinds
  <2>2. InOrder({})  BY DEF InOrder
  <2>3. (raw = RawOf({}))'
    BY <1>4 DEF RawOf, RawMint, RawAccount, Nothing
  <2>4. RentSpent({})'
    <3>1. lamports' \in [Addresses -> Nat] /\ c.p \in Addresses
      BY <1>3, <2>1, AddressKinds DEF TypeOK
    <3>2. lamports' = [x \in Addresses |->
               IF x = c.p THEN lamports'[x] - (0 + 0) ELSE lamports'[x]]
      BY <3>1
    <3>3. QED  BY <1>1, <1>4, <3>1, <3>2 DEF RentSpent
  <2>5. MintMade({})' /\ AccountMade({})'
    BY <1>4 DEF MintMade, AccountMade
  <2>6. QED  BY <1>4, <2>2, <2>3, <2>4, <2>5 DEF Creating
<1>8. c.op = "realloc" => Reallocating({})'
  <2> SUFFICES ASSUME c.op = "realloc" PROVE Reallocating({})'
    OBVIOUS
  <2> DEFINE old == account'[c.a]
  <2>1. c.a \in Accounts /\ old # Absent
    BY <1>1, <1>4
    DEF Begun, Calls, ExtensionKinds, MintAndAccountKinds, TokenAccountKinds
  <2>2. account' \in [Accounts -> AccountState \cup {Absent}]
    BY <1>3 DEF TypeOK
  <2>3. old \in AccountState  BY <2>1, <2>2
  <2> HIDE DEF old
  <2>4. [old EXCEPT !.room = old.room] = old  BY <2>3 DEF AccountState
  <2>5. account' = [account' EXCEPT ![c.a].room = old.room]
    BY <2>1, <2>2, <2>4 DEF old
  <2>6. QED  BY <1>1, <1>4, <2>5 DEF Reallocating, old
<1>9. Transferring({})'  BY <1>4 DEF Transferring
<1>10. Underway(0)'
  <2>1. tx' = [signers |-> Signers', memo |-> "build_memo" \in {}]
    <3>1. ("build_memo" \in {}) = FALSE  OBVIOUS
    <3>2. QED  BY <1>1, <3>1
  <2>2. call'.op = c.op /\ cpis = CpisOf(call'.op)  BY <1>1 DEF cpis
  <2>3. todo' = ToCall(cpis, 0)  BY <1>1, <1>6 DEF cpis
  <2>4. QED
    BY <1>4, <1>6, <1>7, <1>8, <1>9, <2>1, <2>2, <2>3 DEF Underway
<1>11. QED
  BY <1>1, <1>2, <1>3, <1>6, <1>10 DEF CpiInv, cpis

\* Whichever handler it is, its constraints held.
LEMMA BeginCallKeeps ==
    ASSUME CpiInv, BeginCall
    PROVE  CpiInv'
<1> USE DEF ExtensionKinds, MintAndAccountKinds, TokenAccountKinds, TransferKinds
<1>1. ASSUME NEW op \in ExtensionKinds, NEW m \in Mints, NEW p \in Wallets,
             NEW w \in Wallets, NEW len \in Lengths,
             BeginExtensionMint(op, m, p, w, len)
      PROVE  CpiInv'
  <2> DEFINE c == [op |-> op, m |-> m, p |-> p, w |-> w, mintLen |-> len]
  <2>1. c \in Calls  BY <1>1 DEF Calls
  <2>2. CpisOf(op) = ExtensionMintCpis  BY <1>1 DEF CpisOf
  <2>3. Begin(c, CpisOf(c.op), {p, w}) /\ mint[m] = Absent
    BY <1>1, <2>2 DEF BeginExtensionMint, Live
  <2>4. call' = c /\ saved'.mint = mint  BY <2>3 DEF Begin
  <2>5. Begun' /\ Signers' = {p, w}
    BY <1>1, <2>3, <2>4 DEF Begun, Signers
  <2> HIDE DEF c
  <2>6. QED  BY <2>1, <2>3, <2>5, BeginKeeps
<1>2. ASSUME NEW op \in MintAndAccountKinds, NEW m \in Mints,
             NEW a \in KeyAccounts, NEW p \in Wallets, NEW w \in Wallets,
             NEW len \in Lengths, NEW accountLen \in Lengths,
             BeginMintAndAccount(op, CpisOf(op), m, a, p, w, len, accountLen)
      PROVE  CpiInv'
  <2> DEFINE c == [op |-> op, m |-> m, a |-> a, p |-> p, w |-> w,
                   mintLen |-> len, accountLen |-> accountLen]
  <2>1. c \in Calls  BY <1>2 DEF Calls
  <2>3. /\ Begin(c, CpisOf(c.op), {p, w})
        /\ mint[m] = Absent /\ account[a] = Absent
    BY <1>2 DEF BeginMintAndAccount, Live, Open
  <2>4. call' = c /\ saved'.mint = mint /\ saved'.account = account
    BY <2>3 DEF Begin
  <2>5. Begun' /\ Signers' = {p, w}
    BY <1>2, <2>3, <2>4 DEF Begun, Signers
  <2> HIDE DEF c
  <2>6. QED  BY <2>1, <2>3, <2>5, BeginKeeps
<1>3. ASSUME NEW op \in TokenAccountKinds, NEW a \in KeyAccounts,
             NEW m \in Mints, NEW p \in Wallets, NEW w \in Wallets,
             NEW len \in Lengths,
             BeginTokenAccount(op, CpisOf(op), a, m, p, w, len),
             op = "initialize_token_account_with" => mint[m].authority = w
      PROVE  CpiInv'
  <2> DEFINE c == [op |-> op, m |-> m, a |-> a, p |-> p, w |-> w,
                   accountLen |-> len]
  <2>1. c \in Calls  BY <1>3 DEF Calls
  <2>3. /\ Begin(c, CpisOf(c.op), {p, w})
        /\ mint[m] # Absent /\ account[a] = Absent
    BY <1>3 DEF BeginTokenAccount, Live, Open
  <2>4. call' = c /\ saved'.mint = mint /\ saved'.account = account
    BY <2>3 DEF Begin
  <2>5. Begun' /\ Signers' = {p, w}
    BY <1>3, <2>3, <2>4 DEF Begun, Signers
  <2> HIDE DEF c
  <2>6. QED  BY <2>1, <2>3, <2>5, BeginKeeps
<1>4. ASSUME NEW a \in Accounts, NEW p \in Wallets, NEW w \in Wallets,
             BeginRealloc(a, p, w)
      PROVE  CpiInv'
  <2> DEFINE c == [op |-> "realloc", a |-> a, p |-> p, w |-> w]
  <2>1. c \in Calls  BY <1>4 DEF Calls
  <2>2. CpisOf("realloc") = ReallocCpis  BY DEF CpisOf
  <2>3. Begin(c, CpisOf(c.op), {p, w}) /\ account[a] # Absent
    BY <1>4, <2>2 DEF BeginRealloc, Open
  <2>4. call' = c /\ saved'.account = account  BY <2>3 DEF Begin
  <2>5. Begun' /\ Signers' = {p, w}
    BY <1>4, <2>3, <2>4 DEF Begun, Signers
  <2> HIDE DEF c
  <2>6. QED  BY <2>1, <2>3, <2>5, BeginKeeps
<1>5. ASSUME NEW m \in Mints, NEW w \in Wallets, NEW n \in U64,
             NEW to \in Accounts, BeginMemoTransfer(m, w, to, n)
      PROVE  CpiInv'
  <2> DEFINE c == [op |-> "memo_transfer", m |-> m, from |-> Ata(w, m),
                   to |-> to, w |-> w, n |-> n]
  <2>1. c \in Calls
    <3>1. Ata(w, m) \in Accounts  BY <1>5, AddressKinds
    <3>2. QED  BY <1>5, <3>1 DEF Calls
  <2>2. CpisOf("memo_transfer") = MemoTransferCpis  BY DEF CpisOf
  <2>3. Begin(c, CpisOf(c.op), {w}) /\ mint[m] # Absent /\ n > 0
    BY <1>5, <2>2 DEF BeginMemoTransfer, Live
  <2>4. call' = c /\ saved'.mint = mint  BY <2>3 DEF Begin
  <2>5. Begun' /\ Signers' = {w}
    BY <1>5, <2>3, <2>4 DEF Begun, Signers
  <2> HIDE DEF c
  <2>6. QED  BY <2>1, <2>3, <2>5, BeginKeeps
<1>6. ASSUME NEW m \in Mints, NEW w \in Wallets, NEW n \in U64,
             NEW from \in Accounts, NEW to \in Accounts,
             NEW badWallet \in Wallets,
             BeginTransferToken(m, from, to, w, badWallet, n)
      PROVE  CpiInv'
  <2> DEFINE c == [op |-> "transfer_token", m |-> m, from |-> from, to |-> to,
                   w |-> w, badWallet |-> badWallet, n |-> n]
  <2>1. c \in Calls  BY <1>6 DEF Calls
  <2>2. CpisOf("transfer_token") = TransferTokenCpis  BY DEF CpisOf
  <2>3. /\ Begin(c, CpisOf(c.op), {w}) /\ mint[m] # Absent /\ n > 0
        /\ account[from] # Absent /\ account[from].owner = w
    BY <1>6, <2>2 DEF BeginTransferToken, Live, Open
  <2>4. call' = c /\ saved'.mint = mint /\ saved'.account = account
    BY <2>3 DEF Begin
  <2>5. Begun' /\ Signers' = {w}
    BY <1>6, <2>3, <2>4 DEF Begun, Signers
  <2> HIDE DEF c
  <2>6. QED  BY <2>1, <2>3, <2>5, BeginKeeps
<1>7. /\ CpisOf("immutable_owner") = ImmutableOwnerCpis
      /\ CpisOf("non_transferable_token") = NonTransferableTokenCpis
      /\ CpisOf("enable_memo") = EnableMemoCpis
      /\ CpisOf("initialize_token_account_with") = TokenAccountCpis
  BY DEF CpisOf
<1>8. \A m, a, p, w, len, accountLen :
          /\ BeginImmutableOwner(m, a, p, w, len, accountLen) =>
                 BeginMintAndAccount("immutable_owner",
                     CpisOf("immutable_owner"), m, a, p, w, len, accountLen)
          /\ BeginNonTransferableToken(m, a, p, w, len, accountLen) =>
                 BeginMintAndAccount("non_transferable_token",
                     CpisOf("non_transferable_token"), m, a, p, w, len, accountLen)
  BY <1>7 DEF BeginImmutableOwner, BeginNonTransferableToken
<1>9. \A a, m, p, w, len :
          /\ BeginEnableMemo(a, m, p, w, len) =>
                 BeginTokenAccount("enable_memo", CpisOf("enable_memo"),
                                   a, m, p, w, len)
          /\ BeginInitializeTokenAccountWith(a, m, p, w, len) =>
                 /\ mint[m].authority = w
                 /\ BeginTokenAccount("initialize_token_account_with",
                        CpisOf("initialize_token_account_with"), a, m, p, w, len)
  BY <1>7 DEF BeginEnableMemo, BeginInitializeTokenAccountWith
<1>10. QED
  BY <1>1, <1>2, <1>3, <1>4, <1>5, <1>6, <1>8, <1>9 DEF BeginCall

\* Accounts that are not initialised are mints or token accounts of keypairs.
LEMMA RawAddresses ==
    ASSUME CpiInv
    PROVE  DOMAIN raw = Mints \cup KeyAccounts
<1>1. CASE call = Idle  BY <1>1 DEF CpiInv, Nothing
<1>2. CASE call # Idle
  <2>1. call \in Calls /\ \E k \in 0 .. Len(CpisOf(call.op)) : Underway(k)
    BY <1>2 DEF CpiInv
  <2>2. PICK k \in 0 .. Len(CpisOf(call.op)) : Underway(k)  BY <2>1
  <2>3. CASE call.op \in CreatingKinds
    BY <2>2, <2>3 DEF Underway, Creating, RawOf
  <2>4. CASE call.op = "realloc"
    BY <2>2, <2>4 DEF Underway, Reallocating, Nothing
  <2>5. CASE call.op \in {"memo_transfer", "transfer_token"}
    BY <2>2, <2>5 DEF Underway, Transferring, TransferKinds, Nothing
  <2>6. QED  BY <2>1, <2>3, <2>4, <2>5, KindsOfCalls
<1>3. QED  BY <1>1, <1>2

\* A transaction that fails leaves the accounts as they were.
LEMMA RollbackKeeps ==
    ASSUME CpiInv, call # Idle, Rollback
    PROVE  CpiInv'
<1>1. saved \in SavedState  BY DEF CpiInv
<1>2. TypeOK'  BY <1>1, SavedTypes DEF Rollback, TypeOK
<1>3. raw' = Nothing  BY RawAddresses DEF Rollback, Nothing
<1>4. call' = Idle /\ todo' = <<>>  BY DEF Rollback
<1>5. QED  BY <1>2, <1>3, <1>4 DEF CpiInv

\* A refused call is such a failure.
LEMMA RefusedRollsBack ==
    ASSUME Refused
    PROVE  call # Idle /\ todo # <<>> /\ Rollback
BY DEF Refused

\* After the last call a handler has made all of them.
LEMMA AllCallsMade ==
    ASSUME CpiInv, call # Idle, todo = <<>>
    PROVE  /\ tx = [signers |-> Signers, memo |-> "build_memo" \in CallsOf(call.op)]
           /\ metaLists = saved.metaLists
           /\ call.op \in CreatingKinds => Creating(CallsOf(call.op))
           /\ call.op = "realloc" => Reallocating(CallsOf(call.op))
           /\ call.op \in TransferKinds => Transferring(CallsOf(call.op))
<1> DEFINE cpis == CpisOf(call.op)
           names == CallsOf(call.op)
<1>1. call \in Calls  BY DEF CpiInv
<1>2. IsCallList(cpis, names)  BY <1>1, CpisAreLists
<1>3. PICK k \in 0 .. Len(cpis) : Underway(k)  BY DEF CpiInv
<1>4. todo = ToCall(cpis, k)  BY <1>3 DEF Underway
<1>5. Done(cpis, k) = names
  <2> HIDE DEF cpis, names
  <2>1. QED  BY <1>2, <1>3, <1>4, NoNextCall
<1>6. QED  BY <1>3, <1>5 DEF Underway

\* No account is left uninitialised by all the calls of a handler.
LEMMA CommitKeeps ==
    ASSUME CpiInv, Commit
    PROVE  CpiInv'
<1>1. call # Idle /\ todo = <<>> /\ call \in Calls /\ TypeOK
  BY DEF Commit, CpiInv
<1>2. raw = Nothing
  <2>1. CASE call.op \in CreatingKinds
    <3>1. raw = RawOf(CallsOf(call.op))
      BY <1>1, <2>1, AllCallsMade DEF Creating
    <3>2. /\ "create_mint" \in CallsOf(call.op)
                => "initialize_mint2" \in CallsOf(call.op)
          /\ "create_account" \in CallsOf(call.op)
                => "initialize_account3" \in CallsOf(call.op)
      BY <2>1 DEF CallsOf, CreatingKinds, MintCalls, ExtensionKinds,
                  MintAndAccountKinds, TokenAccountKinds
    <3>3. QED  BY <3>1, <3>2 DEF RawOf, RawMint, RawAccount, Nothing
  <2>2. CASE call.op = "realloc"
    BY <1>1, <2>2, AllCallsMade DEF Reallocating
  <2>3. CASE call.op \in {"memo_transfer", "transfer_token"}
    BY <1>1, <2>3, AllCallsMade DEF Transferring, TransferKinds
  <2>4. QED  BY <1>1, <2>1, <2>2, <2>3, KindsOfCalls
<1>3. /\ call' = Idle /\ UNCHANGED <<vars, todo, raw>>  BY DEF Commit
<1>4. TypeOK'  BY <1>1, <1>3 DEF TypeOK, vars
<1>5. QED  BY <1>1, <1>2, <1>3, <1>4 DEF CpiInv

\* Every step keeps the invariant.
LEMMA CpiNextKeeps ==
    ASSUME CpiInv, [CpiNext]_<<vars, cpiVars>>
    PROVE  CpiInv'
<1>1. CASE AtomicStep
  <2>1. TypeOK /\ Next /\ UNCHANGED cpiVars /\ call = Idle
    BY <1>1 DEF AtomicStep, CpiInv
  <2>2. TypeOK'  BY <2>1, NextType
  <2>3. QED  BY <2>1, <2>2 DEF CpiInv, cpiVars
<1>2. CASE BeginCall  BY <1>2, BeginCallKeeps
<1>3. CASE CallNext  BY <1>3, CallNextKeeps
<1>4. CASE Commit  BY <1>4, CommitKeeps
<1>5. CASE Refused  BY <1>5, RefusedRollsBack, RollbackKeeps
<1>6. CASE OutOfCompute
  <2>1. call # Idle /\ Rollback  BY <1>6 DEF OutOfCompute
  <2>2. QED  BY <2>1, RollbackKeeps
<1>7. CASE UNCHANGED <<vars, cpiVars>>
  <2>1. /\ UNCHANGED <<mint, account, supply, feePool, amount, withheld,
                       lamports, metaLists, tx>>
        /\ UNCHANGED <<call, todo, raw, saved>>
    BY <1>7 DEF vars, cpiVars
  <2>2. TypeOK' /\ (call # Idle => Begun' = Begun)
    BY <2>1 DEF CpiInv, TypeOK, Begun
  <2>3. ASSUME NEW k, Underway(k) PROVE Underway(k)'
    <3>1. ASSUME NEW done, Creating(done) PROVE Creating(done)'
      <4>1. InOrder(done)' /\ raw' = RawOf(done)'
        BY <2>1, <3>1
        DEF Creating, InOrder, RawOf, RawMint, RawAccount, MintExtensions,
            AccountExtensions
      <4>2. RentSpent(done)'  BY <2>1, <3>1 DEF Creating, RentSpent
      <4>3. MintMade(done)'
        BY <2>1, <3>1 DEF Creating, MintMade, MintExtensions
      <4>4. AccountMade(done)'
        BY <2>1, <3>1 DEF Creating, AccountMade, AccountExtensions
      <4>5. QED  BY <2>1, <3>1, <4>1, <4>2, <4>3, <4>4 DEF Creating
    <3>2. ASSUME NEW done, Reallocating(done) PROVE Reallocating(done)'
      BY <2>1, <3>2 DEF Reallocating, SlotPaid, NeedsSlot
    <3>3. ASSUME Transferred PROVE Transferred'
      BY <2>1, <3>3
      DEF Transferred, Committed!TransferAllowed, Committed!AcceptsFee,
          Committed!AcceptsHook, Committed!Open, Committed!MayDebit, Visible
    <3>4. ASSUME NEW done, Transferring(done) PROVE Transferring(done)'
      BY <2>1, <3>3, <3>4 DEF Transferring
    <3>5. QED
      BY <2>1, <2>3, <3>1, <3>2, <3>4 DEF Underway, Signers
  <2>4. QED  BY <2>1, <2>2, <2>3 DEF CpiInv
<1>8. QED
  BY <1>1, <1>2, <1>3, <1>4, <1>5, <1>6, <1>7 DEF CpiNext

\* Nothing runs at first.
LEMMA CpiInitInv ==
    ASSUME CpiInit
    PROVE  CpiInv
<1>1. TypeOK  BY InitType DEF CpiInit
<1>2. QED  BY <1>1 DEF CpiInit, CpiInv

\* THEOREM: between two calls of a handler, the accounts are what the calls made
\* so far left, in terms of its arguments and of the accounts before it.
THEOREM CpiInvariantHolds == CpiSpec => []CpiInv
<1>1. CpiInit => CpiInv  BY CpiInitInv
<1>2. CpiInv /\ [CpiNext]_<<vars, cpiVars>> => CpiInv'  BY CpiNextKeeps
<1>3. QED  BY <1>1, <1>2, PTL DEF CpiSpec

\* THEOREM: no transaction leaves an account that nobody initialised, whatever
\* lengths its caller chose and wherever it failed.
THEOREM NeverHalfInitialised == CpiSpec => []NothingHalfInitialised
<1>1. CpiInv => NothingHalfInitialised
  <2> SUFFICES ASSUME CpiInv, call = Idle, NEW x \in DOMAIN raw
               PROVE  raw[x] = Absent
    BY DEF NothingHalfInitialised
  <2>1. raw = Nothing  BY DEF CpiInv
  <2>2. QED  BY <2>1 DEF Nothing
<1>2. QED  BY <1>1, CpiInvariantHolds, PTL
-----------------------------------------------------------------------------
(* Committed: a handler is one step of TokenExtension.                     *)

\* What Committed sees of a commit: the accounts saved, then the ones at hand.
LEMMA CommittedCalls ==
    ASSUME call # Idle, call' = Idle, UNCHANGED vars
    PROVE  /\ \A m : Committed!Live(m) <=> saved.mint[m] # Absent
           /\ \A a : Committed!Open(a) <=> saved.account[a] # Absent
           /\ \A S : Committed!Signed(S) <=> tx = [signers |-> S, memo |-> FALSE]
           /\ \A S : Committed!SignedWithMemo(S)
                         <=> tx = [signers |-> S, memo |-> TRUE]
           /\ \A p, x, rent :
                 Committed!CreateAccount(p, x, rent) <=>
                     /\ saved.lamports[x] = 0 /\ saved.lamports[p] >= rent
                     /\ lamports = [saved.lamports EXCEPT ![p] = @ - rent,
                                                          ![x] = rent]
           /\ \A p, x, rx, y, ry :
                 Committed!CreateTwoAccounts(p, x, rx, y, ry) <=>
                     /\ saved.lamports[x] = 0 /\ saved.lamports[y] = 0
                     /\ saved.lamports[p] >= rx + ry
                     /\ lamports = [saved.lamports EXCEPT ![p] = @ - (rx + ry),
                                                          ![x] = rx, ![y] = ry]
           /\ \A m, conf :
                 Committed!InitializeMint(m, conf) <=>
                     /\ mint = [saved.mint EXCEPT ![m] = conf]
                     /\ supply = [saved.supply EXCEPT ![m] = 0]
                     /\ feePool = [saved.feePool EXCEPT ![m] = 0]
           /\ \A a, new :
                 Committed!InitializeAccount(a, new)
                     <=> account = [saved.account EXCEPT ![a] = new]
<1>0. /\ mint' = mint /\ account' = account /\ supply' = supply
      /\ feePool' = feePool /\ lamports' = lamports /\ tx' = tx
  BY DEF vars
<1>1. /\ \A m : Committed!Live(m) <=> saved.mint[m] # Absent
      /\ \A a : Committed!Open(a) <=> saved.account[a] # Absent
  BY DEF Committed!Live, Committed!Open, Visible
<1>2. /\ \A S : Committed!Signed(S) <=> tx = [signers |-> S, memo |-> FALSE]
      /\ \A S : Committed!SignedWithMemo(S)
                    <=> tx = [signers |-> S, memo |-> TRUE]
  BY <1>0 DEF Committed!Signed, Committed!SignedWithMemo, Visible
<1>3. \A p, x, rent :
          Committed!CreateAccount(p, x, rent) <=>
              /\ saved.lamports[x] = 0 /\ saved.lamports[p] >= rent
              /\ lamports = [saved.lamports EXCEPT ![p] = @ - rent, ![x] = rent]
  BY <1>0 DEF Committed!CreateAccount, Visible
<1>4. \A p, x, rx, y, ry :
          Committed!CreateTwoAccounts(p, x, rx, y, ry) <=>
              /\ saved.lamports[x] = 0 /\ saved.lamports[y] = 0
              /\ saved.lamports[p] >= rx + ry
              /\ lamports = [saved.lamports EXCEPT ![p] = @ - (rx + ry),
                                                   ![x] = rx, ![y] = ry]
  BY <1>0 DEF Committed!CreateTwoAccounts, Visible
<1>5. \A m, conf :
          Committed!InitializeMint(m, conf) <=>
              /\ mint = [saved.mint EXCEPT ![m] = conf]
              /\ supply = [saved.supply EXCEPT ![m] = 0]
              /\ feePool = [saved.feePool EXCEPT ![m] = 0]
  BY <1>0 DEF Committed!InitializeMint, Visible
<1>6. \A a, new :
          Committed!InitializeAccount(a, new)
              <=> account = [saved.account EXCEPT ![a] = new]
  BY <1>0 DEF Committed!InitializeAccount, Visible
<1>7. QED  BY <1>1, <1>2, <1>3, <1>4, <1>5, <1>6

\* Two mints with the same fields.
SameMint(x, y) ==
    /\ x.authority = y.authority /\ x.freeze = y.freeze
    /\ x.frozenDefault = y.frozenDefault /\ x.close = y.close
    /\ x.hasFee = y.hasFee /\ x.withdraw = y.withdraw
    /\ x.bps = y.bps /\ x.maxFee = y.maxFee
    /\ x.delegate = y.delegate /\ x.hookExt = y.hookExt
    /\ x.hook = y.hook /\ x.nonTransferable = y.nonTransferable
    /\ x.groupPointer = y.groupPointer /\ x.metadata = y.metadata

\* They are the same mint.
LEMMA MintsEqual ==
    ASSUME NEW x \in MintState, NEW y \in MintState, SameMint(x, y)
    PROVE  x = y
BY DEF MintState, SameMint

\* x is a plain mint but for the extensions.
Extended(x, w, extensions) ==
    LET y == PlainMint(w) IN
    /\ x.authority = y.authority /\ x.hasFee = y.hasFee
    /\ x.withdraw = y.withdraw /\ x.bps = y.bps
    /\ x.maxFee = y.maxFee /\ x.hookExt = y.hookExt
    /\ x.hook = y.hook /\ x.groupPointer = y.groupPointer
    /\ x.metadata = y.metadata
    /\ x.freeze = IF "default_account_state" \in extensions THEN w ELSE NoOne
    /\ x.close = IF "mint_close_authority" \in extensions THEN w ELSE NoOne
    /\ x.delegate = IF "permanent_delegate" \in extensions THEN w ELSE NoOne
    /\ x.frozenDefault = ("default_account_state" \in extensions)
    /\ x.nonTransferable = ("non_transferable_token" \in extensions)

\* A mint's fields after initialize_mint2.
LEMMA ExtendedFields ==
    ASSUME NEW w, NEW extensions
    PROVE  Extended(ExtendedMint(w, extensions), w, extensions)
BY DEF ExtendedMint, PlainMint, Extended

\* The mints that the handlers initialise, extension by extension.
LEMMA ExtendedMints ==
    ASSUME NEW w \in Wallets
    PROVE  /\ ExtendedMint(w, {}) = PlainMint(w)
           /\ ExtendedMint(w, {"mint_close_authority"})
                  = [PlainMint(w) EXCEPT !.close = w]
           /\ ExtendedMint(w, {"default_account_state"})
                  = [PlainMint(w) EXCEPT !.frozenDefault = TRUE, !.freeze = w]
           /\ ExtendedMint(w, {"permanent_delegate"})
                  = [PlainMint(w) EXCEPT !.delegate = w]
           /\ ExtendedMint(w, {"interest_bearing_token"}) = PlainMint(w)
           /\ ExtendedMint(w, {"initialize_confidential_mint"}) = PlainMint(w)
           /\ ExtendedMint(w, {"non_transferable_token"})
                  = [PlainMint(w) EXCEPT !.nonTransferable = TRUE]
<1>0. /\ PlainMint(w) \in MintState /\ w \in Key /\ NoOne \in Key
      /\ \A extensions : ExtendedMint(w, extensions) \in MintState
  BY PlainMintType, ExtendedMintType DEF Key
<1>1. ExtendedMint(w, {}) = PlainMint(w)
  <2> DEFINE x == ExtendedMint(w, {})
             y == PlainMint(w)
  <2>1. x \in MintState /\ y \in MintState  BY <1>0
  <2>2. /\ ("mint_close_authority" \in {}) = FALSE
        /\ ("permanent_delegate" \in {}) = FALSE
        /\ ("default_account_state" \in {}) = FALSE
        /\ ("non_transferable_token" \in {}) = FALSE
    OBVIOUS
  <2>3. Extended(x, w, {})  BY ExtendedFields
  <2> HIDE DEF x
  <2>4. SameMint(x, y)  BY <2>2, <2>3 DEF PlainMint, SameMint, Extended
  <2> HIDE DEF y
  <2>5. x = y  BY <2>1, <2>4, MintsEqual
  <2>6. QED  BY <2>5 DEF x, y
<1>2. ExtendedMint(w, {"mint_close_authority"})
          = [PlainMint(w) EXCEPT !.close = w]
  <2> DEFINE x == ExtendedMint(w, {"mint_close_authority"})
             y == [PlainMint(w) EXCEPT !.close = w]
  <2>1. x \in MintState /\ y \in MintState  BY <1>0 DEF MintState
  <2>2. /\ ("mint_close_authority" \in {"mint_close_authority"}) = TRUE
        /\ ("permanent_delegate" \in {"mint_close_authority"}) = FALSE
        /\ ("default_account_state" \in {"mint_close_authority"}) = FALSE
        /\ ("non_transferable_token" \in {"mint_close_authority"}) = FALSE
    OBVIOUS
  <2>3. Extended(x, w, {"mint_close_authority"})  BY ExtendedFields
  <2> HIDE DEF x
  <2>4. SameMint(x, y)  BY <2>2, <2>3 DEF PlainMint, SameMint, Extended
  <2> HIDE DEF y
  <2>5. x = y  BY <2>1, <2>4, MintsEqual
  <2>6. QED  BY <2>5 DEF x, y
<1>3. ExtendedMint(w, {"default_account_state"})
          = [PlainMint(w) EXCEPT !.frozenDefault = TRUE, !.freeze = w]
  <2> DEFINE x == ExtendedMint(w, {"default_account_state"})
             y == [PlainMint(w) EXCEPT !.frozenDefault = TRUE, !.freeze = w]
  <2>1. x \in MintState /\ y \in MintState  BY <1>0 DEF MintState
  <2>2. /\ ("mint_close_authority" \in {"default_account_state"}) = FALSE
        /\ ("permanent_delegate" \in {"default_account_state"}) = FALSE
        /\ ("default_account_state" \in {"default_account_state"}) = TRUE
        /\ ("non_transferable_token" \in {"default_account_state"}) = FALSE
    OBVIOUS
  <2>3. Extended(x, w, {"default_account_state"})  BY ExtendedFields
  <2> HIDE DEF x
  <2>4. SameMint(x, y)  BY <2>2, <2>3 DEF PlainMint, SameMint, Extended
  <2> HIDE DEF y
  <2>5. x = y  BY <2>1, <2>4, MintsEqual
  <2>6. QED  BY <2>5 DEF x, y
<1>4. ExtendedMint(w, {"permanent_delegate"})
          = [PlainMint(w) EXCEPT !.delegate = w]
  <2> DEFINE x == ExtendedMint(w, {"permanent_delegate"})
             y == [PlainMint(w) EXCEPT !.delegate = w]
  <2>1. x \in MintState /\ y \in MintState  BY <1>0 DEF MintState
  <2>2. /\ ("mint_close_authority" \in {"permanent_delegate"}) = FALSE
        /\ ("permanent_delegate" \in {"permanent_delegate"}) = TRUE
        /\ ("default_account_state" \in {"permanent_delegate"}) = FALSE
        /\ ("non_transferable_token" \in {"permanent_delegate"}) = FALSE
    OBVIOUS
  <2>3. Extended(x, w, {"permanent_delegate"})  BY ExtendedFields
  <2> HIDE DEF x
  <2>4. SameMint(x, y)  BY <2>2, <2>3 DEF PlainMint, SameMint, Extended
  <2> HIDE DEF y
  <2>5. x = y  BY <2>1, <2>4, MintsEqual
  <2>6. QED  BY <2>5 DEF x, y
<1>5. ExtendedMint(w, {"interest_bearing_token"}) = PlainMint(w)
  <2> DEFINE x == ExtendedMint(w, {"interest_bearing_token"})
             y == PlainMint(w)
  <2>1. x \in MintState /\ y \in MintState  BY <1>0
  <2>2. /\ ("mint_close_authority" \in {"interest_bearing_token"}) = FALSE
        /\ ("permanent_delegate" \in {"interest_bearing_token"}) = FALSE
        /\ ("default_account_state" \in {"interest_bearing_token"}) = FALSE
        /\ ("non_transferable_token" \in {"interest_bearing_token"}) = FALSE
    OBVIOUS
  <2>3. Extended(x, w, {"interest_bearing_token"})  BY ExtendedFields
  <2> HIDE DEF x
  <2>4. SameMint(x, y)  BY <2>2, <2>3 DEF PlainMint, SameMint, Extended
  <2> HIDE DEF y
  <2>5. x = y  BY <2>1, <2>4, MintsEqual
  <2>6. QED  BY <2>5 DEF x, y
<1>6. ExtendedMint(w, {"initialize_confidential_mint"}) = PlainMint(w)
  <2> DEFINE x == ExtendedMint(w, {"initialize_confidential_mint"})
             y == PlainMint(w)
  <2>1. x \in MintState /\ y \in MintState  BY <1>0
  <2>2. /\ ("mint_close_authority" \in {"initialize_confidential_mint"}) = FALSE
        /\ ("permanent_delegate" \in {"initialize_confidential_mint"}) = FALSE
        /\ ("default_account_state" \in {"initialize_confidential_mint"}) = FALSE
        /\ ("non_transferable_token" \in {"initialize_confidential_mint"}) = FALSE
    OBVIOUS
  <2>3. Extended(x, w, {"initialize_confidential_mint"})  BY ExtendedFields
  <2> HIDE DEF x
  <2>4. SameMint(x, y)  BY <2>2, <2>3 DEF PlainMint, SameMint, Extended
  <2> HIDE DEF y
  <2>5. x = y  BY <2>1, <2>4, MintsEqual
  <2>6. QED  BY <2>5 DEF x, y
<1>7. ExtendedMint(w, {"non_transferable_token"})
          = [PlainMint(w) EXCEPT !.nonTransferable = TRUE]
  <2> DEFINE x == ExtendedMint(w, {"non_transferable_token"})
             y == [PlainMint(w) EXCEPT !.nonTransferable = TRUE]
  <2>1. x \in MintState /\ y \in MintState  BY <1>0 DEF MintState
  <2>2. /\ ("mint_close_authority" \in {"non_transferable_token"}) = FALSE
        /\ ("permanent_delegate" \in {"non_transferable_token"}) = FALSE
        /\ ("default_account_state" \in {"non_transferable_token"}) = FALSE
        /\ ("non_transferable_token" \in {"non_transferable_token"}) = TRUE
    OBVIOUS
  <2>3. Extended(x, w, {"non_transferable_token"})  BY ExtendedFields
  <2> HIDE DEF x
  <2>4. SameMint(x, y)  BY <2>2, <2>3 DEF PlainMint, SameMint, Extended
  <2> HIDE DEF y
  <2>5. x = y  BY <2>1, <2>4, MintsEqual
  <2>6. QED  BY <2>5 DEF x, y
<1>8. QED  BY <1>1, <1>2, <1>3, <1>4, <1>5, <1>6, <1>7

\* A token account with other room.
WithRoom(state, room) == [state EXCEPT !.room = room]

\* An account that is left some room pays rent for it, and differs in nothing
\* else.
LEMMA RoomOfNew ==
    ASSUME NEW m \in Mints, NEW conf \in MintState, NEW w \in Wallets,
           NEW immutable \in BOOLEAN, NEW room \in Rooms
    PROVE  /\ Slots(NewAccount(m, conf, w, immutable, room))
                  = Slots(NewAccount(m, conf, w, immutable, 0)) + room
           /\ NewAccount(m, conf, w, immutable, room)
                  = WithRoom(NewAccount(m, conf, w, immutable, 0), room)
           /\ NewAccount(m, conf, w, immutable, 0).memo = FALSE
<1> DEFINE new  == NewAccount(m, conf, w, immutable, room)
           bare == NewAccount(m, conf, w, immutable, 0)
           Ext  == {"feeExt", "hookExt", "nonTransferable", "immutable",
                    "memo", "guard"}
<1>1. /\ new = [bare EXCEPT !.room = room] /\ bare.memo = FALSE
      /\ new.room = room /\ bare.room = 0
      /\ \A x \in Ext : new[x] = bare[x]
  <2>1. new \in AccountState /\ bare \in AccountState
    BY NewAccountType, BoundsAreNatural DEF Rooms
  <2>2. bare.memo = FALSE /\ new.room = room /\ bare.room = 0
    BY DEF NewAccount
  <2>3. /\ new.feeExt = bare.feeExt /\ new.hookExt = bare.hookExt
        /\ new.nonTransferable = bare.nonTransferable
        /\ new.immutable = bare.immutable
        /\ new.memo = bare.memo /\ new.guard = bare.guard
    BY DEF NewAccount
  <2>4. /\ new.mint = bare.mint /\ new.owner = bare.owner
        /\ new.frozen = bare.frozen
    BY DEF NewAccount
  <2> HIDE DEF new, bare
  <2>5. new = [bare EXCEPT !.room = room]
    BY <2>1, <2>2, <2>3, <2>4 DEF AccountState
  <2>6. QED  BY <2>2, <2>3, <2>5
<1> HIDE DEF new, bare
<1>2. {x \in Ext : new[x]} = {x \in Ext : bare[x]}  BY <1>1
<1>3. Cardinality({x \in Ext : bare[x]}) \in Nat
  <2>1. Slots(bare) = Cardinality({x \in Ext : bare[x]}) + 0
    BY <1>1 DEF Slots
  <2>2. IsFiniteSet(Ext)
    <3>1. \A x, y : IsFiniteSet({x, y})
      <4> SUFFICES ASSUME NEW x, NEW y PROVE IsFiniteSet({x, y})  OBVIOUS
      <4>1. IsFiniteSet({x}) /\ IsFiniteSet({y})  BY FS_Singleton
      <4>2. {x, y} = {x} \cup {y}  OBVIOUS
      <4>3. QED  BY <4>1, <4>2, FS_Union
    <3>2. IsFiniteSet({"feeExt", "hookExt"} \cup {"nonTransferable", "immutable"})
      BY <3>1, FS_Union
    <3>3. IsFiniteSet(({"feeExt", "hookExt"} \cup {"nonTransferable", "immutable"})
                        \cup {"memo", "guard"})
      BY <3>1, <3>2, FS_Union
    <3>4. Ext = ({"feeExt", "hookExt"} \cup {"nonTransferable", "immutable"})
                  \cup {"memo", "guard"}
      OBVIOUS
    <3>5. QED  BY <3>3, <3>4
  <2>3. {x \in Ext : bare[x]} \in SUBSET Ext  OBVIOUS
  <2>4. QED  BY <2>2, <2>3, FS_Subset, FS_CardinalityType
<1>4. Slots(new) = Cardinality({x \in Ext : new[x]}) + room
        /\ Slots(bare) = Cardinality({x \in Ext : bare[x]}) + 0
  BY <1>1 DEF Slots
<1>5. Slots(new) = Slots(bare) + room
  <2> DEFINE used == Cardinality({x \in Ext : bare[x]})
  <2>1. Slots(new) = used + room  BY <1>2, <1>4
  <2>2. Slots(bare) = used + 0  BY <1>4
  <2>3. used \in Nat  BY <1>3
  <2> HIDE DEF used
  <2>4. QED  BY <2>1, <2>2, <2>3
<1>6. QED  BY <1>1, <1>5 DEF new, bare, WithRoom

\* What a commit starts from.
LEMMA CommitFacts ==
    ASSUME CpiInv, Commit
    PROVE  /\ call # Idle /\ call' = Idle /\ todo = <<>>
           /\ UNCHANGED vars
           /\ call \in Calls /\ saved \in SavedState /\ Begun /\ TypeOK
           /\ mint' = mint /\ account' = account /\ supply' = supply
           /\ feePool' = feePool /\ amount' = amount /\ withheld' = withheld
           /\ lamports' = lamports /\ metaLists' = metaLists /\ tx' = tx
BY DEF CpiInv, Commit, vars

\* Rent for one account, as the System program moves it.
LEMMA RentForOne ==
    ASSUME saved \in SavedState, NEW p \in Wallets, NEW x \in Addresses, p # x,
           NEW rent \in Nat, NEW paid, paid = rent,
           lamports = [y \in Addresses |->
               IF y = x THEN rent
               ELSE IF y = p THEN saved.lamports[y] - paid
               ELSE saved.lamports[y]]
    PROVE  lamports = [saved.lamports EXCEPT ![p] = @ - rent, ![x] = rent]
<1>1. saved.lamports \in [Addresses -> Nat] /\ p \in Addresses
  BY SavedTypes, AddressKinds
<1>2. QED  BY <1>1

\* The handlers of one extension.
LEMMA CommitExtensionMint ==
    ASSUME CpiInv, Commit, call.op \in ExtensionKinds
    PROVE  Committed!Next
<1> DEFINE m == call.m
           p == call.p
           w == call.w
           op == call.op
<1>1. /\ m \in Mints /\ p \in Wallets /\ w \in Wallets
      /\ saved.mint[m] = Absent /\ Signers = {p, w}
  BY CommitFacts
  DEF Calls, Begun, Signers, ExtensionKinds, MintAndAccountKinds,
      TokenAccountKinds, TransferKinds
<1>2. CallsOf(op) = MintCalls  BY DEF CallsOf, ExtensionKinds
<1>3. /\ Creating(MintCalls) /\ metaLists = saved.metaLists
      /\ tx = [signers |-> {p, w}, memo |-> "build_memo" \in MintCalls]
  BY <1>1, <1>2, CommitFacts, AllCallsMade DEF CreatingKinds
<1>4. ("build_memo" \in MintCalls) = FALSE  BY DEF MintCalls
<1>5. /\ "create_mint" \in MintCalls /\ "initialize_mint2" \in MintCalls
      /\ "create_account" \notin MintCalls
      /\ "initialize_account3" \notin MintCalls
      /\ MintExtensions(MintCalls) = {op}
  BY DEF MintCalls, MintExtensions
<1>6. Cardinality({op}) = 1  BY FS_Singleton
<1>7. /\ call.mintLen = 1
      /\ mint = [saved.mint EXCEPT ![m] = ExtendedMint(w, {op})]
      /\ supply = [saved.supply EXCEPT ![m] = 0]
      /\ feePool = [saved.feePool EXCEPT ![m] = 0]
      /\ account = saved.account /\ amount = saved.amount
      /\ withheld = saved.withheld
  BY <1>3, <1>5, <1>6 DEF Creating, MintMade, AccountMade
<1>8. /\ saved.lamports[m] = 0 /\ saved.lamports[p] >= Rent(1)
      /\ lamports = [saved.lamports EXCEPT ![p] = @ - Rent(1), ![m] = Rent(1)]
  <2>1. /\ saved.lamports[m] = 0
        /\ saved.lamports[p] >= Rent(1) + 0
        /\ lamports = [x \in Addresses |->
               IF x = m THEN Rent(1)
               ELSE IF x = p THEN saved.lamports[x] - (Rent(1) + 0)
               ELSE saved.lamports[x]]
    BY <1>3, <1>5, <1>7 DEF Creating, RentSpent
  <2>2. Rent(1) \in Nat  BY DEF Rent
  <2>3. m # p /\ m \in Addresses  BY <1>1, DistinctAddresses
  <2>4. Rent(1) + 0 = Rent(1)  BY <2>2
  <2> HIDE DEF m, p
  <2>5. lamports = [saved.lamports EXCEPT ![p] = @ - Rent(1), ![m] = Rent(1)]
    BY <1>1, <2>1, <2>2, <2>3, <2>4, CommitFacts, RentForOne
  <2>6. QED  BY <2>1, <2>4, <2>5
<1>9. Committed!CreateMint(m, p, w, ExtendedMint(w, {op}))
  <2>1. /\ ~Committed!Live(m)
        /\ Committed!CreateAccount(p, m, Rent(1))
        /\ Committed!InitializeMint(m, ExtendedMint(w, {op}))
        /\ Committed!Signed({p, w})
    BY <1>1, <1>3, <1>4, <1>7, <1>8, CommitFacts, CommittedCalls
  <2>2. Committed!Rent(1) = Rent(1)  BY SameConstants
  <2>3. QED
    BY <1>3, <1>7, <2>1, <2>2, CommitFacts
    DEF Committed!CreateMint, Committed!CreateFundedMint, Visible
<1>10. \A x : Committed!PlainMint(x) = PlainMint(x)  BY SameConstants
<1>11. \/ Committed!MintCloseAuthority(m, p, w)
       \/ Committed!DefaultAccountState(m, p, w)
       \/ Committed!PermanentDelegate(m, p, w)
       \/ Committed!InterestBearingToken(m, p, w)
       \/ Committed!InitializeConfidentialMint(m, p, w)
  <2> HIDE DEF m, p, w
  <2>1. CASE op = "mint_close_authority"
    BY <1>1, <1>9, <1>10, <2>1, ExtendedMints DEF Committed!MintCloseAuthority
  <2>2. CASE op = "default_account_state"
    BY <1>1, <1>9, <1>10, <2>2, ExtendedMints DEF Committed!DefaultAccountState
  <2>3. CASE op = "permanent_delegate"
    BY <1>1, <1>9, <1>10, <2>3, ExtendedMints DEF Committed!PermanentDelegate
  <2>4. CASE op = "interest_bearing_token"
    BY <1>1, <1>9, <1>10, <2>4, ExtendedMints DEF Committed!InterestBearingToken
  <2>5. CASE op = "initialize_confidential_mint"
    BY <1>1, <1>9, <1>10, <2>5, ExtendedMints
    DEF Committed!InitializeConfidentialMint
  <2>6. QED  BY <2>1, <2>2, <2>3, <2>4, <2>5 DEF ExtensionKinds
<1>12. Committed!CreateMintStep
  BY <1>1, <1>11 DEF Committed!CreateMintStep
<1>13. QED  BY <1>12 DEF Committed!Next

\* The handlers that create a mint and a token account of it.
LEMMA CommitMintAndAccount ==
    ASSUME CpiInv, Commit, call.op \in MintAndAccountKinds
    PROVE  Committed!Next
<1> DEFINE m == call.m
           a == call.a
           p == call.p
           w == call.w
           op == call.op
           names == CallsOf(op)
           extensions == IF op = "non_transferable_token" THEN {op} ELSE {}
           conf == ExtendedMint(w, extensions)
           slots == IF op = "non_transferable_token" THEN 1 ELSE 0
           bare == NewAccount(m, conf, w, TRUE, 0)
           free == call.accountLen - Slots(bare)
           new == NewAccount(m, conf, w, TRUE, free)
<1>1. /\ m \in Mints /\ p \in Wallets /\ w \in Wallets /\ a \in KeyAccounts
      /\ call.accountLen \in Rooms
      /\ saved.mint[m] = Absent /\ saved.account[a] = Absent
      /\ Signers = {p, w}
  BY CommitFacts, LengthsFitRooms
  DEF Calls, Begun, Signers, ExtensionKinds, MintAndAccountKinds,
      TokenAccountKinds, TransferKinds
<1>2. /\ Creating(names) /\ metaLists = saved.metaLists
      /\ tx = [signers |-> {p, w}, memo |-> "build_memo" \in names]
  BY <1>1, CommitFacts, AllCallsMade DEF CreatingKinds
<1>3. /\ "create_mint" \in names /\ "initialize_mint2" \in names
      /\ "create_account" \in names
      /\ "initialize_account3" \in names
      /\ "initialize_immutable_owner" \in names
      /\ ("initialize_extension" \in names <=> op = "non_transferable_token")
      /\ ("enable_required_transfer_memos" \in names) = FALSE
      /\ ("build_memo" \in names) = FALSE
  <2>1. CASE op = "immutable_owner"
    <3>1. names = {"create_mint", "initialize_mint2", "create_account",
                   "initialize_immutable_owner", "initialize_account3"}
      BY <2>1 DEF CallsOf, ExtensionKinds
    <3>2. QED  BY <2>1, <3>1
  <2>2. CASE op = "non_transferable_token"
    <3>1. names = MintCalls \cup {"create_account",
                      "initialize_immutable_owner", "initialize_account3"}
      BY <2>2 DEF CallsOf, ExtensionKinds
    <3>2. QED  BY <2>2, <3>1 DEF MintCalls
  <2>3. QED  BY <2>1, <2>2 DEF MintAndAccountKinds
<1>4. /\ MintExtensions(names) = extensions
      /\ (AccountExtensions(names) # {}) = TRUE
      /\ Cardinality(extensions) = slots
  <2>1. /\ MintExtensions(names) = extensions
        /\ (AccountExtensions(names) # {}) = TRUE
    BY <1>3 DEF MintExtensions, AccountExtensions
  <2>2. Cardinality({op}) = 1 /\ Cardinality({}) = 0
    BY FS_Singleton, FS_EmptySet
  <2>3. QED  BY <2>1, <2>2
<1> HIDE DEF names
<1>5. /\ call.mintLen = slots
      /\ mint = [saved.mint EXCEPT ![m] = conf]
      /\ supply = [saved.supply EXCEPT ![m] = 0]
      /\ feePool = [saved.feePool EXCEPT ![m] = 0]
      /\ amount = saved.amount /\ withheld = saved.withheld
  <2> HIDE DEF extensions, slots
  <2>1. QED  BY <1>2, <1>3, <1>4 DEF Creating, MintMade
<1>6. conf \in MintState /\ mint[m] = conf
  <2>1. conf \in MintState  BY <1>1, ExtendedMintType
  <2>2. saved.mint \in [Mints -> MintState \cup {Absent}]
    BY CommitFacts, SavedTypes
  <2> HIDE DEF conf
  <2>3. QED  BY <1>1, <1>5, <2>1, <2>2
<1> HIDE DEF extensions, conf, slots
<1>7. /\ free >= 0
      /\ account = [saved.account EXCEPT ![a] =
                        [bare EXCEPT !.memo = FALSE, !.room = free]]
  BY <1>2, <1>3, <1>4, <1>6 DEF Creating, AccountMade
<1>8. /\ bare \in AccountState /\ Slots(bare) \in Nat
      /\ free \in Rooms /\ bare.memo = FALSE
  <2>1. bare \in AccountState
    <3>1. 0 \in Rooms  BY BoundsAreNatural DEF Rooms
    <3>2. \A immutable \in BOOLEAN :
              NewAccount(m, conf, w, immutable, 0) \in AccountState
      <4> HIDE DEF m, w
      <4>1. QED  BY <1>1, <1>6, <3>1, NewAccountType
    <3>3. QED  BY <3>2
  <2>2. bare.room = 0 /\ bare.memo = FALSE  BY DEF NewAccount
  <2> HIDE DEF bare
  <2>3. Slots(bare) \in Nat  BY <2>2, SlotsNat
  <2>4. QED
    BY <1>1, <1>7, <2>1, <2>2, <2>3, BoundsAreNatural DEF Rooms
<1>9. account = [saved.account EXCEPT ![a] = new]
        /\ Slots(new) = call.accountLen
  <2> HIDE DEF free
  <2>1. /\ Slots(new) = Slots(bare) + free
        /\ new = [bare EXCEPT !.room = free]
    <3>1. \A immutable \in BOOLEAN :
              /\ Slots(NewAccount(m, conf, w, immutable, free))
                     = Slots(NewAccount(m, conf, w, immutable, 0)) + free
              /\ NewAccount(m, conf, w, immutable, free)
                     = WithRoom(NewAccount(m, conf, w, immutable, 0), free)
      <4> HIDE DEF m, w
      <4>1. m \in Mints /\ conf \in MintState /\ w \in Wallets /\ free \in Rooms
        BY <1>1, <1>6, <1>8
      <4>2. QED  BY ONLY <4>1, RoomOfNew
    <3>2. QED  BY <3>1 DEF WithRoom
  <2> HIDE DEF bare, new
  <2>2. new = [bare EXCEPT !.memo = FALSE, !.room = free]
    BY <1>8, <2>1 DEF AccountState
  <2>3. Slots(new) = call.accountLen
    BY <1>1, <1>8, <2>1, BoundsAreNatural DEF free, Rooms
  <2>4. QED  BY <1>7, <2>2, <2>3
<1>10. /\ saved.lamports[m] = 0 /\ saved.lamports[a] = 0
       /\ saved.lamports[p] >= Rent(slots) + Rent(Slots(new))
       /\ lamports = [saved.lamports EXCEPT
              ![p] = @ - (Rent(slots) + Rent(Slots(new))),
              ![m] = Rent(slots), ![a] = Rent(Slots(new))]
  <2> DEFINE mintRent == Rent(slots)
             accountRent == Rent(call.accountLen)
  <2>1. /\ saved.lamports[m] = 0 /\ saved.lamports[a] = 0
        /\ saved.lamports[p] >= mintRent + accountRent
        /\ lamports = [x \in Addresses |->
               IF x = m THEN mintRent
               ELSE IF x = a THEN accountRent
               ELSE IF x = p THEN saved.lamports[x] - (mintRent + accountRent)
               ELSE saved.lamports[x]]
    BY <1>2, <1>3, <1>5 DEF Creating, RentSpent
  <2>2. saved.lamports \in [Addresses -> Nat]
    BY CommitFacts, SavedTypes
  <2> HIDE DEF mintRent, accountRent
  <2>3. lamports = [saved.lamports EXCEPT ![p] = @ - (mintRent + accountRent),
                        ![m] = mintRent, ![a] = accountRent]
    BY <1>1, <2>1, <2>2, DistinctAddresses
  <2>4. accountRent = Rent(Slots(new))  BY <1>9 DEF accountRent
  <2>5. QED  BY <2>1, <2>3, <2>4 DEF mintRent
<1>11. Committed!CreateMintAndAccount(m, a, p, w, slots, conf, free)
  <2>1. /\ ~Committed!Live(m) /\ ~Committed!Open(a)
        /\ Committed!CreateTwoAccounts(p, m, Rent(slots), a, Rent(Slots(new)))
        /\ Committed!InitializeMint(m, conf)
        /\ Committed!InitializeAccount(a, new)
        /\ Committed!Signed({p, w})
    BY <1>1, <1>2, <1>3, <1>5, <1>9, <1>10, CommitFacts, CommittedCalls
  <2>2. /\ Committed!NewAccount(m, conf, w, TRUE, free) = new
        /\ Committed!Rent(slots) = Rent(slots)
        /\ Committed!Rent(Committed!Slots(new)) = Rent(Slots(new))
    BY SameConstants
  <2> HIDE DEF new, free
  <2>3. QED
    BY <1>2, <1>5, <2>1, <2>2, CommitFacts
    DEF Committed!CreateMintAndAccount, Visible
<1>12. \/ Committed!ImmutableOwner(m, a, p, w, free)
       \/ Committed!NonTransferableToken(m, a, p, w, free)
  <2>0. \A x : Committed!PlainMint(x) = PlainMint(x)  BY SameConstants
  <2>1. CASE op = "immutable_owner"
    <3>1. conf = PlainMint(w) /\ slots = 0
      BY <1>1, <2>1, ExtendedMints DEF conf, extensions, slots
    <3> HIDE DEF free
    <3>2. QED  BY <1>11, <2>0, <3>1 DEF Committed!ImmutableOwner
  <2>2. CASE op = "non_transferable_token"
    <3>1. conf = [PlainMint(w) EXCEPT !.nonTransferable = TRUE] /\ slots = 1
      BY <1>1, <2>2, ExtendedMints DEF conf, extensions, slots
    <3> HIDE DEF free
    <3>2. QED  BY <1>11, <2>0, <3>1 DEF Committed!NonTransferableToken
  <2>3. QED  BY <2>1, <2>2 DEF MintAndAccountKinds
<1>13. Committed!CreateMintStep
  <2>1. Committed!Rooms = Rooms  BY SameConstants
  <2> HIDE DEF free
  <2>2. QED  BY <1>1, <1>8, <1>12, <2>1 DEF Committed!CreateMintStep
<1>14. QED  BY <1>13 DEF Committed!Next
\* The handlers that create a token account.
LEMMA CommitTokenAccount ==
    ASSUME CpiInv, Commit, call.op \in TokenAccountKinds
    PROVE  Committed!Next
<1>0. PICK memo \in BOOLEAN : memo = (call.op = "enable_memo")  OBVIOUS
<1> DEFINE m == call.m
           a == call.a
           p == call.p
           w == call.w
           op == call.op
           names == CallsOf(op)
           conf == saved.mint[m]
           bare == NewAccount(m, conf, w, FALSE, 0)
           free == call.accountLen - Slots(bare)
           new == NewAccount(m, conf, w, FALSE, free)
           made == [new EXCEPT !.memo = memo,
                               !.room = IF memo THEN @ - 1 ELSE @]
<1>1. /\ m \in Mints /\ p \in Wallets /\ w \in Wallets /\ a \in KeyAccounts
      /\ call.accountLen \in Rooms
      /\ conf # Absent /\ saved.account[a] = Absent
      /\ op = "initialize_token_account_with" => conf.authority = w
      /\ Signers = {p, w}
  BY CommitFacts, LengthsFitRooms
  DEF Calls, Begun, Signers, ExtensionKinds, MintAndAccountKinds,
      TokenAccountKinds, TransferKinds
<1>2. /\ Creating(names) /\ metaLists = saved.metaLists
      /\ tx = [signers |-> {p, w}, memo |-> "build_memo" \in names]
  BY <1>1, CommitFacts, AllCallsMade DEF CreatingKinds
<1>3. /\ "create_mint" \notin names /\ "initialize_mint2" \notin names
      /\ "create_account" \in names
      /\ "initialize_account3" \in names
      /\ "initialize_immutable_owner" \notin names
      /\ ("enable_required_transfer_memos" \in names) = memo
      /\ ("build_memo" \in names) = FALSE
  <2>1. CASE op = "enable_memo"
    <3>1. names = {"create_account", "initialize_account3",
                   "enable_required_transfer_memos"}
      BY <2>1 DEF CallsOf, ExtensionKinds
    <3>2. memo = TRUE  BY <1>0, <2>1
    <3> HIDE DEF names
    <3>3. /\ ("enable_required_transfer_memos" \in names) = TRUE
          /\ ("build_memo" \in names) = FALSE
      BY <3>1
    <3>4. QED  BY <3>1, <3>2, <3>3
  <2>2. CASE op = "initialize_token_account_with"
    <3>1. names = {"create_account", "initialize_account3"}
      BY <2>2 DEF CallsOf, ExtensionKinds
    <3>2. memo = FALSE  BY <1>0, <2>2
    <3>3. QED  BY <2>2, <3>1, <3>2
  <2>3. QED  BY <2>1, <2>2 DEF TokenAccountKinds
<1>4. (AccountExtensions(names) # {}) = FALSE
  BY <1>3 DEF AccountExtensions
<1> HIDE DEF names
<1>5. /\ mint = saved.mint /\ supply = saved.supply
      /\ feePool = saved.feePool
      /\ amount = saved.amount /\ withheld = saved.withheld
  BY <1>2, <1>3 DEF Creating, MintMade
<1>6. conf \in MintState
  BY <1>1, CommitFacts, SavedTypes
<1>7. /\ free >= 0 /\ (memo => free > 0)
      /\ account = [saved.account EXCEPT ![a] =
                        [bare EXCEPT !.memo = memo,
                                     !.room = IF memo THEN free - 1 ELSE free]]
  BY <1>2, <1>3, <1>4, <1>5 DEF Creating, AccountMade
<1> HIDE DEF conf, m, w
<1>8. /\ bare \in AccountState /\ Slots(bare) \in Nat
      /\ free \in Rooms /\ bare.memo = FALSE /\ bare.room = 0
  <2>1. bare \in AccountState
    <3>1. 0 \in Rooms  BY BoundsAreNatural DEF Rooms
    <3>2. \A immutable \in BOOLEAN :
              NewAccount(m, conf, w, immutable, 0) \in AccountState
      BY <1>1, <1>6, <3>1, NewAccountType
    <3>3. QED  BY <3>2
  <2>2. bare.room = 0 /\ bare.memo = FALSE  BY DEF NewAccount
  <2> HIDE DEF bare
  <2>3. Slots(bare) \in Nat  BY <2>2, SlotsNat
  <2>4. QED
    BY <1>1, <1>7, <2>1, <2>2, <2>3, BoundsAreNatural DEF Rooms
<1>9. account = [saved.account EXCEPT ![a] = made]
        /\ Slots(new) = call.accountLen
  <2> HIDE DEF free
  <2>1. /\ Slots(new) = Slots(bare) + free
        /\ new = [bare EXCEPT !.room = free]
    <3>1. \A immutable \in BOOLEAN :
              /\ Slots(NewAccount(m, conf, w, immutable, free))
                     = Slots(NewAccount(m, conf, w, immutable, 0)) + free
              /\ NewAccount(m, conf, w, immutable, free)
                     = WithRoom(NewAccount(m, conf, w, immutable, 0), free)
      <4>1. m \in Mints /\ conf \in MintState /\ w \in Wallets /\ free \in Rooms
        BY <1>1, <1>6, <1>8
      <4>2. QED  BY ONLY <4>1, RoomOfNew
    <3>2. QED  BY <3>1 DEF WithRoom
  <2>2. PICK left : left = IF memo THEN free - 1 ELSE free  OBVIOUS
  <2> HIDE DEF bare
  <2>3. new.room = free /\ new \in AccountState
    <3> HIDE DEF new
    <3>1. QED  BY <1>8, <2>1 DEF AccountState
  <2>4. made = [bare EXCEPT !.memo = memo, !.room = left]
    <3>1. made = [new EXCEPT !.memo = memo, !.room = left]
      BY <2>2, <2>3
    <3>2. left \in Rooms
      BY <1>7, <1>8, <2>2, BoundsAreNatural DEF Rooms
    <3> HIDE DEF made, new
    <3>3. QED
      BY <1>0, <1>8, <2>1, <3>1, <3>2 DEF AccountState
  <2>5. account = [saved.account EXCEPT ![a] = made]
    <3> HIDE DEF made, new
    <3>1. QED  BY <1>7, <2>2, <2>4
  <2>6. Slots(new) = call.accountLen
    <3> HIDE DEF made, new
    <3>1. QED  BY <1>1, <1>8, <2>1, BoundsAreNatural DEF free, Rooms
  <2>7. QED  BY <2>5, <2>6
<1>10. /\ saved.lamports[a] = 0 /\ saved.lamports[p] >= Rent(Slots(new))
       /\ lamports = [saved.lamports EXCEPT ![p] = @ - Rent(Slots(new)),
                                            ![a] = Rent(Slots(new))]
  <2> DEFINE accountRent == Rent(call.accountLen)
  <2>1. /\ saved.lamports[a] = 0
        /\ saved.lamports[p] >= 0 + accountRent
        /\ lamports = [x \in Addresses |->
               IF x = a THEN accountRent
               ELSE IF x = p THEN saved.lamports[x] - (0 + accountRent)
               ELSE saved.lamports[x]]
    BY <1>2, <1>3 DEF Creating, RentSpent
  <2>2. accountRent \in Nat  BY <1>1, BoundsAreNatural DEF Rent, Rooms
  <2>3. a # p /\ a \in Addresses  BY <1>1, DistinctAddresses
  <2>4. 0 + accountRent = accountRent  BY <2>2
  <2> HIDE DEF accountRent, a, p
  <2>5. lamports = [saved.lamports EXCEPT ![p] = @ - accountRent,
                                          ![a] = accountRent]
    BY <1>1, <2>1, <2>2, <2>3, <2>4, CommitFacts, RentForOne
  <2>6. accountRent = Rent(Slots(new))  BY <1>9 DEF accountRent
  <2>7. QED  BY <2>1, <2>4, <2>5, <2>6
<1>11. Committed!CreateTokenAccount(a, m, p, w, free, memo)
  <2>1. /\ Committed!Live(m) /\ ~Committed!Open(a)
        /\ Committed!CreateAccount(p, a, Rent(Slots(new)))
        /\ Committed!InitializeAccount(a, made)
        /\ Committed!Signed({p, w})
    <3> HIDE DEF made, new, free
    <3>1. QED
      BY <1>1, <1>2, <1>3, <1>9, <1>10, CommitFacts, CommittedCalls DEF conf
  <2>2. /\ Committed!NewAccount(m, conf, w, FALSE, free) = new
        /\ Committed!Rent(Committed!Slots(new)) = Rent(Slots(new))
    BY SameConstants
  <2>3. memo => free > 0  BY <1>7
  <2>4. Visible(mint, saved.mint)[m] = conf  BY CommitFacts DEF Visible, conf
  <2>5. /\ Visible(mint, saved.mint)' = Visible(mint, saved.mint)
        /\ Visible(supply, saved.supply)' = Visible(supply, saved.supply)
        /\ Visible(feePool, saved.feePool)' = Visible(feePool, saved.feePool)
        /\ Visible(amount, saved.amount)' = Visible(amount, saved.amount)
        /\ Visible(withheld, saved.withheld)' = Visible(withheld, saved.withheld)
        /\ Visible(metaLists, saved.metaLists)'
              = Visible(metaLists, saved.metaLists)
    BY <1>2, <1>5, CommitFacts DEF Visible
  <2> HIDE DEF new, free
  <2>6. QED
    BY <2>1, <2>2, <2>3, <2>4, <2>5
    DEF Committed!CreateTokenAccount, Committed!ledger
<1>12. \/ Committed!EnableMemo(a, m, p, w, free)
       \/ Committed!InitializeTokenAccountWith(a, m, p, w, free)
  <2> HIDE DEF free
  <2>1. CASE op = "enable_memo"
    <3>1. memo = TRUE  BY <1>0, <2>1
    <3>2. QED  BY <1>11, <3>1 DEF Committed!EnableMemo
  <2>2. CASE op = "initialize_token_account_with"
    <3>1. memo = FALSE  BY <1>0, <2>2
    <3>2. Committed!Live(m)  BY <1>1, CommitFacts, CommittedCalls DEF conf
    <3>3. Visible(mint, saved.mint)[m].authority = w
      BY <1>1, <2>2, CommitFacts DEF Visible, conf
    <3>4. QED
      BY <1>11, <3>1, <3>2, <3>3 DEF Committed!InitializeTokenAccountWith
  <2>3. QED  BY <2>1, <2>2 DEF TokenAccountKinds
<1>13. Committed!AccountStep
  <2>1. Committed!Rooms = Rooms  BY SameConstants
  <2> HIDE DEF free
  <2>2. QED  BY <1>1, <1>8, <1>12, <2>1 DEF Committed!AccountStep
<1>14. QED  BY <1>13 DEF Committed!Next

\* realloc, whose slot is used when the handler is done.
LEMMA CommitRealloc ==
    ASSUME CpiInv, Commit, call.op = "realloc"
    PROVE  Committed!Next
<1> DEFINE a == call.a
           p == call.p
           w == call.w
           old == saved.account[a]
           names == {"reallocate", "enable_required_transfer_memos"}
<1>1. /\ a \in Accounts /\ p \in Wallets /\ w \in Wallets
      /\ saved.account \in [Accounts -> AccountState \cup {Absent}]
      /\ old \in AccountState /\ old.room \in Nat
  BY CommitFacts, ReallocArgs
<1>2. old # Absent /\ Signers = {p, w}
  BY CommitFacts DEF Begun, Signers, TransferKinds
<1>3. CallsOf(call.op) = names  BY DEF CallsOf, ExtensionKinds
<1>4. ("build_memo" \in names) = FALSE  OBVIOUS
<1>5. /\ Reallocating(names) /\ metaLists = saved.metaLists
      /\ tx = [signers |-> {p, w}, memo |-> FALSE]
  BY <1>2, <1>3, <1>4, CommitFacts, AllCallsMade
<1>6. /\ SlotPaid /\ old.owner = w
      /\ account = IF old.memo THEN saved.account
                   ELSE [saved.account EXCEPT ![a].memo = TRUE,
                            ![a].room = (IF NeedsSlot(a) THEN 1 ELSE old.room) - 1]
      /\ mint = saved.mint /\ supply = saved.supply /\ feePool = saved.feePool
      /\ amount = saved.amount /\ withheld = saved.withheld
  BY <1>5 DEF Reallocating
<1>7. \/ old.memo /\ account = saved.account /\ lamports = saved.lamports
      \/ /\ ~old.memo /\ old.room > 0
         /\ account = [saved.account EXCEPT ![a].memo = TRUE, ![a].room = @ - 1]
         /\ lamports = saved.lamports
      \/ /\ ~old.memo /\ old.room = 0
         /\ saved.lamports[p] > 0
         /\ lamports = [saved.lamports EXCEPT ![p] = @ - 1, ![a] = @ + 1]
         /\ account = [saved.account EXCEPT ![a].memo = TRUE]
  <2>1. CASE old.memo
    BY <1>6, <2>1 DEF SlotPaid, NeedsSlot
  <2>2. CASE ~old.memo /\ old.room > 0
    <3>1. ~NeedsSlot(a)  BY <1>1, <2>2 DEF NeedsSlot
    <3>2. lamports = saved.lamports  BY <1>6, <3>1 DEF SlotPaid
    <3>3. account = [saved.account EXCEPT ![a].memo = TRUE,
                                          ![a].room = old.room - 1]
      BY <1>6, <2>2, <3>1
    <3>4. account = [saved.account EXCEPT ![a].memo = TRUE, ![a].room = @ - 1]
      BY <3>3
    <3>5. QED  BY <2>2, <3>2, <3>4
  <2>3. CASE ~old.memo /\ old.room = 0
    <3>1. NeedsSlot(a)  BY <2>3 DEF NeedsSlot
    <3>2. /\ saved.lamports[p] > 0
          /\ lamports = [saved.lamports EXCEPT ![p] = @ - 1, ![a] = @ + 1]
      BY <1>6, <3>1 DEF SlotPaid
    <3>3. account = [saved.account EXCEPT ![a].memo = TRUE, ![a].room = 1 - 1]
      BY <1>6, <2>3, <3>1
    <3>4. [old EXCEPT !.memo = TRUE, !.room = 1 - 1] = [old EXCEPT !.memo = TRUE]
      <4> DEFINE after == [old EXCEPT !.memo = TRUE]
      <4> HIDE DEF old
      <4>1. after \in AccountState /\ after.room = 0
        BY <1>1, <2>3 DEF AccountState
      <4>2. 1 - 1 = 0  OBVIOUS
      <4> HIDE DEF after
      <4>3. [after EXCEPT !.room = 1 - 1] = after
        BY <4>1, <4>2 DEF AccountState
      <4>4. QED  BY <4>3 DEF after
    <3>5. account = [saved.account EXCEPT ![a].memo = TRUE]
      <4> DEFINE after == [old EXCEPT !.memo = TRUE]
      <4>1. account = [saved.account EXCEPT ![a] =
                           [old EXCEPT !.memo = TRUE, !.room = 1 - 1]]
        BY <3>3
      <4>2. account = [saved.account EXCEPT ![a] = after]
        BY <3>4, <4>1
      <4>3. QED  BY <4>2
    <3>6. QED  BY <2>3, <3>2, <3>5
  <2>4. QED  BY <1>1, <2>1, <2>2, <2>3
<1>8. Committed!Realloc(a, p, w)
  <2>1. Committed!Open(a) /\ Committed!Signed({p, w})
    BY <1>2, <1>5, CommitFacts, CommittedCalls
  <2>2. QED
    BY <1>5, <1>6, <1>7, <2>1, CommitFacts
    DEF Committed!Realloc, Committed!ledger, Visible
<1>9. Committed!AccountStep
  <2>1. Committed!Accounts = Accounts  BY SameConstants
  <2>2. QED  BY <1>1, <1>8, <2>1 DEF Committed!AccountStep
<1>10. QED  BY <1>9 DEF Committed!Next

\* A transfer that Token-2022 accepted in its place is one of Committed.
LEMMA CommitTransfer ==
    ASSUME CpiInv, Commit, call.op \in TransferKinds,
           NEW memo \in BOOLEAN, tx.memo = memo, Transferred,
           supply = saved.supply, feePool = saved.feePool
    PROVE  Committed!TransferChecked(call.m, call.from, call.to, call.w, call.n,
                                     memo, FALSE)
<1> DEFINE m == call.m
           from == call.from
           to == call.to
           n == call.n
           fee == Fee(saved.mint[m], n)
<1>1. Committed!TransferAllowed(m, from, to, call.w, n, memo)
  BY DEF Transferred
<1>2. Committed!Fee(saved.mint[m], n) = fee  BY SameConstants
<1>3. \/ from = to /\ amount = saved.amount /\ withheld = saved.withheld
      \/ /\ from # to
         /\ fee <= n
         /\ saved.amount[to] + (n - fee) <= MaxU64
         /\ saved.withheld[to] + fee <= MaxU64
         /\ Committed!AcceptsFee(to, fee)
         /\ Committed!AcceptsHook(m, from, to, FALSE)
         /\ amount = [saved.amount EXCEPT ![from] = @ - n, ![to] = @ + (n - fee)]
         /\ withheld = [saved.withheld EXCEPT ![to] = @ + fee]
  BY DEF Transferred
<1> HIDE DEF fee
<1>4. /\ Visible(mint, saved.mint) = saved.mint
      /\ Visible(amount, saved.amount) = saved.amount
      /\ Visible(withheld, saved.withheld) = saved.withheld
      /\ Visible(supply, saved.supply) = saved.supply
      /\ Visible(feePool, saved.feePool) = saved.feePool
      /\ Visible(amount, saved.amount)' = amount
      /\ Visible(withheld, saved.withheld)' = withheld
      /\ Visible(supply, saved.supply)' = supply
      /\ Visible(feePool, saved.feePool)' = feePool
  BY CommitFacts DEF Visible
<1>5. QED
  BY <1>1, <1>2, <1>3, <1>4 DEF Committed!TransferChecked

\* The transfer with a memo before it, and the one with a toll.
LEMMA CommitTransfers ==
    ASSUME CpiInv, Commit, call.op \in TransferKinds
    PROVE  Committed!Next
<1> DEFINE m == call.m
           from == call.from
           to == call.to
           w == call.w
           n == call.n
           names == CallsOf(call.op)
<1>1. /\ m \in Mints /\ w \in Wallets /\ n \in U64
      /\ from \in Accounts /\ to \in Accounts
      /\ call.op = "transfer_token" => call.badWallet \in Wallets
      /\ saved.mint[m] # Absent /\ n > 0 /\ Signers = {w}
  BY CommitFacts, TransferArgs DEF Begun, Signers
<1>2. /\ Transferring(names) /\ metaLists = saved.metaLists
      /\ tx = [signers |-> {w}, memo |-> "build_memo" \in names]
  BY <1>1, CommitFacts, AllCallsMade
<1>3. /\ Committed!U64 = U64 /\ Committed!Accounts = Accounts
      /\ Committed!Ata(w, m) = Ata(w, m)
  BY SameConstants
<1>4. CASE call.op = "memo_transfer"
  <2>1. names = {"build_memo", "transfer_checked"}
    BY <1>4 DEF CallsOf, ExtensionKinds
  <2>2. "transfer_sol" \notin names /\ "transfer_checked" \in names
          /\ ("build_memo" \in names) = TRUE
    BY <2>1
  <2>3. from = Ata(w, m)  BY <1>4, CommitFacts DEF Begun
  <2> HIDE DEF names
  <2>4. /\ Transferred /\ lamports = saved.lamports
        /\ mint = saved.mint /\ account = saved.account
        /\ supply = saved.supply /\ feePool = saved.feePool
    BY <1>2, <2>2 DEF Transferring
  <2>5. Committed!TransferChecked(m, from, to, w, n, TRUE, FALSE)
    <3>1. tx.memo = TRUE  BY <1>2, <2>2
    <3>2. QED  BY <2>4, <3>1, CommitTransfer
  <2>6. Committed!Live(m) /\ Committed!SignedWithMemo({w})
    BY <1>1, <1>2, <2>2, CommitFacts, CommittedCalls
  <2>7. Committed!MemoTransfer(m, w, to, n)
    BY <1>1, <1>2, <1>3, <2>3, <2>4, <2>5, <2>6, CommitFacts
    DEF Committed!MemoTransfer, Visible
  <2>8. QED  BY <1>1, <1>3, <2>7 DEF Committed!TokenStep, Committed!Next
<1>5. CASE call.op = "transfer_token"
  <2>1. names = {"transfer_sol", "transfer_checked"}
    BY <1>5 DEF CallsOf, ExtensionKinds
  <2>2. "transfer_sol" \in names /\ "transfer_checked" \in names
          /\ ("build_memo" \in names) = FALSE
    BY <2>1
  <2>3. saved.account[from] # Absent /\ saved.account[from].owner = w
    BY <1>5, CommitFacts DEF Begun
  <2> HIDE DEF names
  <2>4. /\ Transferred
        /\ saved.lamports[w] >= SolToll
        /\ lamports = [[saved.lamports EXCEPT ![w] = @ - SolToll]
                          EXCEPT ![call.badWallet] = @ + SolToll]
        /\ mint = saved.mint /\ account = saved.account
        /\ supply = saved.supply /\ feePool = saved.feePool
    BY <1>2, <2>2 DEF Transferring
  <2>5. Committed!TransferChecked(m, from, to, w, n, FALSE, FALSE)
    <3>1. tx.memo = FALSE  BY <1>2, <2>2
    <3>2. QED  BY <2>4, <3>1, CommitTransfer
  <2>6. Committed!Live(m) /\ Committed!Signed({w}) /\ Committed!Open(from)
    BY <1>1, <1>2, <2>2, <2>3, CommitFacts, CommittedCalls
  <2>7. Committed!TransferSol(w, call.badWallet, SolToll)
    BY <2>4, CommitFacts DEF Committed!TransferSol, Visible
  <2>8. Committed!TransferToken(m, from, to, w, call.badWallet, n)
    BY <1>1, <1>2, <2>3, <2>4, <2>5, <2>6, <2>7, CommitFacts
    DEF Committed!TransferToken, Visible
  <2>9. QED  BY <1>1, <1>3, <1>5, <2>8 DEF Committed!TokenStep, Committed!Next
<1>6. QED  BY <1>4, <1>5 DEF TransferKinds

\* Whatever the handler.
LEMMA CommitIsStep ==
    ASSUME CpiInv, Commit
    PROVE  Committed!Next
<1>1. call \in Calls  BY CommitFacts
<1>2. QED
  BY <1>1, KindsOfCalls, CommitExtensionMint, CommitMintAndAccount,
     CommitTokenAccount, CommitRealloc, CommitTransfers
  DEF CreatingKinds, TransferKinds

\* The lists of calls are not empty.
LEMMA ListsAreNotEmpty ==
    <<>> \notin {ExtensionMintCpis, ImmutableOwnerCpis, NonTransferableTokenCpis,
                 EnableMemoCpis, TokenAccountCpis, ReallocCpis, MemoTransferCpis,
                 TransferTokenCpis}
<1>1. /\ Len(ExtensionMintCpis) = 3 /\ Len(EnableMemoCpis) = 3
      /\ Len(ImmutableOwnerCpis) = 5 /\ Len(NonTransferableTokenCpis) = 6
      /\ Len(TokenAccountCpis) = 2 /\ Len(ReallocCpis) = 2
      /\ Len(MemoTransferCpis) = 2 /\ Len(TransferTokenCpis) = 2
  BY DEF ExtensionMintCpis, ImmutableOwnerCpis, NonTransferableTokenCpis,
         EnableMemoCpis, TokenAccountCpis, ReallocCpis, MemoTransferCpis,
         TransferTokenCpis
<1>2. Len(<<>>) = 0  OBVIOUS
<1>3. QED  BY <1>1, <1>2

\* A handler that starts has saved what the others see, and moved no token.
LEMMA BeginSaves ==
    ASSUME BeginCall
    PROVE  /\ call = Idle /\ todo' # <<>>
           /\ saved' = [mint |-> mint, account |-> account, supply |-> supply,
                        feePool |-> feePool, amount |-> amount,
                        withheld |-> withheld, lamports |-> lamports,
                        metaLists |-> metaLists, tx |-> tx]
           /\ UNCHANGED <<mint, account, ledger>>
<1> DEFINE Lists == {ExtensionMintCpis, ImmutableOwnerCpis,
                     NonTransferableTokenCpis, EnableMemoCpis, TokenAccountCpis,
                     ReallocCpis, MemoTransferCpis, TransferTokenCpis}
<1>1. \E cpis \in Lists : \E c, signers : Begin(c, cpis, signers)
  <2>1. ASSUME NEW op, NEW m, NEW p, NEW w, NEW len,
               BeginExtensionMint(op, m, p, w, len)
        PROVE  \E cpis \in Lists : \E c, signers : Begin(c, cpis, signers)
    BY <2>1 DEF BeginExtensionMint
  <2>2. ASSUME NEW op, NEW cpis \in Lists, NEW m, NEW a, NEW p, NEW w, NEW len,
               NEW accountLen,
               BeginMintAndAccount(op, cpis, m, a, p, w, len, accountLen)
        PROVE  \E list \in Lists : \E c, signers : Begin(c, list, signers)
    BY <2>2 DEF BeginMintAndAccount
  <2>3. ASSUME NEW op, NEW cpis \in Lists, NEW m, NEW a, NEW p, NEW w, NEW len,
               BeginTokenAccount(op, cpis, a, m, p, w, len)
        PROVE  \E list \in Lists : \E c, signers : Begin(c, list, signers)
    BY <2>3 DEF BeginTokenAccount
  <2>4. ASSUME NEW a, NEW p, NEW w, BeginRealloc(a, p, w)
        PROVE  \E cpis \in Lists : \E c, signers : Begin(c, cpis, signers)
    BY <2>4 DEF BeginRealloc
  <2>5. ASSUME NEW m, NEW w, NEW to, NEW n, BeginMemoTransfer(m, w, to, n)
        PROVE  \E cpis \in Lists : \E c, signers : Begin(c, cpis, signers)
    BY <2>5 DEF BeginMemoTransfer
  <2>6. ASSUME NEW m, NEW from, NEW to, NEW w, NEW badWallet, NEW n,
               BeginTransferToken(m, from, to, w, badWallet, n)
        PROVE  \E cpis \in Lists : \E c, signers : Begin(c, cpis, signers)
    BY <2>6 DEF BeginTransferToken
  <2>7. /\ ImmutableOwnerCpis \in Lists /\ NonTransferableTokenCpis \in Lists
        /\ EnableMemoCpis \in Lists /\ TokenAccountCpis \in Lists
    OBVIOUS
  <2> HIDE DEF Lists
  <2>8. QED
    BY <2>1, <2>2, <2>3, <2>4, <2>5, <2>6, <2>7
    DEF BeginCall, BeginImmutableOwner, BeginNonTransferableToken,
        BeginEnableMemo, BeginInitializeTokenAccountWith
<1>2. <<>> \notin Lists  BY ListsAreNotEmpty
<1> HIDE DEF Lists
<1>3. QED  BY <1>1, <1>2 DEF Begin

\* Before it commits, a handler is invisible, and so is one that fails.
LEMMA OthersStutter ==
    ASSUME CpiInv, BeginCall \/ CallNext \/ Refused \/ OutOfCompute
    PROVE  UNCHANGED Committed!vars
<1>1. CASE BeginCall
  <2>1. CpiInv'  BY <1>1, BeginCallKeeps
  <2>2. call = Idle /\ call' # Idle  BY <1>1, <2>1, BeginSaves DEF CpiInv
  <2>3. /\ saved'.mint = mint /\ saved'.account = account
        /\ saved'.supply = supply /\ saved'.feePool = feePool
        /\ saved'.amount = amount /\ saved'.withheld = withheld
        /\ saved'.lamports = lamports /\ saved'.metaLists = metaLists
        /\ saved'.tx = tx
    BY <1>1, BeginSaves
  <2>4. QED  BY <2>2, <2>3 DEF Committed!vars, Visible
<1>2. CASE CallNext
  <2>1. call # Idle /\ call' = call /\ saved' = saved  BY <1>2 DEF CallNext
  <2>2. QED  BY <2>1 DEF Committed!vars, Visible
<1>3. CASE Refused \/ OutOfCompute
  <2>1. call # Idle /\ Rollback
    BY <1>3, RefusedRollsBack DEF OutOfCompute
  <2>2. call' = Idle  BY <2>1 DEF Rollback
  <2>3. QED  BY <2>1, <2>2 DEF Committed!vars, Visible, Rollback
<1>4. QED  BY <1>1, <1>2, <1>3

\* THEOREM: whoever looks at the accounts between two transactions sees every
\* handler as one step of TokenExtension, or as none.
THEOREM HandlersAlwaysAtomic == CpiSpec => HandlersAreAtomic
<1>1. CpiInit => Committed!Init
  BY SameConstants
  DEF CpiInit, Init, Committed!Init, Visible, Addresses, Committed!Addresses
<1>2. CpiInv /\ [CpiNext]_<<vars, cpiVars>> => [Committed!Next]_(Committed!vars)
  <2> SUFFICES ASSUME CpiInv, [CpiNext]_<<vars, cpiVars>>
               PROVE  [Committed!Next]_(Committed!vars)
    OBVIOUS
  <2>1. CASE AtomicStep  BY <2>1, AtomicStepCommitted
  <2>2. CASE Commit  BY <2>2, CommitIsStep
  <2>3. CASE BeginCall \/ CallNext \/ Refused \/ OutOfCompute
    BY <2>3, OthersStutter
  <2>4. CASE UNCHANGED <<vars, cpiVars>>
    BY <2>4 DEF vars, cpiVars, Committed!vars, Visible
  <2>5. QED  BY <2>1, <2>2, <2>3, <2>4 DEF CpiNext
<1>3. QED
  BY <1>1, <1>2, CpiInvariantHolds, PTL
  DEF CpiSpec, HandlersAreAtomic, Committed!Spec

-----------------------------------------------------------------------------
(* The accounts that a handler works on keep the invariant of the ledger   *)
(* too, so that no credit of a transfer overflows.                         *)

\* Between transactions the committed ledger is the one at hand.
LEMMA SameLedger == call = Idle => (Committed!LedgerInv <=> LedgerInv)
<1> SUFFICES ASSUME call = Idle PROVE Committed!LedgerInv <=> LedgerInv
  OBVIOUS
<1>1. Committed!TypeOK <=> TypeOK
  <2>1. /\ Committed!MintState = MintState
        /\ Committed!AccountState = AccountState
        /\ Committed!Addresses = Addresses
    BY SameConstants
    DEF Committed!MintState, MintState, Committed!AccountState, AccountState,
        Committed!Addresses, Addresses, Committed!Hooks, Hooks
  <2>2. QED  BY <2>1, SameConstants DEF Committed!TypeOK, TypeOK, Visible
<1>2. /\ \A m : Committed!AccountsOf(m) = AccountsOf(m)
      /\ \A m : Committed!WithheldOf(m) = WithheldOf(m)
  <2>1. \A m : Committed!AccountsOf(m) = AccountsOf(m)
    BY SameConstants, SameChecks
    DEF Committed!AccountsOf, AccountsOf, Visible
  <2>2. QED
    BY <2>1, SameConstants DEF Committed!WithheldOf, WithheldOf, Visible
<1>3. Committed!Conserved <=> Conserved
  BY <1>2, SameConstants DEF Committed!Conserved, Conserved, Visible
<1>4. /\ Committed!UnopenedEmpty <=> UnopenedEmpty
      /\ Committed!FrozenStayEmpty <=> FrozenStayEmpty
  BY SameConstants, SameChecks
  DEF Committed!UnopenedEmpty, UnopenedEmpty, Committed!FrozenStayEmpty,
      FrozenStayEmpty, Visible
<1>5. Committed!ClosedMintsHollow <=> ClosedMintsHollow
  BY <1>2, SameChecks
  DEF Committed!ClosedMintsHollow, ClosedMintsHollow, Visible
<1>6. QED
  BY <1>1, <1>3, <1>4, <1>5 DEF Committed!LedgerInv, LedgerInv

\* The same of the state after a step.
LEMMA SameLedgerPrimed == (call = Idle => (Committed!LedgerInv <=> LedgerInv))'
BY SameLedger, PTL

\* The committed ledger is what the others see, and depends on nothing else.
LEMMA CommittedLedgerKept ==
    ASSUME Committed!LedgerInv, UNCHANGED Committed!vars
    PROVE  Committed!LedgerInv'
<1>1. Committed!TypeOK'
  BY DEF Committed!LedgerInv, Committed!vars, Committed!TypeOK
<1>2. \A m : (Committed!AccountsOf(m))' = Committed!AccountsOf(m)
  BY DEF Committed!vars, Committed!AccountsOf, Committed!Open
<1>3. Committed!Conserved'
  BY <1>2
  DEF Committed!LedgerInv, Committed!vars, Committed!Conserved,
      Committed!WithheldOf, Committed!Total
<1>4. Committed!UnopenedEmpty' /\ Committed!FrozenStayEmpty'
  BY DEF Committed!LedgerInv, Committed!vars, Committed!UnopenedEmpty,
         Committed!FrozenStayEmpty, Committed!Open
<1>5. Committed!ClosedMintsHollow'
  BY <1>2
  DEF Committed!LedgerInv, Committed!vars, Committed!ClosedMintsHollow,
      Committed!Live
<1>6. QED  BY <1>1, <1>3, <1>4, <1>5 DEF Committed!LedgerInv

\* The call that a handler makes next, and the ones before it.
LEMMA CallAtHand ==
    ASSUME CpiInv, call # Idle, todo # <<>>
    PROVE  \E k \in 0 .. Len(CpisOf(call.op)) :
               /\ Underway(k)
               /\ k + 1 \in 0 .. Len(CpisOf(call.op))
               /\ Head(todo) = CpisOf(call.op)[k + 1]
               /\ Head(todo) \in CallsOf(call.op)
               /\ Done(CpisOf(call.op), k) \subseteq CallsOf(call.op)
<1> DEFINE cpis == CpisOf(call.op)
           names == CallsOf(call.op)
<1>1. call \in Calls  BY DEF CpiInv
<1>2. IsCallList(cpis, names)  BY <1>1, CpisAreLists
<1>3. PICK k \in 0 .. Len(cpis) : Underway(k)  BY DEF CpiInv
<1>4. todo = ToCall(cpis, k)  BY <1>3 DEF Underway
<1>5. /\ k + 1 \in 0 .. Len(cpis)
      /\ Head(todo) = cpis[k + 1] /\ Head(todo) \in names
      /\ Done(cpis, k) \subseteq names
  <2> HIDE DEF cpis, names
  <2>1. QED  BY <1>2, <1>3, <1>4, NextCall, DoneIsListed
<1>6. QED  BY <1>3, <1>5

\* The accounts of a handler that creates some, before its next call.
LEMMA ReadyAtHand ==
    ASSUME CpiInv, call # Idle, call.op \in CreatingKinds,
           NEW k, Underway(k),
           NEW names, names = CallsOf(call.op),
           NEW done, done = Done(CpisOf(call.op), k), done \subseteq names
    PROVE  Ready(names, done)
<1>1. /\ call \in Calls /\ saved \in SavedState /\ Begun /\ TypeOK
      /\ Creating(done)
  BY DEF CpiInv, Underway
<1>2. QED  BY <1>1, CreationArgsFit DEF Ready

\* Only these handlers create accounts.
LEMMA OnlyCreatingCalls ==
    ASSUME call \in Calls, NEW name \in CallsOf(call.op),
           name \in MintCalls \cup (AccountCalls
                       \ {"enable_required_transfer_memos"})
    PROVE  call.op \in CreatingKinds
<1>1. call.op \notin {"realloc", "memo_transfer", "transfer_token"}
  BY DEF CallsOf, MintCalls, AccountCalls, ExtensionKinds
<1>2. QED  BY <1>1, KindsOfCalls DEF TransferKinds

\* A call that touches neither mints nor token accounts.
LEMMA UntouchedKeepsLedger ==
    ASSUME LedgerInv, TypeOK', UNCHANGED <<mint, account, ledger>>
    PROVE  LedgerInv'
<1>1. Quiet  BY DEF Quiet, Open, Live
<1>2. QED  BY <1>1, QuietKeepsInv

\* initialize_mint2 makes a mint where none was live.
LEMMA InitializeMint2KeepsLedger ==
    ASSUME LedgerInv, TypeOK', NEW names, NEW done, Ready(names, done),
           "initialize_mint2" \in names, InitializeMint2(call.m, call.w)
    PROVE  LedgerInv'
<1>1. call.m \in Mints  BY DEF Ready, CreationArgs, MintCalls
<1>2. /\ raw[call.m] # Absent
      /\ UNCHANGED <<account, amount, withheld>>
      /\ InitializeMint(call.m, ExtendedMint(call.w, raw[call.m].extensions))
  BY DEF InitializeMint2, CanMakeMint
<1>3. RawMint(done) /\ saved.mint[call.m] = Absent  BY <1>1, <1>2, RawMintAt
<1>4. ~Live(call.m)
  BY <1>3 DEF Ready, Creating, MintMade, RawMint, Live
<1>5. /\ UNCHANGED ledger
      /\ \A q \in Mints : mint'[q] = Absent => ~Live(q)
      /\ \A q \in Mints : Live(q) => mint'[q] = mint[q]
  BY <1>1, <1>2, <1>4, InitializeMintQuiet
<1>6. Quiet  BY <1>2, <1>5 DEF Quiet, Open, Live
<1>7. QED  BY <1>6, QuietKeepsInv

\* initialize_account3 makes a token account where none was open.
LEMMA InitializeAccount3KeepsLedger ==
    ASSUME LedgerInv, TypeOK', NEW names, NEW done, Ready(names, done),
           "initialize_account3" \in names,
           InitializeAccount3(call.a, call.m, call.w)
    PROVE  LedgerInv'
<1>1. call.a \in KeyAccounts  BY DEF Ready, CreationArgs, AccountCalls
<1>2. /\ raw[call.a] # Absent /\ UNCHANGED <<mint, ledger>>
      /\ \E new : account' = [account EXCEPT ![call.a] = new]
  BY DEF InitializeAccount3, CanOpen, InitializeAccount
<1>3. RawAccount(done) /\ saved.account[call.a] = Absent
  BY <1>1, <1>2, RawAccountAt
<1>4. ~Open(call.a)
  BY <1>3 DEF Ready, Creating, AccountMade, RawAccount, Open
<1>5. \A b \in Accounts \ {call.a} : account'[b] = account[b]
  BY <1>2 DEF LedgerInv, TypeOK
<1>6. Quiet  BY <1>2, <1>4, <1>5 DEF Quiet, Open, Live
<1>7. QED  BY <1>6, QuietKeepsInv

\* What changes the memo flag or the room of an account moves no token.
LEMMA FlagsKeepLedger ==
    ASSUME LedgerInv, TypeOK', UNCHANGED <<mint, ledger>>, NEW a \in Accounts,
           Open(a), NEW memo \in BOOLEAN, NEW room \in Rooms,
           account' = [account EXCEPT ![a] =
                          [account[a] EXCEPT !.memo = memo, !.room = room]]
    PROVE  LedgerInv'
<1> DEFINE new == [account[a] EXCEPT !.memo = memo, !.room = room]
<1>1. TypeOK /\ account[a] \in AccountState
  BY DEF LedgerInv, TypeOK, Open
<1>2. new \in AccountState /\ new.mint = account[a].mint
        /\ new.frozen = account[a].frozen /\ new.feeExt = account[a].feeExt
  BY <1>1 DEF AccountState
<1> HIDE DEF new
<1>3. account' = [account EXCEPT ![a] = new]  BY DEF new
<1>4. Quiet  BY <1>1, <1>2, <1>3, AccountChangeQuiet
<1>5. QED  BY <1>4, QuietKeepsInv

\* enable_required_transfer_memos.
LEMMA EnableMemosKeepsLedger ==
    ASSUME LedgerInv, TypeOK', NEW a \in Accounts, NEW w,
           EnableRequiredMemos(a, w)
    PROVE  LedgerInv'
<1>1. Open(a) /\ UNCHANGED <<mint, ledger>>
  BY DEF EnableRequiredMemos, OwnedBy
<1>2. account[a] \in AccountState
        /\ account \in [Accounts -> AccountState \cup {Absent}]
  BY <1>1 DEF LedgerInv, TypeOK, Open
<1>3. CASE UNCHANGED account  BY <1>1, <1>3, UntouchedKeepsLedger
<1>4. CASE /\ account[a].room > 0
           /\ account' = [account EXCEPT ![a].memo = TRUE, ![a].room = @ - 1]
  <2>1. account[a].room - 1 \in Rooms
    BY <1>2, <1>4, BoundsAreNatural DEF AccountState, Rooms
  <2>2. account' = [account EXCEPT ![a] =
            [account[a] EXCEPT !.memo = TRUE, !.room = account[a].room - 1]]
    BY <1>2, <1>4
  <2> DEFINE room == account[a].room - 1
  <2> HIDE DEF room
  <2>3. room \in Rooms
          /\ account' = [account EXCEPT ![a] =
                 [account[a] EXCEPT !.memo = TRUE, !.room = room]]
    BY <2>1, <2>2 DEF room
  <2>4. QED  BY <1>1, <2>3, FlagsKeepLedger
<1>5. QED  BY <1>3, <1>4 DEF EnableRequiredMemos

\* reallocate.
LEMMA ReallocateKeepsLedger ==
    ASSUME LedgerInv, TypeOK', NEW a \in Accounts, NEW p, NEW w,
           Reallocate(a, p, w)
    PROVE  LedgerInv'
<1>1. Open(a) /\ UNCHANGED <<mint, ledger>>  BY DEF Reallocate, OwnedBy
<1>2. account[a] \in AccountState
        /\ account \in [Accounts -> AccountState \cup {Absent}]
  BY <1>1 DEF LedgerInv, TypeOK, Open
<1>3. CASE UNCHANGED account  BY <1>1, <1>3, UntouchedKeepsLedger
<1>4. CASE account' = [account EXCEPT ![a].room = 1]
  <2> DEFINE memo == account[a].memo
  <2>1. memo \in BOOLEAN /\ 1 \in Rooms
    BY <1>2, LengthsFitRooms DEF AccountState
  <2>2. [account[a] EXCEPT !.room = 1] = [account[a] EXCEPT !.memo = memo, !.room = 1]
    BY <1>2 DEF AccountState
  <2> HIDE DEF memo
  <2>3. account' = [account EXCEPT ![a] =
            [account[a] EXCEPT !.memo = memo, !.room = 1]]
    BY <1>2, <1>4, <2>2
  <2>4. QED  BY <1>1, <2>1, <2>3, FlagsKeepLedger
<1>5. QED  BY <1>3, <1>4 DEF Reallocate

\* The transfer moves tokens of its mint.
LEMMA TransferKeepsLedger ==
    ASSUME LedgerInv, TypeOK', call \in Calls, call.op \in TransferKinds,
           saved \in SavedState, Begun, mint = saved.mint, TransferTokens(call)
    PROVE  LedgerInv'
<1>1. /\ call.m \in Mints /\ call.from \in Accounts /\ call.to \in Accounts
      /\ call.n \in U64
  BY TransferArgs
<1>2. Live(call.m)  BY DEF Begun, Live
<1>3. Moves(call.m)  BY <1>1, <1>2, TransferMoves DEF TransferTokens
<1>4. QED  BY <1>1, <1>3, MovesKeepsInv

\* No call of a handler disturbs the ledger.
LEMMA CallNextKeepsLedger ==
    ASSUME CpiInv, LedgerInv, CallNext
    PROVE  LedgerInv'
<1>1. /\ call \in Calls /\ saved \in SavedState /\ Begun /\ TypeOK
      /\ call # Idle /\ todo # <<>> /\ Cpi(call, Head(todo))
  BY DEF CpiInv, CallNext
<1>2. TypeOK'  BY CallNextKeeps DEF CpiInv
<1>3. PICK k \in 0 .. Len(CpisOf(call.op)) :
          /\ Underway(k) /\ Head(todo) \in CallsOf(call.op)
          /\ Done(CpisOf(call.op), k) \subseteq CallsOf(call.op)
  BY <1>1, CallAtHand
<1>4. PICK names, done, name :
          /\ names = CallsOf(call.op) /\ done = Done(CpisOf(call.op), k)
          /\ name = Head(todo)
  OBVIOUS
<1>5. call.op \in CreatingKinds => Ready(names, done)
  BY <1>1, <1>3, <1>4, ReadyAtHand
<1>6. name \in names /\ Cpi(call, name)  BY <1>1, <1>3, <1>4
<1>7. CASE \/ name \in {"create_mint", "initialize_extension", "create_account",
                        "initialize_immutable_owner", "build_memo", "transfer_sol"}
  <2>1. UNCHANGED <<mint, account, ledger>>
    BY <1>6, <1>7
    DEF Cpi, CreateRaw, InitializeExtension, BuildMemo, PayToll, vars, ledger
  <2>2. QED  BY <1>2, <2>1, UntouchedKeepsLedger
<1>8. CASE name = "initialize_mint2"
  <2>1. InitializeMint2(call.m, call.w)  BY <1>6, <1>8 DEF Cpi
  <2>2. call.op \in CreatingKinds
    BY <1>1, <1>4, <1>6, <1>8, OnlyCreatingCalls DEF MintCalls
  <2>3. QED  BY <1>2, <1>5, <1>6, <1>8, <2>1, <2>2, InitializeMint2KeepsLedger
<1>9. CASE name = "initialize_account3"
  <2>1. InitializeAccount3(call.a, call.m, call.w)  BY <1>6, <1>9 DEF Cpi
  <2>2. call.op \in CreatingKinds
    BY <1>1, <1>4, <1>6, <1>9, OnlyCreatingCalls DEF AccountCalls
  <2>3. QED  BY <1>2, <1>5, <1>6, <1>9, <2>1, <2>2, InitializeAccount3KeepsLedger
<1>10. CASE name \in {"enable_required_transfer_memos", "reallocate"}
  <2>1. call.a \in Accounts
    <3>1. CASE call.op = "realloc"  BY <1>1, <3>1, ReallocArgs
    <3>2. CASE call.op \in CreatingKinds
      <4>1. names \cap AccountCalls # {}
        BY <1>1, <1>4, <1>6, <1>10, <3>2
        DEF CallsOf, AccountCalls, MintCalls, CreatingKinds, ExtensionKinds,
            MintAndAccountKinds, TokenAccountKinds
      <4>2. QED
        BY <1>5, <3>2, <4>1, DistinctAddresses DEF Ready, CreationArgs
    <3>3. CASE call.op \in TransferKinds
      BY <1>4, <1>6, <1>10, <3>3 DEF CallsOf, TransferKinds, ExtensionKinds
    <3>4. QED  BY <1>1, <3>1, <3>2, <3>3, KindsOfCalls DEF TransferKinds
  <2>2. \/ EnableRequiredMemos(call.a, call.w)
        \/ Reallocate(call.a, call.p, call.w)
    BY <1>6, <1>10 DEF Cpi
  <2>3. QED
    BY <1>2, <2>1, <2>2, EnableMemosKeepsLedger, ReallocateKeepsLedger
<1>11. CASE name = "transfer_checked"
  <2>1. TransferTokens(call)  BY <1>6, <1>11 DEF Cpi
  <2>2. call.op \in TransferKinds
    BY <1>1, <1>4, <1>6, <1>11, KindsOfCalls
    DEF CallsOf, TransferKinds, MintCalls, CreatingKinds, ExtensionKinds,
        MintAndAccountKinds, TokenAccountKinds
  <2>3. mint = saved.mint
    BY <1>3, <2>2 DEF Underway, Transferring
  <2>4. QED  BY <1>1, <1>2, <2>1, <2>2, <2>3, TransferKeepsLedger
<1>12. QED  BY <1>6, <1>7, <1>8, <1>9, <1>10, <1>11 DEF Cpi

\* The ledger at hand and the one that the others see.
BothLedgers == LedgerInv /\ Committed!LedgerInv

\* Every step keeps both.
LEMMA NextKeepsLedgers ==
    ASSUME CpiInv, BothLedgers, [CpiNext]_<<vars, cpiVars>>
    PROVE  BothLedgers'
<1>1. CASE AtomicStep
  <2>1. call' = Idle /\ [Next]_vars  BY <1>1 DEF AtomicStep, cpiVars
  <2>2. LedgerInv'  BY <2>1, NextKeepsInv DEF BothLedgers
  <2>3. QED  BY <2>1, <2>2, SameLedgerPrimed DEF BothLedgers
<1>2. CASE BeginCall
  <2>1. Committed!LedgerInv'
    BY <1>2, OthersStutter, CommittedLedgerKept DEF BothLedgers
  <2>2. TypeOK'  BY <1>2, BeginCallKeeps DEF CpiInv
  <2>3. UNCHANGED <<mint, account, ledger>>  BY <1>2, BeginSaves
  <2>4. LedgerInv'  BY <2>2, <2>3, UntouchedKeepsLedger DEF BothLedgers
  <2>5. QED  BY <2>1, <2>4 DEF BothLedgers
<1>3. CASE CallNext
  <2>1. Committed!LedgerInv'
    BY <1>3, OthersStutter, CommittedLedgerKept DEF BothLedgers
  <2>2. QED  BY <1>3, <2>1, CallNextKeepsLedger DEF BothLedgers
<1>4. CASE Commit
  <2>1. call' = Idle /\ UNCHANGED vars  BY <1>4 DEF Commit
  <2>2. LedgerInv'  BY <2>1, NextKeepsInv DEF BothLedgers
  <2>3. QED  BY <2>1, <2>2, SameLedgerPrimed DEF BothLedgers
<1>5. CASE Refused \/ OutOfCompute
  <2>1. Committed!LedgerInv'
    BY <1>5, OthersStutter, CommittedLedgerKept DEF BothLedgers
  <2>2. call' = Idle  BY <1>5 DEF Refused, OutOfCompute, Rollback
  <2>3. QED  BY <2>1, <2>2, SameLedgerPrimed DEF BothLedgers
<1>6. CASE UNCHANGED <<vars, cpiVars>>
  <2>1. UNCHANGED vars /\ UNCHANGED Committed!vars
    BY <1>6 DEF vars, cpiVars, Committed!vars, Visible
  <2>2. LedgerInv'  BY <2>1, NextKeepsInv DEF BothLedgers
  <2>3. QED  BY <2>1, <2>2, CommittedLedgerKept DEF BothLedgers
<1>7. QED  BY <1>1, <1>2, <1>3, <1>4, <1>5, <1>6 DEF CpiNext

\* Between any two calls of a handler too, the supply of every mint is what the
\* accounts at hand hold, and so it is in the accounts that the others see
\* meanwhile.
THEOREM LedgersUnderway == CpiSpec => [](LedgerInv /\ Committed!LedgerInv)
<1>1. CpiInit => BothLedgers
  BY InitInv, SameLedger DEF CpiInit, BothLedgers
<1>2. CpiInv /\ BothLedgers /\ [CpiNext]_<<vars, cpiVars>> => BothLedgers'
  BY NextKeepsLedgers
<1>3. BothLedgers => LedgerInv /\ Committed!LedgerInv  BY DEF BothLedgers
<1>4. QED  BY <1>1, <1>2, <1>3, CpiInvariantHolds, PTL DEF CpiSpec

-----------------------------------------------------------------------------
(* A right call is not refused: the state that the calls before have left  *)
(* is the one that the next call asks for.                                 *)

\* The next call and the ones before it, of a handler that makes cpis.
InTurn(cpis, name, done) ==
    \E k \in 0 .. Len(cpis) - 1 : name = cpis[k + 1] /\ done = Done(cpis, k)

\* The first calls of a list, by their number.
LEMMA FirstCalls ==
    ASSUME NEW s
    PROVE  /\ Done(s, 0) = {} /\ Done(s, 1) = {s[1]}
           /\ Done(s, 2) = {s[1], s[2]} /\ Done(s, 3) = {s[1], s[2], s[3]}
           /\ Done(s, 4) = {s[1], s[2], s[3], s[4]}
           /\ Done(s, 5) = {s[1], s[2], s[3], s[4], s[5]}
<1>1. Done(s, 0) = {} /\ Done(s, 1) = {s[1]}  BY DEF Done
<1>2. Done(s, 2) = {s[1], s[2]}
  <2>1. \A i \in 1 .. 2 : i = 1 \/ i = 2  OBVIOUS
  <2>2. QED  BY <2>1 DEF Done
<1>3. Done(s, 3) = {s[1], s[2], s[3]}
  <2>1. \A i \in 1 .. 3 : i = 1 \/ i = 2 \/ i = 3  OBVIOUS
  <2>2. QED  BY <2>1 DEF Done
<1>4. Done(s, 4) = {s[1], s[2], s[3], s[4]}
  <2>1. \A i \in 1 .. 4 : i = 1 \/ i = 2 \/ i = 3 \/ i = 4  OBVIOUS
  <2>2. QED  BY <2>1 DEF Done
<1>5. Done(s, 5) = {s[1], s[2], s[3], s[4], s[5]}
  <2>1. \A i \in 1 .. 5 : i = 1 \/ i = 2 \/ i = 3 \/ i = 4 \/ i = 5  OBVIOUS
  <2>2. QED  BY <2>1 DEF Done
<1>6. QED  BY <1>1, <1>2, <1>3, <1>4, <1>5

\* The turns of the handlers of two calls.
LEMMA TurnsOfTwo ==
    ASSUME NEW a, NEW b, NEW name, NEW done, InTurn(<<a, b>>, name, done)
    PROVE  (name = a /\ done = {}) \/ (name = b /\ done = {a})
<1> DEFINE s == <<a, b>>
<1>1. PICK k \in 0 .. Len(s) - 1 : name = s[k + 1] /\ done = Done(s, k)
  BY DEF InTurn
<1>2. Len(s) = 2 /\ s[1] = a /\ s[2] = b  OBVIOUS
<1> HIDE DEF s
<1>3. k = 0 \/ k = 1  BY <1>2
<1>4. QED  BY <1>1, <1>2, <1>3, FirstCalls

\* The turns of the handlers of three.
LEMMA TurnsOfThree ==
    ASSUME NEW a, NEW b, NEW c, NEW name, NEW done,
           InTurn(<<a, b, c>>, name, done)
    PROVE  \/ name = a /\ done = {}
           \/ name = b /\ done = {a}
           \/ name = c /\ done = {a, b}
<1> DEFINE s == <<a, b, c>>
<1>1. PICK k \in 0 .. Len(s) - 1 : name = s[k + 1] /\ done = Done(s, k)
  BY DEF InTurn
<1>2. Len(s) = 3 /\ s[1] = a /\ s[2] = b /\ s[3] = c  OBVIOUS
<1> HIDE DEF s
<1>3. k = 0 \/ k = 1 \/ k = 2  BY <1>2
<1>4. QED  BY <1>1, <1>2, <1>3, FirstCalls

\* The turns of immutable_owner.
LEMMA ImmutableOwnerTurns ==
    ASSUME NEW name, NEW done, InTurn(ImmutableOwnerCpis, name, done)
    PROVE  \/ name = "create_mint" /\ done = {}
           \/ name = "initialize_mint2" /\ done = {"create_mint"}
           \/ name = "create_account" /\ done = {"create_mint", "initialize_mint2"}
           \/ /\ name = "initialize_immutable_owner"
              /\ done = {"create_mint", "initialize_mint2", "create_account"}
           \/ /\ name = "initialize_account3"
              /\ done = {"create_mint", "initialize_mint2", "create_account",
                         "initialize_immutable_owner"}
<1> DEFINE s == ImmutableOwnerCpis
<1>1. PICK k \in 0 .. Len(s) - 1 : name = s[k + 1] /\ done = Done(s, k)
  BY DEF InTurn
<1>2. /\ Len(s) = 5 /\ s[1] = "create_mint" /\ s[2] = "initialize_mint2"
      /\ s[3] = "create_account" /\ s[4] = "initialize_immutable_owner"
      /\ s[5] = "initialize_account3"
  BY DEF ImmutableOwnerCpis
<1> HIDE DEF s
<1>3. k = 0 \/ k = 1 \/ k = 2 \/ k = 3 \/ k = 4  BY <1>2
<1>4. QED  BY <1>1, <1>2, <1>3, FirstCalls

\* The turns of non_transferable_token.
LEMMA NonTransferableTokenTurns ==
    ASSUME NEW name, NEW done, InTurn(NonTransferableTokenCpis, name, done)
    PROVE  \/ name = "create_mint" /\ done = {}
           \/ name = "initialize_extension" /\ done = {"create_mint"}
           \/ /\ name = "initialize_mint2"
              /\ done = {"create_mint", "initialize_extension"}
           \/ /\ name = "create_account"
              /\ done = {"create_mint", "initialize_extension", "initialize_mint2"}
           \/ /\ name = "initialize_immutable_owner"
              /\ done = {"create_mint", "initialize_extension",
                         "initialize_mint2", "create_account"}
           \/ /\ name = "initialize_account3"
              /\ done = {"create_mint", "initialize_extension",
                         "initialize_mint2", "create_account",
                         "initialize_immutable_owner"}
<1> DEFINE s == NonTransferableTokenCpis
<1>1. PICK k \in 0 .. Len(s) - 1 : name = s[k + 1] /\ done = Done(s, k)
  BY DEF InTurn
<1>2. /\ Len(s) = 6 /\ s[1] = "create_mint" /\ s[2] = "initialize_extension"
      /\ s[3] = "initialize_mint2" /\ s[4] = "create_account"
      /\ s[5] = "initialize_immutable_owner" /\ s[6] = "initialize_account3"
  BY DEF NonTransferableTokenCpis
<1> HIDE DEF s
<1>3. k = 0 \/ k = 1 \/ k = 2 \/ k = 3 \/ k = 4 \/ k = 5  BY <1>2
<1>4. QED  BY <1>1, <1>2, <1>3, FirstCalls

\* No fee is more than what is transferred.
LEMMA FeeAtMost ==
    ASSUME NEW conf \in MintState, NEW n \in U64
    PROVE  Fee(conf, n) \in Nat /\ Fee(conf, n) <= n
<1> DEFINE rate == conf.bps
           cap  == conf.maxFee
<1>1. rate \in BasisPoints /\ cap \in U64  BY MintRate, MintCap
<1>2. Fee(conf, n) \in Nat  BY FeeNat
<1>3. Fee(conf, n) = IF conf.hasFee
                      THEN Min2((n * rate + FullRate - 1) \div FullRate, cap)
                      ELSE 0
  BY DEF Fee
<1> HIDE DEF rate, cap
<1>4. /\ rate \in Nat /\ rate <= FullRate /\ cap \in Nat /\ n \in Nat
      /\ FullRate \in Nat /\ FullRate > 0
  BY <1>1, BoundsAreNatural DEF U64, BasisPoints
<1> DEFINE x == n * rate + FullRate - 1
           q == x \div FullRate
<1>5. n * rate <= n * FullRate  BY <1>4
<1>6. x \in Nat /\ n * FullRate \in Nat /\ x < n * FullRate + FullRate
  BY <1>4, <1>5
<1>7. q \in Int /\ q * FullRate <= x
  <2> HIDE DEF x
  <2>1. QED  BY <1>4, <1>6
<1> HIDE DEF x, q
<1>8. q <= n
  <2> SUFFICES ASSUME q > n PROVE FALSE  BY <1>4, <1>7
  <2>1. q - (n + 1) \in Nat  BY <1>4, <1>7
  <2>2. (q - (n + 1)) * FullRate \in Nat  BY <1>4, <2>1
  <2>3. (q - (n + 1)) * FullRate = q * FullRate - (n * FullRate + FullRate)
    BY <1>4, <1>7
  <2>4. q * FullRate \in Int  BY <1>4, <1>7
  <2>5. QED  BY <1>4, <1>6, <1>7, <2>2, <2>3, <2>4
<1>9. CASE conf.hasFee
  <2>1. Fee(conf, n) = Min2(q, cap)  BY <1>3, <1>9 DEF q, x
  <2>2. QED  BY <1>2, <1>4, <1>7, <1>8, <2>1 DEF Min2
<1>10. QED  BY <1>2, <1>3, <1>4, <1>9

\* create_mint finds the mint's address unused and the payer's SOL untouched.
LEMMA CreateMintAccepted ==
    ASSUME NEW names, NEW done, Ready(names, done), "create_mint" \in names,
           "create_mint" \notin done, "create_account" \notin done,
           saved.lamports[call.m] = 0,
           saved.lamports[call.p] >= Rent(call.mintLen)
    PROVE  CanCreate(call.m, call.p, call.mintLen)
<1>1. /\ call.m \in Addresses /\ call.p \in Addresses /\ call.m # call.p
      /\ call.mintLen \in Nat
  BY DistinctAddresses, BoundsAreNatural
  DEF Ready, CreationArgs, MintCalls, Rooms
<1>2. saved.lamports \in [Addresses -> Nat]  BY SavedTypes DEF Ready
<1>3. lamports[call.m] = saved.lamports[call.m]
        /\ lamports[call.p] = saved.lamports[call.p]
  BY <1>1, <1>2 DEF Ready, Creating, RentSpent
<1>4. QED  BY <1>3 DEF CanCreate

\* The mint is raw until initialize_mint2, and has the length asked for.
LEMMA RawMintAtHand ==
    ASSUME NEW names, NEW done, Ready(names, done), call \in Calls,
           call.op \in ExtensionKinds \cup MintAndAccountKinds, RawMint(done)
    PROVE  /\ raw[call.m] = [len |-> call.mintLen,
                             extensions |-> MintExtensions(done)]
           /\ raw[call.m] # Absent
<1>1. call.m \in Mints /\ call.mintLen \in Lengths
  BY DEF Calls, ExtensionKinds, MintAndAccountKinds, TokenAccountKinds
<1>2. raw[call.m] = [len |-> call.mintLen, extensions |-> MintExtensions(done)]
  BY <1>1 DEF Ready, Creating, RawOf
<1>3. MintExtensions(done) \in SUBSET (ExtensionKinds \cup MintAndAccountKinds)
  BY DEF MintExtensions
<1>4. QED  BY <1>1, <1>2, <1>3, RawIsNotAbsent

\* The token account is raw until initialize_account3.
LEMMA RawAccountAtHand ==
    ASSUME NEW names, NEW done, Ready(names, done), call \in Calls,
           call.op \in MintAndAccountKinds \cup TokenAccountKinds,
           RawAccount(done)
    PROVE  /\ raw[call.a] = [len |-> call.accountLen,
                             extensions |-> AccountExtensions(done)]
           /\ raw[call.a] # Absent
<1>1. call.m \in Mints /\ call.a \in KeyAccounts /\ call.accountLen \in Lengths
  BY DEF Calls, ExtensionKinds, MintAndAccountKinds, TokenAccountKinds
<1>2. call.a # call.m  BY <1>1, DistinctAddresses
<1>3. raw[call.a] = [len |-> call.accountLen,
                     extensions |-> AccountExtensions(done)]
  BY <1>1, <1>2 DEF Ready, Creating, RawOf
<1>4. AccountExtensions(done) \in SUBSET (ExtensionKinds \cup MintAndAccountKinds)
  BY DEF AccountExtensions, MintAndAccountKinds
<1>5. QED  BY <1>1, <1>3, <1>4, RawIsNotAbsent

\* initialize_extension needs length for one extension.
LEMMA ExtensionAccepted ==
    ASSUME NEW names, NEW done, Ready(names, done), call \in Calls,
           call.op \in ExtensionKinds \cup MintAndAccountKinds, RawMint(done),
           "initialize_extension" \notin done, call.mintLen >= 1
    PROVE  CanExtend(call.m, call.op)
<1>1. raw[call.m] = [len |-> call.mintLen, extensions |-> {}]
        /\ raw[call.m] # Absent
  BY RawMintAtHand DEF MintExtensions
<1>2. raw[call.m].extensions \cup {call.op} = {call.op}  BY <1>1
<1>3. raw[call.m].len = call.mintLen  BY <1>1
<1>4. Cardinality({call.op}) = 1  BY FS_Singleton
<1>5. QED  BY <1>1, <1>2, <1>3, <1>4 DEF CanExtend

\* initialize_mint2 needs the length of the extensions, and no other.
LEMMA Mint2Accepted ==
    ASSUME NEW names, NEW done, Ready(names, done), call \in Calls,
           call.op \in ExtensionKinds \cup MintAndAccountKinds, RawMint(done),
           call.mintLen = IF "initialize_extension" \in done THEN 1 ELSE 0
    PROVE  CanMakeMint(call.m)
<1>1. raw[call.m] = [len |-> call.mintLen, extensions |-> MintExtensions(done)]
        /\ raw[call.m] # Absent
  BY RawMintAtHand
<1>2. Cardinality(MintExtensions(done)) = call.mintLen
  BY FS_Singleton, FS_EmptySet DEF MintExtensions
<1>3. QED  BY <1>1, <1>2 DEF CanMakeMint

\* create_account finds the address unused and rent for it left.
LEMMA CreateAccountAccepted ==
    ASSUME NEW names, NEW done, Ready(names, done), "create_account" \in names,
           "create_account" \notin done, saved.lamports[call.a] = 0,
           NEW mintRent \in Nat,
           mintRent = IF "create_mint" \in done THEN Rent(call.mintLen) ELSE 0,
           saved.lamports[call.p] >= mintRent + Rent(call.accountLen)
    PROVE  CanCreate(call.a, call.p, call.accountLen)
<1>1. /\ call.m \in Mints /\ call.a \in KeyAccounts /\ call.p \in Wallets
      /\ call.accountLen \in Nat
  BY BoundsAreNatural DEF Ready, CreationArgs, AccountCalls, Rooms
<1>2. /\ call.a \in Addresses /\ call.p \in Addresses
      /\ call.a # call.p /\ call.a # call.m /\ call.p # call.m
  BY <1>1, DistinctAddresses
<1>3. saved.lamports \in [Addresses -> Nat]  BY SavedTypes DEF Ready
<1>4. lamports = [x \in Addresses |->
               IF "create_mint" \in done /\ x = call.m THEN mintRent
               ELSE IF x = call.p THEN saved.lamports[x] - (mintRent + 0)
               ELSE saved.lamports[x]]
  BY DEF Ready, Creating, RentSpent
<1>5. lamports[call.a] = 0
        /\ lamports[call.p] = saved.lamports[call.p] - (mintRent + 0)
  BY <1>2, <1>3, <1>4
<1>6. saved.lamports[call.p] \in Nat /\ Rent(call.accountLen) \in Nat
  BY <1>1, <1>2, <1>3 DEF Rent
<1>7. QED  BY <1>5, <1>6 DEF CanCreate

\* initialize_immutable_owner needs length for one extension.
LEMMA ImmutableOwnerAccepted ==
    ASSUME NEW names, NEW done, Ready(names, done), call \in Calls,
           call.op \in MintAndAccountKinds, RawAccount(done),
           "initialize_immutable_owner" \notin done, call.accountLen >= 1
    PROVE  CanExtend(call.a, "immutable_owner")
<1>1. raw[call.a] = [len |-> call.accountLen, extensions |-> {}]
        /\ raw[call.a] # Absent
  BY RawAccountAtHand DEF AccountExtensions
<1>2. raw[call.a].extensions \cup {"immutable_owner"} = {"immutable_owner"}
  BY <1>1
<1>3. raw[call.a].len = call.accountLen  BY <1>1
<1>4. Cardinality({"immutable_owner"}) = 1  BY FS_Singleton
<1>5. QED  BY <1>1, <1>2, <1>3, <1>4 DEF CanExtend

\* initialize_account3 needs the mint, and the length its extensions take.
LEMMA Account3Accepted ==
    ASSUME NEW names, NEW done, Ready(names, done), call \in Calls,
           call.op \in MintAndAccountKinds \cup TokenAccountKinds,
           RawAccount(done), mint[call.m] # Absent,
           Slots(NewAccount(call.m, mint[call.m], call.w,
                            AccountExtensions(done) # {}, 0)) <= call.accountLen
    PROVE  CanOpen(call.a, call.m, call.w)
<1>1. raw[call.a] = [len |-> call.accountLen,
                     extensions |-> AccountExtensions(done)]
        /\ raw[call.a] # Absent
  BY RawAccountAtHand
<1>2. ("immutable_owner" \in raw[call.a].extensions) = (AccountExtensions(done) # {})
  BY <1>1 DEF AccountExtensions
<1>3. raw[call.a].len = call.accountLen  BY <1>1
<1>4. QED  BY <1>1, <1>2, <1>3 DEF CanOpen, AccountOf, Live

\* enable_required_transfer_memos of a new account needs one slot more.
LEMMA NewMemoAccepted ==
    ASSUME NEW names, NEW done, Ready(names, done), call \in Calls,
           call.op \in TokenAccountKinds, "initialize_account3" \in done,
           "enable_required_transfer_memos" \notin done,
           Slots(NewAccount(call.m, mint[call.m], call.w,
                            AccountExtensions(done) # {}, 0)) + 1
               <= call.accountLen
    PROVE  OwnedBy(call.a, call.w) /\ HasSlot(call.a)
<1> DEFINE new  == NewAccount(call.m, mint[call.m], call.w,
                              AccountExtensions(done) # {}, 0)
           free == call.accountLen - Slots(new)
           made(m, r) == [new EXCEPT !.memo = m, !.room = r]
<1>1. call.m \in Mints /\ call.a \in Accounts /\ call.w \in Wallets
        /\ call.accountLen \in Rooms
  BY LengthsFitRooms, DistinctAddresses
  DEF Calls, ExtensionKinds, MintAndAccountKinds, TokenAccountKinds
<1>2. mint[call.m] # Absent /\ account = [saved.account EXCEPT ![call.a] =
          made("enable_required_transfer_memos" \in done,
               IF "enable_required_transfer_memos" \in done THEN free - 1
               ELSE free)]
  BY DEF Ready, Creating, AccountMade
<1>3. ("enable_required_transfer_memos" \in done) = FALSE  OBVIOUS
<1>4. account = [saved.account EXCEPT ![call.a] = made(FALSE, free)]
  <2> HIDE DEF made, free
  <2>1. QED  BY <1>2, <1>3
<1>5. new \in AccountState /\ Slots(new) \in Nat /\ new.owner = call.w
  <2>1. mint[call.m] \in MintState /\ 0 \in Rooms
    BY <1>1, <1>2, BoundsAreNatural DEF Ready, TypeOK, Rooms
  <2>2. (AccountExtensions(done) # {}) \in BOOLEAN  OBVIOUS
  <2>3. new \in AccountState  BY <1>1, <2>1, <2>2, NewAccountType
  <2>4. new.room = 0 /\ new.owner = call.w  BY DEF NewAccount
  <2> HIDE DEF new
  <2>5. Slots(new) \in Nat  BY <2>4, SlotsNat
  <2>6. QED  BY <2>3, <2>4, <2>5
<1>6. free > 0 /\ free \in Rooms
  <2>1. Slots(new) + 1 <= call.accountLen  OBVIOUS
  <2> HIDE DEF new
  <2>2. QED  BY <1>1, <1>5, <2>1, BoundsAreNatural DEF Rooms
<1> HIDE DEF new, free
<1>7. /\ made(FALSE, free) \in AccountState
      /\ made(FALSE, free).room = free /\ made(FALSE, free).owner = call.w
  BY <1>5, <1>6 DEF AccountState
<1> HIDE DEF made
<1>8. account[call.a] = made(FALSE, free)
  BY <1>1, <1>4, SavedTypes DEF Ready
<1>9. Open(call.a)
  BY <1>7, <1>8, AbsentIsNoState DEF Open
<1>10. QED  BY <1>6, <1>7, <1>8, <1>9 DEF OwnedBy, HasSlot

\* What makes a call right, handler by handler.
LEMMA RightCallParts ==
    ASSUME call \in Calls, RightCall(call)
    PROVE  /\ call.op \in ExtensionKinds =>
                  /\ call.mintLen = 1 /\ saved.lamports[call.m] = 0
                  /\ saved.lamports[call.p] >= Rent(1)
           /\ call.op \in MintAndAccountKinds =>
                  /\ call.mintLen = IF call.op = "immutable_owner" THEN 0 ELSE 1
                  /\ call.accountLen >= IF call.op = "immutable_owner" THEN 1 ELSE 2
                  /\ saved.lamports[call.m] = 0 /\ saved.lamports[call.a] = 0
                  /\ saved.lamports[call.p]
                        >= Rent(call.mintLen) + Rent(call.accountLen)
           /\ call.op \in TokenAccountKinds =>
                  /\ saved.lamports[call.a] = 0
                  /\ saved.lamports[call.p] >= Rent(call.accountLen)
           /\ call.op = "enable_memo" =>
                  Slots(NewAccount(call.m, saved.mint[call.m], call.w, FALSE, 1))
                      <= call.accountLen
           /\ call.op = "initialize_token_account_with" =>
                  Slots(NewAccount(call.m, saved.mint[call.m], call.w, FALSE, 0))
                      <= call.accountLen
           /\ call.op = "realloc" =>
                  /\ saved.account[call.a].owner = call.w
                  /\ \/ saved.account[call.a].memo
                     \/ saved.account[call.a].room > 0
                     \/ saved.lamports[call.p] >= 1
           /\ call.op = "memo_transfer" => RightTransfer(call, TRUE)
           /\ call.op = "transfer_token" =>
                  saved.lamports[call.w] >= SolToll /\ RightTransfer(call, FALSE)
<1>1. /\ call.op = "immutable_owner" \/ call.op = "non_transferable_token" =>
             /\ call.mintLen = IF call.op = "immutable_owner" THEN 0 ELSE 1
             /\ call.accountLen >= IF call.op = "immutable_owner" THEN 1 ELSE 2
             /\ saved.lamports[call.m] = 0 /\ saved.lamports[call.a] = 0
             /\ saved.lamports[call.p] >= Rent(call.mintLen) + Rent(call.accountLen)
  BY DEF RightCall, CanPay, Unused
<1>2. call.op \in ExtensionKinds =>
          /\ call.mintLen = 1 /\ saved.lamports[call.m] = 0
          /\ saved.lamports[call.p] >= Rent(1)
  BY DEF RightCall, CanPay, Unused, ExtensionKinds
<1>3. call.op \in TokenAccountKinds =>
          /\ saved.lamports[call.a] = 0
          /\ saved.lamports[call.p] >= Rent(call.accountLen)
          /\ call.accountLen >=
               Slots(NewAccount(call.m, saved.mint[call.m], call.w, FALSE,
                                IF call.op = "enable_memo" THEN 1 ELSE 0))
  BY DEF RightCall, CanPay, Unused, TokenAccountKinds
<1>4. call.accountLen \in Rooms \/ call.op \notin TokenAccountKinds
  BY LengthsFitRooms
  DEF Calls, ExtensionKinds, MintAndAccountKinds, TokenAccountKinds
<1>5. call.op = "enable_memo" =>
          call.accountLen >=
              Slots(NewAccount(call.m, saved.mint[call.m], call.w, FALSE, 1))
  <2> SUFFICES ASSUME call.op = "enable_memo"
               PROVE  call.accountLen >=
                   Slots(NewAccount(call.m, saved.mint[call.m], call.w, FALSE, 1))
    OBVIOUS
  <2>1. (IF call.op = "enable_memo" THEN 1 ELSE 0) = 1  OBVIOUS
  <2>2. call.op \in TokenAccountKinds  BY DEF TokenAccountKinds
  <2>3. QED  BY <1>3, <2>1, <2>2
<1>6. call.op = "initialize_token_account_with" =>
          call.accountLen >=
              Slots(NewAccount(call.m, saved.mint[call.m], call.w, FALSE, 0))
  <2> SUFFICES ASSUME call.op = "initialize_token_account_with"
               PROVE  call.accountLen >=
                   Slots(NewAccount(call.m, saved.mint[call.m], call.w, FALSE, 0))
    OBVIOUS
  <2>1. (IF call.op = "enable_memo" THEN 1 ELSE 0) = 0  OBVIOUS
  <2>2. call.op \in TokenAccountKinds  BY DEF TokenAccountKinds
  <2>3. QED  BY <1>3, <2>1, <2>2
<1>7. call.op = "realloc" =>
          /\ saved.account[call.a].owner = call.w
          /\ \/ saved.account[call.a].memo \/ saved.account[call.a].room > 0
             \/ saved.lamports[call.p] >= 1
  BY DEF RightCall, CanPay
<1>8. /\ call.op = "memo_transfer" => RightTransfer(call, TRUE)
      /\ call.op = "transfer_token" =>
             saved.lamports[call.w] >= SolToll /\ RightTransfer(call, FALSE)
  BY DEF RightCall
<1>9. QED
  BY <1>1, <1>2, <1>3, <1>5, <1>6, <1>7, <1>8 DEF MintAndAccountKinds

\* An account that asks for its owner to stay has a slot for that, and one for
\* a mint that cannot be transferred.
LEMMA SlotsOfOwned ==
    ASSUME NEW m, NEW w, NEW conf, conf.hasFee = FALSE, conf.hookExt = FALSE,
           conf.nonTransferable \in BOOLEAN
    PROVE  Slots(NewAccount(m, conf, w, TRUE, 0))
               = IF conf.nonTransferable THEN 2 ELSE 1
<1> DEFINE new == NewAccount(m, conf, w, TRUE, 0)
           Ext == {"feeExt", "hookExt", "nonTransferable", "immutable",
                   "memo", "guard"}
<1>1. /\ new.feeExt = FALSE /\ new.hookExt = FALSE /\ new.memo = FALSE
      /\ new.guard = FALSE /\ new.immutable = TRUE /\ new.room = 0
      /\ new.nonTransferable = conf.nonTransferable
  BY DEF NewAccount
<1> HIDE DEF new
<1>2. {x \in Ext : new[x]} = IF conf.nonTransferable
                              THEN {"nonTransferable"} \cup {"immutable"}
                              ELSE {"immutable"}
  BY <1>1
<1>3. /\ Cardinality({"immutable"}) = 1 /\ IsFiniteSet({"immutable"})
      /\ Cardinality({"nonTransferable"} \cup {"immutable"}) = 2
  <2>1. Cardinality({"immutable"}) = 1 /\ IsFiniteSet({"immutable"})
    BY FS_Singleton
  <2>2. Cardinality({"immutable"} \cup {"nonTransferable"}) = 1 + 1
    BY <2>1, FS_AddElement
  <2>3. {"immutable"} \cup {"nonTransferable"} = {"nonTransferable"} \cup {"immutable"}
    OBVIOUS
  <2>4. QED  BY <2>1, <2>2, <2>3
<1>4. Slots(new) = Cardinality({x \in Ext : new[x]}) + 0  BY <1>1 DEF Slots
<1>5. CASE conf.nonTransferable
  <2>1. {x \in Ext : new[x]} = {"nonTransferable"} \cup {"immutable"}
    BY <1>2, <1>5
  <2>2. Slots(new) = 2  BY <1>3, <1>4, <2>1
  <2>3. QED  BY <1>5, <2>2 DEF new
<1>6. CASE ~conf.nonTransferable
  <2>1. {x \in Ext : new[x]} = {"immutable"}  BY <1>2, <1>6
  <2>2. Slots(new) = 1  BY <1>3, <1>4, <2>1
  <2>3. QED  BY <1>6, <2>2 DEF new
<1>7. QED  BY <1>5, <1>6

\* The handlers of a mint with one extension.
LEMMA ExtensionMintAccepted ==
    ASSUME call \in Calls, RightCall(call), call.op \in ExtensionKinds,
           NEW names, names = CallsOf(call.op), NEW done, Ready(names, done),
           NEW name, InTurn(ExtensionMintCpis, name, done)
    PROVE  Accepted(call, name)
<1>1. /\ call.mintLen = 1 /\ saved.lamports[call.m] = 0
      /\ saved.lamports[call.p] >= Rent(call.mintLen)
  BY RightCallParts
<1>2. \/ name = "create_mint" /\ done = {}
      \/ name = "initialize_extension" /\ done = {"create_mint"}
      \/ /\ name = "initialize_mint2"
         /\ done = {"create_mint", "initialize_extension"}
  BY TurnsOfThree DEF ExtensionMintCpis
<1>3. CASE name = "create_mint" /\ done = {}
  <2>1. "create_mint" \in names  BY DEF CallsOf, MintCalls, ExtensionKinds
  <2>2. CanCreate(call.m, call.p, call.mintLen)
    BY <1>1, <1>3, <2>1, CreateMintAccepted
  <2>3. QED  BY <1>3, <2>2 DEF Accepted
<1>4. CASE name = "initialize_extension" /\ done = {"create_mint"}
  <2>1. RawMint(done) /\ "initialize_extension" \notin done
    BY <1>4 DEF RawMint
  <2>2. CanExtend(call.m, call.op)  BY <1>1, <2>1, ExtensionAccepted
  <2>3. QED  BY <1>4, <2>2 DEF Accepted
<1>5. CASE /\ name = "initialize_mint2"
           /\ done = {"create_mint", "initialize_extension"}
  <2>1. RawMint(done) /\ "initialize_extension" \in done  BY <1>5 DEF RawMint
  <2>2. CanMakeMint(call.m)  BY <1>1, <2>1, Mint2Accepted
  <2>3. QED  BY <1>5, <2>2 DEF Accepted
<1>6. QED  BY <1>2, <1>3, <1>4, <1>5

\* The calls that a mint and its account are made by: what is left to check of
\* each, whatever the order.
LEMMA MintAndAccountCallAccepted ==
    ASSUME call \in Calls, RightCall(call), call.op \in MintAndAccountKinds,
           NEW names, names = CallsOf(call.op), NEW done, Ready(names, done),
           NEW name \in names, name \notin done,
           name = "create_mint" => "create_account" \notin done,
           name \in {"initialize_extension", "initialize_mint2"} => RawMint(done),
           name = "initialize_mint2" =>
               ("initialize_extension" \in done <=> call.op # "immutable_owner"),
           name = "create_account" => "create_mint" \in done,
           name \in {"initialize_immutable_owner", "initialize_account3"} =>
               RawAccount(done),
           name = "initialize_account3" =>
               /\ {"initialize_mint2", "initialize_immutable_owner"} \subseteq done
               /\ "initialize_extension" \in done => call.op # "immutable_owner"
    PROVE  Accepted(call, name)
<1>1. /\ call.mintLen = IF call.op = "immutable_owner" THEN 0 ELSE 1
      /\ call.accountLen >= IF call.op = "immutable_owner" THEN 1 ELSE 2
      /\ saved.lamports[call.m] = 0 /\ saved.lamports[call.a] = 0
      /\ saved.lamports[call.p] >= Rent(call.mintLen) + Rent(call.accountLen)
  BY RightCallParts
<1>2. /\ call.m \in Mints /\ call.p \in Wallets /\ call.w \in Wallets
      /\ call.mintLen \in Nat /\ call.accountLen \in Nat
      /\ call.op \in {"immutable_owner", "non_transferable_token"}
  BY LengthsFitRooms, BoundsAreNatural
  DEF Calls, ExtensionKinds, MintAndAccountKinds, TokenAccountKinds, Rooms
<1>3. /\ Rent(call.mintLen) \in Nat /\ Rent(call.accountLen) \in Nat
      /\ saved.lamports[call.p] \in Nat
  BY <1>2, DistinctAddresses, SavedTypes DEF Rent, Ready
<1>4. name \in {"create_mint", "initialize_extension", "initialize_mint2",
                "create_account", "initialize_immutable_owner",
                "initialize_account3"}
  BY <1>2 DEF CallsOf, MintCalls, ExtensionKinds
<1>5. CASE name = "create_mint"
  <2>1. CanCreate(call.m, call.p, call.mintLen)
    BY <1>1, <1>3, <1>5, CreateMintAccepted
  <2>2. QED  BY <1>5, <2>1 DEF Accepted
<1>6. CASE name = "initialize_extension"
  <2>1. call.op # "immutable_owner"
    BY <1>6 DEF CallsOf, ExtensionKinds
  <2>2. call.mintLen >= 1  BY <1>1, <2>1
  <2>3. CanExtend(call.m, call.op)  BY <1>6, <2>2, ExtensionAccepted
  <2>4. QED  BY <1>6, <2>3 DEF Accepted
<1>7. CASE name = "initialize_mint2"
  <2>1. call.mintLen = IF "initialize_extension" \in done THEN 1 ELSE 0
    BY <1>1, <1>7
  <2>2. CanMakeMint(call.m)  BY <1>7, <2>1, Mint2Accepted
  <2>3. QED  BY <1>7, <2>2 DEF Accepted
<1>8. CASE name = "create_account"
  <2>1. Rent(call.mintLen) =
            IF "create_mint" \in done THEN Rent(call.mintLen) ELSE 0
    BY <1>8
  <2>2. CanCreate(call.a, call.p, call.accountLen)
    BY <1>1, <1>3, <1>8, <2>1, CreateAccountAccepted
  <2>3. QED  BY <1>8, <2>2 DEF Accepted
<1>9. CASE name = "initialize_immutable_owner"
  <2>1. call.accountLen >= 1  BY <1>1, <1>2
  <2>2. CanExtend(call.a, "immutable_owner")
    BY <1>9, <2>1, ImmutableOwnerAccepted
  <2>3. QED  BY <1>9, <2>2 DEF Accepted
<1>10. CASE name = "initialize_account3"
  <2> DEFINE conf == mint[call.m]
  <2>1. conf = ExtendedMint(call.w, MintExtensions(done))
    BY <1>2, <1>10, SavedTypes DEF Ready, Creating, MintMade
  <2>2. conf \in MintState /\ Extended(conf, call.w, MintExtensions(done))
    BY <1>2, <2>1, ExtendedMintType, ExtendedFields
  <2>3. (AccountExtensions(done) # {}) = TRUE  BY <1>10 DEF AccountExtensions
  <2>4. /\ conf.hasFee = FALSE /\ conf.hookExt = FALSE
        /\ conf.nonTransferable \in BOOLEAN
        /\ conf.nonTransferable =
              ("non_transferable_token" \in MintExtensions(done))
    BY <2>2 DEF Extended, PlainMint
  <2>5. conf.nonTransferable => call.op # "immutable_owner"
    BY <1>10, <2>4 DEF MintExtensions
  <2>6. mint[call.m] # Absent  BY <2>2, AbsentIsNoState
  <2> HIDE DEF conf
  <2>7. Slots(NewAccount(call.m, conf, call.w, TRUE, 0))
            = IF conf.nonTransferable THEN 2 ELSE 1
    BY <2>4, SlotsOfOwned
  <2>8. Slots(NewAccount(call.m, conf, call.w, TRUE, 0)) <= call.accountLen
    <3>1. CASE conf.nonTransferable
      <4>1. call.accountLen >= 2  BY <1>1, <2>5, <3>1
      <4>2. QED  BY <1>2, <2>7, <3>1, <4>1
    <3>2. CASE ~conf.nonTransferable
      <4>1. call.accountLen >= 1  BY <1>1, <1>2
      <4>2. QED  BY <1>2, <2>7, <3>2, <4>1
    <3>3. QED  BY <3>1, <3>2
  <2>9. Slots(NewAccount(call.m, conf, call.w, AccountExtensions(done) # {}, 0))
            <= call.accountLen
    BY <2>3, <2>8
  <2>10. CanOpen(call.a, call.m, call.w)
    BY <1>10, <2>6, <2>9, Account3Accepted DEF conf
  <2>11. QED  BY <1>10, <2>10 DEF Accepted
<1>11. QED  BY <1>4, <1>5, <1>6, <1>7, <1>8, <1>9, <1>10

\* immutable_owner and non_transferable_token, in their orders.
LEMMA MintAndAccountAccepted ==
    ASSUME call \in Calls, RightCall(call), call.op \in MintAndAccountKinds,
           NEW names, names = CallsOf(call.op), NEW done, Ready(names, done),
           NEW name \in names, InTurn(CpisOf(call.op), name, done)
    PROVE  Accepted(call, name)
<1>1. CASE call.op = "immutable_owner"
  <2>1. InTurn(ImmutableOwnerCpis, name, done)
    BY <1>1 DEF CpisOf, ExtensionKinds
  <2>2. \/ name = "create_mint" /\ done = {}
        \/ name = "initialize_mint2" /\ done = {"create_mint"}
        \/ name = "create_account" /\ done = {"create_mint", "initialize_mint2"}
        \/ /\ name = "initialize_immutable_owner"
           /\ done = {"create_mint", "initialize_mint2", "create_account"}
        \/ /\ name = "initialize_account3"
           /\ done = {"create_mint", "initialize_mint2", "create_account",
                      "initialize_immutable_owner"}
    BY <2>1, ImmutableOwnerTurns
  <2>3. /\ name \notin done /\ "initialize_extension" \notin done
        /\ name = "create_mint" => "create_account" \notin done
        /\ name # "initialize_extension"
        /\ name = "initialize_mint2" => RawMint(done)
        /\ name = "create_account" => "create_mint" \in done
        /\ name \in {"initialize_immutable_owner", "initialize_account3"} =>
               RawAccount(done)
        /\ name = "initialize_account3" =>
               {"initialize_mint2", "initialize_immutable_owner"} \subseteq done
    BY <2>2 DEF RawMint, RawAccount
  <2>4. QED  BY <1>1, <2>3, MintAndAccountCallAccepted
<1>2. CASE call.op = "non_transferable_token"
  <2>1. InTurn(NonTransferableTokenCpis, name, done)
    BY <1>2 DEF CpisOf, ExtensionKinds
  <2>2. \/ name = "create_mint" /\ done = {}
        \/ name = "initialize_extension" /\ done = {"create_mint"}
        \/ /\ name = "initialize_mint2"
           /\ done = {"create_mint", "initialize_extension"}
        \/ /\ name = "create_account"
           /\ done = {"create_mint", "initialize_extension", "initialize_mint2"}
        \/ /\ name = "initialize_immutable_owner"
           /\ done = {"create_mint", "initialize_extension",
                      "initialize_mint2", "create_account"}
        \/ /\ name = "initialize_account3"
           /\ done = {"create_mint", "initialize_extension",
                      "initialize_mint2", "create_account",
                      "initialize_immutable_owner"}
    BY <2>1, NonTransferableTokenTurns
  <2>3. /\ name \notin done
        /\ name = "create_mint" => "create_account" \notin done
        /\ name \in {"initialize_extension", "initialize_mint2"} => RawMint(done)
        /\ name = "initialize_mint2" => "initialize_extension" \in done
        /\ name = "create_account" => "create_mint" \in done
        /\ name \in {"initialize_immutable_owner", "initialize_account3"} =>
               RawAccount(done)
        /\ name = "initialize_account3" =>
               {"initialize_mint2", "initialize_immutable_owner"} \subseteq done
    BY <2>2 DEF RawMint, RawAccount
  <2>4. QED  BY <1>2, <2>3, MintAndAccountCallAccepted
<1>3. QED  BY <1>1, <1>2 DEF MintAndAccountKinds

\* enable_memo and initialize_token_account_with.
LEMMA TokenAccountAccepted ==
    ASSUME call \in Calls, RightCall(call), call.op \in TokenAccountKinds, Begun,
           NEW names, names = CallsOf(call.op), NEW done, Ready(names, done),
           NEW name \in names, InTurn(CpisOf(call.op), name, done)
    PROVE  Accepted(call, name)
<1> DEFINE conf == saved.mint[call.m]
           bare == Slots(NewAccount(call.m, conf, call.w, FALSE, 0))
<1>1. /\ call.m \in Mints /\ call.p \in Wallets /\ call.w \in Wallets
      /\ call.accountLen \in Lengths /\ call.accountLen \in Nat
      /\ call.op \in {"enable_memo", "initialize_token_account_with"}
  BY LengthsFitRooms, BoundsAreNatural
  DEF Calls, ExtensionKinds, MintAndAccountKinds, TokenAccountKinds, Rooms
<1>2. names \subseteq {"create_account", "initialize_account3",
                       "enable_required_transfer_memos"}
        /\ "create_account" \in names
  BY <1>1 DEF CallsOf, ExtensionKinds
<1>3. /\ name = "create_account" => done = {}
      /\ name = "initialize_account3" => done = {"create_account"}
      /\ name = "enable_required_transfer_memos" =>
             /\ done = {"create_account", "initialize_account3"}
             /\ call.op = "enable_memo"
  <2>1. CASE call.op = "enable_memo"
    <3>1. InTurn(EnableMemoCpis, name, done)
      BY <2>1 DEF CpisOf, ExtensionKinds
    <3>2. \/ name = "create_account" /\ done = {}
          \/ name = "initialize_account3" /\ done = {"create_account"}
          \/ /\ name = "enable_required_transfer_memos"
             /\ done = {"create_account", "initialize_account3"}
      BY <3>1, TurnsOfThree DEF EnableMemoCpis
    <3>3. QED  BY <2>1, <3>2
  <2>2. CASE call.op = "initialize_token_account_with"
    <3>1. InTurn(TokenAccountCpis, name, done)
      BY <2>2 DEF CpisOf, ExtensionKinds
    <3>2. \/ name = "create_account" /\ done = {}
          \/ name = "initialize_account3" /\ done = {"create_account"}
      BY <3>1, TurnsOfTwo DEF TokenAccountCpis
    <3>3. QED  BY <3>2
  <2>3. QED  BY <1>1, <2>1, <2>2
<1>4. done \subseteq names  BY DEF Ready
<1>5. /\ mint = saved.mint /\ conf # Absent /\ conf \in MintState
      /\ AccountExtensions(done) = {}
  BY <1>1, <1>2, <1>4, SavedTypes
  DEF Ready, Creating, MintMade, AccountExtensions, Begun
<1>6. /\ saved.lamports[call.a] = 0
      /\ saved.lamports[call.p] >= Rent(call.accountLen)
      /\ bare <= call.accountLen
      /\ call.op = "enable_memo" => bare + 1 <= call.accountLen
  <2>1. 0 \in Rooms /\ 1 \in Rooms
    BY LengthsFitRooms, BoundsAreNatural DEF Rooms
  <2>2. Slots(NewAccount(call.m, conf, call.w, FALSE, 1)) = bare + 1
    BY <1>1, <1>5, <2>1, RoomOfNew
  <2>3. bare \in Nat
    <3> DEFINE new == NewAccount(call.m, conf, call.w, FALSE, 0)
    <3>1. new.room = 0  BY DEF NewAccount
    <3> HIDE DEF new
    <3>2. Slots(new) \in Nat  BY <3>1, SlotsNat
    <3>3. QED  BY <3>2 DEF new
  <2> HIDE DEF bare
  <2>4. /\ call.op = "enable_memo" => bare + 1 <= call.accountLen
        /\ call.op = "initialize_token_account_with" => bare <= call.accountLen
    BY <2>2, RightCallParts DEF bare
  <2>5. QED  BY <1>1, <2>3, <2>4, RightCallParts
<1>7. Slots(NewAccount(call.m, mint[call.m], call.w,
                       AccountExtensions(done) # {}, 0)) = bare
  <2>1. (AccountExtensions(done) # {}) = FALSE  BY <1>5
  <2>2. QED  BY <1>5, <2>1
<1> HIDE DEF bare, conf
<1>8. CASE name = "create_account"
  <2>1. 0 = IF "create_mint" \in done THEN Rent(call.mintLen) ELSE 0
    BY <1>3, <1>8
  <2>2. Rent(call.accountLen) \in Nat  BY <1>1 DEF Rent
  <2>3. saved.lamports[call.p] >= 0 + Rent(call.accountLen)  BY <1>6, <2>2
  <2>4. CanCreate(call.a, call.p, call.accountLen)
    BY <1>2, <1>3, <1>6, <1>8, <2>1, <2>3, CreateAccountAccepted
  <2>5. QED  BY <1>8, <2>4 DEF Accepted
<1>9. CASE name = "initialize_account3"
  <2>1. RawAccount(done)  BY <1>3, <1>9 DEF RawAccount
  <2>2. mint[call.m] # Absent  BY <1>5 DEF conf
  <2>3. CanOpen(call.a, call.m, call.w)
    BY <1>6, <1>7, <2>1, <2>2, Account3Accepted
  <2>4. QED  BY <1>9, <2>3 DEF Accepted
<1>10. CASE name = "enable_required_transfer_memos"
  <2>1. /\ "initialize_account3" \in done
        /\ "enable_required_transfer_memos" \notin done
        /\ bare + 1 <= call.accountLen
    BY <1>3, <1>6, <1>10
  <2>2. OwnedBy(call.a, call.w) /\ HasSlot(call.a)
    BY <1>7, <2>1, NewMemoAccepted
  <2>3. QED  BY <1>10, <2>2 DEF Accepted
<1>11. QED  BY <1>2, <1>8, <1>9, <1>10

\* realloc.
LEMMA ReallocAccepted ==
    ASSUME call \in Calls, RightCall(call), call.op = "realloc", Begun,
           saved \in SavedState, TypeOK, NEW done, Reallocating(done),
           NEW name, InTurn(ReallocCpis, name, done)
    PROVE  Accepted(call, name)
<1> DEFINE old == saved.account[call.a]
           made(r) == [old EXCEPT !.room = r]
<1>1. /\ call.a \in Accounts /\ call.p \in Wallets /\ call.w \in Wallets
      /\ saved.account \in [Accounts -> AccountState \cup {Absent}]
      /\ old \in AccountState /\ old.room \in Nat
      /\ saved.lamports \in [Addresses -> Nat]
  BY ReallocArgs
<1>2. old.owner = call.w
        /\ (old.memo \/ old.room > 0 \/ saved.lamports[call.p] >= 1)
  BY RightCallParts
<1>3. \/ name = "reallocate" /\ done = {}
      \/ name = "enable_required_transfer_memos" /\ done = {"reallocate"}
  BY TurnsOfTwo DEF ReallocCpis
<1>4. /\ lamports = saved.lamports \/ name # "reallocate"
      /\ account = [saved.account EXCEPT ![call.a] =
             made(IF NeedsSlot(call.a) /\ "reallocate" \in done THEN 1
                  ELSE old.room)]
  BY <1>3 DEF Reallocating
<1>5. account[call.a] = made(IF NeedsSlot(call.a) /\ "reallocate" \in done THEN 1
                             ELSE old.room)
  <2> HIDE DEF made
  <2>1. QED  BY <1>1, <1>4
<1> HIDE DEF old
<1>6. CASE name = "reallocate" /\ done = {}
  <2>1. account[call.a] = made(old.room)  BY <1>5, <1>6
  <2>2. account[call.a] \in AccountState /\ account[call.a].owner = call.w
          /\ account[call.a].memo = old.memo /\ account[call.a].room = old.room
    <3>1. old.room \in Rooms  BY <1>1 DEF AccountState
    <3>2. QED  BY <1>1, <1>2, <2>1, <3>1 DEF AccountState
  <2>3. OwnedBy(call.a, call.w)
    BY <2>2, AbsentIsNoState DEF OwnedBy, Open
  <2>4. HasSlot(call.a) \/ lamports[call.p] > 0
    BY <1>1, <1>2, <1>4, <1>6, <2>2, DistinctAddresses DEF HasSlot
  <2>5. QED  BY <1>6, <2>3, <2>4 DEF Accepted
<1>7. CASE name = "enable_required_transfer_memos" /\ done = {"reallocate"}
  <2> DEFINE room == IF NeedsSlot(call.a) THEN 1 ELSE old.room
  <2>1. account[call.a] = made(room)  BY <1>5, <1>7
  <2>2. room \in Rooms /\ (old.memo \/ room > 0)
    BY <1>1, LengthsFitRooms DEF AccountState, NeedsSlot, old
  <2> HIDE DEF room
  <2>3. account[call.a] \in AccountState /\ account[call.a].owner = call.w
          /\ account[call.a].memo = old.memo /\ account[call.a].room = room
    BY <1>1, <1>2, <2>1, <2>2 DEF AccountState
  <2>4. OwnedBy(call.a, call.w) /\ HasSlot(call.a)
    BY <2>2, <2>3, AbsentIsNoState DEF OwnedBy, Open, HasSlot
  <2>5. QED  BY <1>7, <2>4 DEF Accepted
<1>8. QED  BY <1>3, <1>6, <1>7

\* A transfer that was right before the toll or the memo still is: its fee is at
\* most what is transferred, and what two accounts of a mint hold fits a u64.
LEMMA RightTransferAccepted ==
    ASSUME call \in Calls, call.op \in TransferKinds, Begun, LedgerInv,
           saved \in SavedState, NEW done, "transfer_checked" \notin done,
           Transferring(done), MemoBefore(call) = tx.memo,
           RightTransfer(call, tx.memo)
    PROVE  CanTransfer(call)
<1> DEFINE m == call.m
           from == call.from
           to == call.to
           n == call.n
           fee == Fee(mint[m], n)
<1>0. call # Idle  BY IdleIsNoCall
<1>1. m \in Mints /\ from \in Accounts /\ to \in Accounts /\ n \in U64
  BY TransferArgs
<1>2. /\ mint = saved.mint /\ account = saved.account
      /\ amount = saved.amount
  BY DEF Transferring
<1>3. TransferAllowed(m, from, to, call.w, n, tx.memo)
  BY <1>0, <1>2, ChecksOnSaved DEF RightTransfer
<1>4. SUFFICES ASSUME from # to
               PROVE  /\ fee <= n
                      /\ amount[to] + (n - fee) <= MaxU64
                      /\ withheld[to] + fee <= MaxU64
                      /\ AcceptsFee(to, fee)
                      /\ AcceptsHook(m, from, to, FALSE)
  BY <1>3 DEF CanTransfer
<1>5. AcceptsFee(to, fee) /\ AcceptsHook(m, from, to, FALSE)
  <2>1. Committed!AcceptsFee(to, fee) /\ Committed!AcceptsHook(m, from, to, FALSE)
    BY <1>2, <1>4 DEF RightTransfer
  <2> HIDE DEF fee
  <2>2. QED  BY <1>0, <1>2, <2>1, ChecksOnSaved
<1>6. fee \in Nat /\ fee <= n
  <2>1. mint[m] \in MintState
    BY <1>1, <1>2 DEF Begun, LedgerInv, TypeOK
  <2>2. QED  BY <1>1, <2>1, FeeAtMost
<1>7. LedgerTypeOK /\ Conserved  BY TypeOfLedger DEF LedgerInv
<1>8. from \in AccountsOf(m) /\ to \in AccountsOf(m) /\ n <= amount[from]
  BY <1>1, <1>3 DEF AccountsOf, TransferAllowed
<1>9. amount[from] + amount[to] + withheld[from] + withheld[to] + feePool[m]
          <= MaxU64
  BY <1>1, <1>4, <1>7, <1>8, TwoFit
<1>10. /\ amount[from] \in Nat /\ amount[to] \in Nat /\ withheld[from] \in Nat
       /\ withheld[to] \in Nat /\ feePool[m] \in Nat /\ n \in Nat
       /\ MaxU64 \in Nat
  BY <1>1, <1>7, BoundsAreNatural DEF LedgerTypeOK, U64
<1> HIDE DEF fee, n, from, to, m
<1>11. amount[to] + (n - fee) <= MaxU64 /\ withheld[to] + fee <= MaxU64
  BY <1>6, <1>8, <1>9, <1>10
<1>12. QED  BY <1>5, <1>6, <1>11

\* The transfers that make another call first.
LEMMA TransferAccepted ==
    ASSUME call \in Calls, RightCall(call), call.op \in TransferKinds, Begun,
           saved \in SavedState, LedgerInv, NEW done, Transferring(done),
           tx = [signers |-> Signers, memo |-> "build_memo" \in done],
           NEW name, InTurn(CpisOf(call.op), name, done),
           name = "transfer_checked" => MemoBefore(call) = tx.memo
    PROVE  Accepted(call, name)
<1>1. CASE call.op = "memo_transfer"
  <2>1. InTurn(MemoTransferCpis, name, done)
    BY <1>1 DEF CpisOf, ExtensionKinds
  <2>2. \/ name = "build_memo" /\ done = {}
        \/ name = "transfer_checked" /\ done = {"build_memo"}
    BY <2>1, TurnsOfTwo DEF MemoTransferCpis
  <2>3. CASE name = "build_memo"  BY <2>3 DEF Accepted
  <2>4. CASE name = "transfer_checked" /\ done = {"build_memo"}
    <3>1. ("build_memo" \in done) = TRUE  BY <2>4
    <3>2. tx.memo = TRUE  BY <3>1
    <3>3. RightTransfer(call, tx.memo)  BY <1>1, <3>2, RightCallParts
    <3>4. CanTransfer(call)  BY <2>4, <3>3, RightTransferAccepted
    <3>5. QED  BY <2>4, <3>4 DEF Accepted
  <2>5. QED  BY <2>2, <2>3, <2>4
<1>2. CASE call.op = "transfer_token"
  <2>1. InTurn(TransferTokenCpis, name, done)
    BY <1>2 DEF CpisOf, ExtensionKinds
  <2>2. \/ name = "transfer_sol" /\ done = {}
        \/ name = "transfer_checked" /\ done = {"transfer_sol"}
    BY <2>1, TurnsOfTwo DEF TransferTokenCpis
  <2>3. CASE name = "transfer_sol" /\ done = {}
    <3>1. lamports = saved.lamports  BY <2>3 DEF Transferring
    <3>2. QED  BY <1>2, <2>3, <3>1, RightCallParts DEF Accepted
  <2>4. CASE name = "transfer_checked" /\ done = {"transfer_sol"}
    <3>1. ("build_memo" \in done) = FALSE  BY <2>4
    <3>2. tx.memo = FALSE  BY <3>1
    <3>3. RightTransfer(call, tx.memo)  BY <1>2, <3>2, RightCallParts
    <3>4. CanTransfer(call)  BY <2>4, <3>3, RightTransferAccepted
    <3>5. QED  BY <2>4, <3>4 DEF Accepted
  <2>5. QED  BY <2>2, <2>3, <2>4
<1>3. QED  BY <1>1, <1>2 DEF TransferKinds

\* The next call of a right call is accepted, whichever it is.
LEMMA RightCallAccepted ==
    ASSUME CpiInv, LedgerInv, call # Idle, todo # <<>>, RightCall(call)
    PROVE  Accepted(call, Head(todo))
<1>1. call \in Calls /\ saved \in SavedState /\ Begun /\ TypeOK
  BY DEF CpiInv
<1>2. PICK k \in 0 .. Len(CpisOf(call.op)) :
          /\ Underway(k)
          /\ k + 1 \in 0 .. Len(CpisOf(call.op))
          /\ Head(todo) = CpisOf(call.op)[k + 1]
          /\ Head(todo) \in CallsOf(call.op)
          /\ Done(CpisOf(call.op), k) \subseteq CallsOf(call.op)
  BY CallAtHand
<1>3. PICK names, done, name :
          /\ names = CallsOf(call.op) /\ done = Done(CpisOf(call.op), k)
          /\ name = Head(todo)
  OBVIOUS
<1>4. name \in names /\ InTurn(CpisOf(call.op), name, done)
  <2>1. Len(CpisOf(call.op)) \in Nat
    BY <1>1, CpisAreLists DEF IsCallList
  <2>2. k \in 0 .. Len(CpisOf(call.op)) - 1  BY <1>2, <2>1
  <2>3. QED  BY <1>2, <1>3, <2>2 DEF InTurn
<1>5. /\ tx = [signers |-> Signers, memo |-> "build_memo" \in done]
      /\ call.op = "realloc" => Reallocating(done)
      /\ call.op \in TransferKinds => Transferring(done)
  BY <1>2, <1>3 DEF Underway
<1>6. call.op \in CreatingKinds => Ready(names, done)
  BY <1>1, <1>2, <1>3, ReadyAtHand
<1>7. CASE call.op \in ExtensionKinds
  <2>1. InTurn(ExtensionMintCpis, name, done)  BY <1>4, <1>7 DEF CpisOf, ExtensionKinds
  <2>2. Ready(names, done)  BY <1>6, <1>7 DEF CreatingKinds
  <2>3. Accepted(call, name)
    BY <1>1, <1>3, <1>7, <2>1, <2>2, ExtensionMintAccepted
  <2>4. QED  BY <1>3, <2>3
<1>8. CASE call.op \in MintAndAccountKinds
  <2>1. Ready(names, done)  BY <1>6, <1>8 DEF CreatingKinds
  <2>2. Accepted(call, name)
    BY <1>1, <1>3, <1>4, <1>8, <2>1, MintAndAccountAccepted
  <2>3. QED  BY <1>3, <2>2
<1>9. CASE call.op \in TokenAccountKinds
  <2>1. Ready(names, done)  BY <1>6, <1>9 DEF CreatingKinds
  <2>2. Accepted(call, name)
    BY <1>1, <1>3, <1>4, <1>9, <2>1, TokenAccountAccepted
  <2>3. QED  BY <1>3, <2>2
<1>10. CASE call.op = "realloc"
  <2>1. InTurn(ReallocCpis, name, done)
    BY <1>4, <1>10 DEF CpisOf, ExtensionKinds
  <2>2. Accepted(call, name)  BY <1>1, <1>5, <1>10, <2>1, ReallocAccepted
  <2>3. QED  BY <1>3, <2>2
<1>11. CASE call.op \in TransferKinds
  <2>1. name = "transfer_checked" => MemoBefore(call) = tx.memo
    <3>1. todo = ToCall(CpisOf(call.op), k)  BY <1>2 DEF Underway
    <3>2. QED  BY <1>2, <1>3, <1>5, <1>11, <3>1, MemoIsTheLastCall
  <2>2. Accepted(call, name)
    BY <1>1, <1>4, <1>5, <1>11, <2>1, TransferAccepted
  <2>3. QED  BY <1>3, <2>2
<1>12. QED
  BY <1>1, <1>7, <1>8, <1>9, <1>10, <1>11, KindsOfCalls
  DEF CreatingKinds, TransferKinds

\* THEOREM: a transaction whose call was right, for the accounts as they were
\* before it, is never refused half way: no call of a handler leaves less than
\* the next one asks for.
THEOREM RefusedAlwaysForCause == CpiSpec => RefusedForCause
<1>1. CpiInv /\ LedgerInv /\ [CpiNext]_<<vars, cpiVars>>
          => [Refused => ~RightCall(call)]_<<vars, cpiVars>>
  BY RightCallAccepted DEF Refused
<1>2. QED
  BY <1>1, CpiInvariantHolds, LedgersUnderway, PTL DEF CpiSpec, RefusedForCause
=============================================================================

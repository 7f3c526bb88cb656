--------------------------- MODULE AccountCreation ---------------------------
(***************************************************************************)
(* The instructions that create token accounts or add an extension to one. *)
(* The account length the caller passes only has to hold what the mint     *)
(* requires; the slots it leaves unused are "room".                        *)
(***************************************************************************)
EXTENDS Token2022

\* create_account of a keypair address, then initialize_account3 for owner w.
\* The slots already taken by an extension the handler adds come out of room.
CreateTokenAccount(a, m, p, w, room, memo) ==
    LET new == NewAccount(m, mint[m], w, FALSE, room) IN
    /\ Live(m) /\ ~Open(a)
    /\ memo => room > 0
    /\ CreateAccount(p, a, Rent(Slots(new)))
    /\ InitializeAccount(a, [new EXCEPT !.memo = memo,
                                        !.room = IF memo THEN @ - 1 ELSE @])
    /\ Signed({p, w})
    /\ UNCHANGED <<mint, ledger, metaLists>>

EnableMemo(a, m, p, w, room) == CreateTokenAccount(a, m, p, w, room, TRUE)

\* Only the mint authority opens these accounts.  Neither handler initialises an
\* extension: the slots stay empty.
InitializeTokenAccountWith(a, m, p, w, room) ==
    /\ Live(m) /\ mint[m].authority = w
    /\ CreateTokenAccount(a, m, p, w, room, FALSE)

InitializeConfidentialAccount(a, m, p, w, room) ==
    /\ Live(m) /\ mint[m].authority = w
    /\ CreateTokenAccount(a, m, p, w, room, FALSE)

\* create_idempotent: an associated account that exists is left alone, whatever
\* became of its mint since; the wallet does not sign.
CreateAta(w, m, p) ==
    /\ Live(m)
    /\ \/ Open(Ata(w, m)) /\ UNCHANGED <<account, lamports>>
       \/ LET new == NewAccount(m, mint[m], w, TRUE, 0) IN
          /\ ~Open(Ata(w, m))
          /\ CreateAccount(p, Ata(w, m), Rent(Slots(new)))
          /\ InitializeAccount(Ata(w, m), new)
    /\ Signed({p})
    /\ UNCHANGED <<mint, ledger, metaLists>>

\* Variant of Realloc: the rent of the new slot is not paid.
ReallocWithoutTopUp(a, p, w) ==
    /\ Open(a) /\ account[a].owner = w
    /\ account' = [account EXCEPT ![a].memo = TRUE]
    /\ Signed({p, w})
    /\ UNCHANGED <<mint, ledger, lamports, metaLists>>

\* reallocate adds a slot when the memo extension has none, and tops up the
\* rent; enable_required_transfer_memos then takes the slot.  The mint is not
\* read, it may be closed.
Realloc(a, p, w) ==
    /\ Open(a)
    /\ account[a].owner = w
    /\ \/ account[a].memo /\ UNCHANGED <<account, lamports>>
       \/ /\ ~account[a].memo /\ account[a].room > 0
          /\ account' = [account EXCEPT ![a].memo = TRUE, ![a].room = @ - 1]
          /\ UNCHANGED lamports
       \/ /\ ~account[a].memo /\ account[a].room = 0
          /\ lamports[p] > 0
          /\ lamports' = [lamports EXCEPT ![p] = @ - 1, ![a] = @ + 1]
          /\ account' = [account EXCEPT ![a].memo = TRUE]
    /\ Signed({p, w})
    /\ UNCHANGED <<mint, ledger, metaLists>>
=============================================================================

------------------------------- MODULE Metadata -------------------------------
(***************************************************************************)
(* Mints that carry their own metadata.  initialize_metadata_pointer pays  *)
(* rent once, for twice the length of the mint; Token-2022 then grows and  *)
(* shrinks the account with the texts, and the runtime refuses a length    *)
(* that the SOL of the mint does not pay for.  No instruction adds to that *)
(* SOL.  A text is represented by its length.                              *)
(***************************************************************************)
EXTENDS TokenExtension

CONSTANTS
    UserKeys,     \* keys of Field::Key
    TextLengths,  \* bound: lengths of a text, in units of rent
    Overhead      \* length prefixes and authority of TokenMetadata

ASSUME LengthsAreNatural ==
    TextLengths \subseteq Nat /\ Overhead \in Nat /\ IsFiniteSet(TextLengths)

VARIABLE texts    \* the fields of the metadata of each mint, their lengths

metadataVars == <<vars, texts>>

StandardFields == {"name", "symbol", "uri"}
Fields         == StandardFields \cup UserKeys

\* name, symbol and uri are always there, a key once it was added.
Texts == UNION {[StandardFields \cup K -> TextLengths] : K \in SUBSET UserKeys}

ASSUME AbsentIsNoText == Absent \notin Texts

\* A mint with metadata t.  A key takes as much as one unit of text.
LongestText == CHOOSE n \in TextLengths : \A k \in TextLengths : k <= n
LengthWith(t) ==
    MetadataMintLen + Overhead + Sum(t, DOMAIN t, LongestText)
        + Cardinality(DOMAIN t \cap UserKeys)

\* Rent::minimum_balance of a length counts units, one SOL unit each.
PaidFor(m, t) == LengthWith(t) <= lamports'[m]

MetadataInit == Init /\ texts = [m \in Mints |-> Absent]

\* name, symbol and uri must not be empty; initialize_metadata appends them.
InitializeMetadata(m, p, w, t) ==
    /\ \A f \in StandardFields : t[f] > 0
    /\ InitializeMetadataPointer(m, p, w)
    /\ PaidFor(m, t)
    /\ texts' = [texts EXCEPT ![m] = t]

With(t, field, n) == [f \in DOMAIN t \cup {field} |-> IF f = field THEN n ELSE t[f]]

\* Variant of UpdateField: the rent of what was cut off goes to the payer.
UpdateRefunding(m, p, w, field, n) ==
    LET t == With(texts[m], field, n)
        excess == lamports[m] - LengthWith(t)
    IN  /\ Live(m) /\ mint[m].metadata /\ mint[m].authority = w
        /\ excess >= 0
        /\ lamports' = [lamports EXCEPT ![m] = @ - excess, ![p] = @ + excess]
        /\ texts' = [texts EXCEPT ![m] = t]
        /\ Signed({p, w})
        /\ UNCHANGED <<mint, account, ledger, metaLists>>

\* update_field sets a field, or adds a key; nothing removes one.  The value may
\* be empty.
UpdateField(m, p, w, field, n) ==
    /\ UpdateMetadataField(m, p, w)
    /\ PaidFor(m, With(texts[m], field, n))
    /\ texts' = [texts EXCEPT ![m] = With(@, field, n)]

\* Every other instruction leaves the texts alone.
MetadataNext ==
    \/ \E m \in Mints, p, w \in Wallets :
           \/ \E t \in [StandardFields -> TextLengths] :
                  InitializeMetadata(m, p, w, t)
           \/ \E field \in Fields, n \in TextLengths :
                  UpdateField(m, p, w, field, n)
    \/ /\ \/ CreateMintStep \/ ChangeMintStep \/ AccountStep
          \/ TokenStep \/ FeeStep \/ ClientStep
       /\ UNCHANGED texts

MetadataSpec == MetadataInit /\ [][MetadataNext]_metadataVars

-----------------------------------------------------------------------------
(* Properties.                                                             *)

\* The rent paid at the start is all that the texts ever get, and all of it stays
\* with the mint: through any sequence of updates and of new keys, exactly the live
\* mints with metadata have texts, they hold the SOL they were created with, which
\* pays for the texts, and nobody can close them.
TextsPaid ==
    /\ texts \in [Mints -> Texts \cup {Absent}]
    /\ \A m \in Mints :
           IF Live(m) /\ mint[m].metadata
           THEN /\ texts[m] # Absent
                /\ mint[m].close = NoOne
                /\ lamports[m] = 2 * MetadataMintLen
                /\ LengthWith(texts[m]) <= lamports[m]
           ELSE texts[m] = Absent
=============================================================================

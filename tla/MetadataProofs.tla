---------------------------- MODULE MetadataProofs ----------------------------
(***************************************************************************)
(* Mints with metadata, for every value of the constants: the rent paid    *)
(* once keeps paying for the texts.  The argument is about SOL: a mint     *)
(* without a close authority is never closed, and the SOL of a mint that   *)
(* is not closed never changes.                                            *)
(***************************************************************************)
EXTENDS RentProofs, Metadata

-----------------------------------------------------------------------------
(* The texts and the SOL that pays for them.                               *)

\* A step of another instruction keeps the invariant: nobody has the key that
\* would close a mint with texts.
LEMMA OthersKeepTexts ==
    ASSUME TextsPaid, MintsKept, UNCHANGED texts
    PROVE  TextsPaid'
<1>1. texts' \in [Mints -> Texts \cup {Absent}]  BY DEF TextsPaid
<1>2. ASSUME NEW m \in Mints
      PROVE  IF mint'[m] # Absent /\ mint'[m].metadata
             THEN /\ texts'[m] # Absent
                  /\ mint'[m].close = NoOne
                  /\ lamports'[m] = 2 * MetadataMintLen
                  /\ LengthWith(texts'[m]) <= lamports'[m]
             ELSE texts'[m] = Absent
  <2>1. CASE Live(m) /\ mint[m].metadata
    <3>1. /\ texts[m] # Absent /\ mint[m].close = NoOne
          /\ lamports[m] = 2 * MetadataMintLen
          /\ LengthWith(texts[m]) <= lamports[m]
      BY <2>1 DEF TextsPaid
    <3>2. LiveMintKept(m)  BY <2>1 DEF MintsKept
    <3>3. QED  BY <2>1, <3>1, <3>2, NoOneSigns DEF LiveMintKept
  <2>2. CASE Live(m) /\ ~mint[m].metadata
    <3>1. texts[m] = Absent  BY <2>2 DEF TextsPaid
    <3>2. LiveMintKept(m)  BY <2>2 DEF MintsKept
    <3>3. QED  BY <2>2, <3>1, <3>2 DEF LiveMintKept
  <2>3. CASE ~Live(m)
    BY <2>3 DEF TextsPaid, MintsKept
  <2>4. QED  BY <2>1, <2>2, <2>3
<1>3. QED  BY <1>1, <1>2 DEF TextsPaid, Live, LengthWith

\* update_field leaves texts that are texts.
LEMMA WithType ==
    ASSUME NEW t \in Texts, NEW field \in Fields, NEW n \in TextLengths
    PROVE  With(t, field, n) \in Texts
<1>1. PICK K \in SUBSET UserKeys : t \in [StandardFields \cup K -> TextLengths]
  BY DEF Texts
<1> DEFINE L == K \cup ({field} \cap UserKeys)
<1>2. (StandardFields \cup K) \cup {field} = StandardFields \cup L
  BY DEF Fields
<1>3. With(t, field, n) \in [StandardFields \cup L -> TextLengths]
  BY <1>1, <1>2 DEF With
<1>4. L \in SUBSET UserKeys  OBVIOUS
<1> HIDE DEF L
<1>5. QED  BY <1>3, <1>4 DEF Texts

\* initialize_metadata only writes texts that the rent of the mint pays for.
LEMMA InitializeMetadataPaid ==
    ASSUME TypeOK, TextsPaid, NEW m \in Mints, NEW p \in Wallets,
           NEW w \in Wallets, NEW t \in [StandardFields -> TextLengths],
           InitializeMetadata(m, p, w, t)
    PROVE  TextsPaid'
<1>1. /\ InitializeMetadataPointer(m, p, w) /\ LengthWith(t) <= lamports'[m]
      /\ texts' = [texts EXCEPT ![m] = t]
  BY DEF InitializeMetadata, PaidFor
<1>2. t \in Texts /\ t # Absent
  <2>1. {} \in SUBSET UserKeys /\ StandardFields \cup {} = StandardFields  OBVIOUS
  <2>2. t \in Texts  BY <2>1 DEF Texts
  <2>3. QED  BY <2>2, AbsentIsNoText
<1>3. /\ mint'[m] # Absent /\ mint'[m].metadata = TRUE
      /\ \A q \in Mints \ {m} :
             mint'[q] = mint[q] /\ lamports'[q] = lamports[q]
  <2>1. Created(m, p, w, TRUE)  BY <1>1, MetadataPointerCreates
  <2>2. QED  BY <2>1, CreatedKeepsOthers
<1>4. mint'[m].close = NoOne
  BY <1>1 DEF InitializeMetadataPointer, CreateFundedMint, InitializeMint,
              PlainMint, TypeOK
<1>5. lamports'[m] = 2 * MetadataMintLen
  BY <1>1, AddressKinds
  DEF InitializeMetadataPointer, CreateFundedMint, CreateAccount, TypeOK
<1>6. /\ texts' \in [Mints -> Texts \cup {Absent}] /\ texts'[m] = t
      /\ \A q \in Mints \ {m} : texts'[q] = texts[q]
  BY <1>1, <1>2 DEF TextsPaid
<1>7. QED
  BY <1>1, <1>2, <1>3, <1>4, <1>5, <1>6 DEF TextsPaid, Live

\* So does update_field.
LEMMA UpdateFieldPaid ==
    ASSUME TextsPaid, NEW m \in Mints, NEW p, NEW w, NEW field \in Fields,
           NEW n \in TextLengths, UpdateField(m, p, w, field, n)
    PROVE  TextsPaid'
<1> DEFINE t == With(texts[m], field, n)
<1>1. /\ Live(m) /\ mint[m].metadata /\ UNCHANGED <<mint, lamports>>
      /\ LengthWith(t) <= lamports'[m] /\ texts' = [texts EXCEPT ![m] = t]
  BY DEF UpdateField, UpdateMetadataField, PaidFor
<1>2. texts[m] \in Texts  BY <1>1 DEF TextsPaid
<1>3. t \in Texts /\ t # Absent  BY <1>2, WithType, AbsentIsNoText
<1> HIDE DEF t
<1>4. /\ texts' \in [Mints -> Texts \cup {Absent}] /\ texts'[m] = t
      /\ \A q \in Mints \ {m} : texts'[q] = texts[q]
  BY <1>1, <1>3 DEF TextsPaid
<1>5. QED  BY <1>1, <1>3, <1>4 DEF TextsPaid, Live

-----------------------------------------------------------------------------
(* The theorems.                                                           *)

\* Every step of MetadataSpec keeps the invariant.
LEMMA MetadataNextPaid ==
    ASSUME TypeOK, TextsPaid, [MetadataNext]_metadataVars
    PROVE  TextsPaid'
<1>1. ASSUME NEW m \in Mints, NEW p \in Wallets, NEW w \in Wallets,
             NEW t \in [StandardFields -> TextLengths],
             InitializeMetadata(m, p, w, t)
      PROVE  TextsPaid'
  BY <1>1, InitializeMetadataPaid
<1>2. ASSUME NEW m \in Mints, NEW p \in Wallets, NEW w \in Wallets,
             NEW field \in Fields, NEW n \in TextLengths,
             UpdateField(m, p, w, field, n)
      PROVE  TextsPaid'
  BY <1>2, UpdateFieldPaid
<1>3. CASE /\ \/ CreateMintStep \/ ChangeMintStep \/ AccountStep
              \/ TokenStep \/ FeeStep \/ ClientStep
           /\ UNCHANGED texts
  BY <1>3, CreateMintStepKeeps, ChangeMintStepKeeps, AccountStepKeeps,
     TokenStepKeeps, FeeAndClientStepKeep, OthersKeepTexts
<1>4. CASE UNCHANGED metadataVars
  BY <1>4 DEF metadataVars, vars, TextsPaid, Live, LengthWith
<1>5. QED  BY <1>1, <1>2, <1>3, <1>4 DEF MetadataNext

\* What is proved of Spec holds of mints with metadata: the instructions act on
\* everything but the texts as those of TokenExtension do.
LEMMA MetadataKeepsSpec == MetadataSpec => Spec
<1>1. MetadataInit => Init  BY DEF MetadataInit
<1>2. [MetadataNext]_metadataVars => [Next]_vars
  <2>1. ASSUME NEW m \in Mints, NEW p \in Wallets, NEW w \in Wallets,
               NEW t, InitializeMetadata(m, p, w, t)
        PROVE  MetadataStep
    BY <2>1 DEF InitializeMetadata, MetadataStep
  <2>2. ASSUME NEW m \in Mints, NEW p \in Wallets, NEW w \in Wallets,
               NEW field, NEW n, UpdateField(m, p, w, field, n)
        PROVE  MetadataStep
    BY <2>2 DEF UpdateField, MetadataStep
  <2>3. CASE UNCHANGED metadataVars  BY <2>3 DEF metadataVars
  <2>4. QED  BY <2>1, <2>2, <2>3 DEF MetadataNext, Next
<1>3. QED  BY <1>1, <1>2, PTL DEF MetadataSpec, Spec

\* In every reachable state exactly the live mints with a metadata pointer have
\* texts, they hold the SOL they were created with, which pays for the texts, and
\* nobody can close them.
THEOREM TextsAlwaysPaid == MetadataSpec => []TextsPaid
<1>1. MetadataInit => TextsPaid  BY DEF MetadataInit, Init, TextsPaid, Live
<1>2. TypeOK /\ TextsPaid /\ [MetadataNext]_metadataVars => TextsPaid'
  BY MetadataNextPaid
<1>3. MetadataSpec => []TypeOK  BY MetadataKeepsSpec, TypeCorrect, PTL
<1>4. QED  BY <1>1, <1>2, <1>3, PTL DEF MetadataSpec
=============================================================================

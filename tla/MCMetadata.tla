------------------------------ MODULE MCMetadata ------------------------------
(***************************************************************************)
(* Metadata that grows, shrinks and gains keys, next to the movement of    *)
(* the tokens of the mint.                                                 *)
(***************************************************************************)
EXTENDS Metadata

CONSTANTS
    Boss,      \* the wallet that creates the mint and pays
    Amounts    \* bound: amounts of a transaction

GrowingNext ==
    \/ \E m \in Mints, t \in [StandardFields -> TextLengths] :
           InitializeMetadata(m, Boss, Boss, t)
    \/ \E m \in Mints, p, w \in Wallets, field \in Fields, n \in TextLengths :
           UpdateField(m, p, w, field, n)
    \/ /\ \/ \E m \in Mints :
                 MintCloseAuthority(m, Boss, Boss) \/ CloseMintAccount(m, Boss, Boss)
          \/ \E m \in Mints, w \in Wallets : CreateAta(w, m, Boss)
          \/ \E m \in Mints, n \in Amounts :
                 MintTo(m, Boss, n) \/ BurnCpi(m, Ata(Boss, m), Boss, n)
       /\ UNCHANGED texts

GrowingSpec == MetadataInit /\ [][GrowingNext]_metadataVars
=============================================================================

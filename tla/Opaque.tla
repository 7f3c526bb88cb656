-------------------------------- MODULE Opaque --------------------------------
(***************************************************************************)
(* The opaque program: its only instruction moves SOL out of the wallet    *)
(* whose signature the caller passes on.                                   *)
(***************************************************************************)
EXTENDS Token2022

\* Variant of TransferSol: the balance is not checked.
TransferSolUnchecked(from, to, n) ==
    LET paid == [lamports EXCEPT ![from] = @ - n]
    IN  lamports' = [paid EXCEPT ![to] = @ + n]

\* transfer_sol: system_instruction::transfer of n lamports.
TransferSol(from, to, n) ==
    /\ lamports[from] >= n
    /\ LET paid == [lamports EXCEPT ![from] = @ - n]
       IN  lamports' = [paid EXCEPT ![to] = @ + n]
=============================================================================

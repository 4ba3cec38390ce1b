------------------------ MODULE BscAssemblerRefinement ------------------------
(***************************************************************************)
(* The refinement mapping from the assembler pipeline (BscAssembler) to    *)
(* the oracle channel's promise (OracleChannel).  BSC's send sequence is   *)
(* the channel's; a sequence counts as voted once any relayer's database   *)
(* holds it AllVoted (or Delivered, which it reaches only from AllVoted);  *)
(* Greenfield's receive sequence and the claimer of each sequence are the  *)
(* channel's delivery state.                                               *)
(***************************************************************************)
EXTENDS BscAssembler

\* The sequences some relayer's vote processor has marked all-voted.
VotedSeqs ==
    {s \in Seqs : \E r \in Relayers : pkgStatus[r][s] \in {"AllVoted", "Delivered"}}

Oracle == INSTANCE OracleChannel WITH
    sent <- sendSeq,
    voted <- VotedSeqs,
    delivered <- receiveSeq,
    deliverer <- claimer

\* The pipeline implements the oracle channel: BSC's sequences reach
\* Greenfield in order, each once, each only after its votes are collected,
\* whatever the relayers' interleaving, faults, restarts and validator
\* changes.  Every assembler, listener and vote-processor step is a step
\* of the channel or leaves its state alone.
OracleImplemented == Oracle!Spec

=============================================================================

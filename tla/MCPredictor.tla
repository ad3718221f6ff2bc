-------------------------- MODULE MCPredictor --------------------------
(* A small instance of BranchHistory and CbpAdapter. *)
EXTENDS CbpAdapter

MCInsns == {[kind |-> "cond", bit |-> 0], [kind |-> "jump", bit |-> 1], [kind |-> "other", bit |-> 0]}

\* A history as long as its fold; the other shapes are in the algebra.
MCFoldShapes == {<<2, 2>>}

\* Only the snapshot of an unresolved branch is ever read, from the checkpoint
\* once it is in the ROB, and which tag it has does not matter.  Only the slot of
\* a branch in flight is read.
Seen(e) == IF e.resolved THEN <<e.insn, e.taken>> ELSE <<e.insn, e.taken, e.exact>>
View ==
    IF driver = "cbp"
    THEN <<histories, foldedHistory, lookup, queue, rob, call, seq_no, predictionPc, predictions,
           [id \in DOMAIN predictions |-> savedMeta[predictions[id].slot]]>>
    ELSE <<histories, foldedHistory, lookup, queue, synced,
      [k \in DOMAIN window |-> <<Seen(window[k]), IF window[k].resolved THEN 0 ELSE window[k].meta>>],
      [k \in DOMAIN rob |-> <<Seen(rob[k]), IF rob[k].resolved THEN 0 ELSE checkpoints[Tag(k)]>>]>>
=============================================================================

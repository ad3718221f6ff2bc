----------------------------- MODULE CbpAdapter -----------------------------
(* cbp_rtl_interface.cc: the CBP2025 simulator drives the same predictor       *)
(* through CbpRtlPredictor, call by call.  One action is one tick of the       *)
(* predictor's clock; a call is one to three of them.  The simulator is        *)
(* external: it runs the correct path, tells every direction right after the   *)
(* prediction, and commits in order.  In a behaviour the predictor belongs     *)
(* either to the core (BranchHistory) or to the simulator.                     *)
EXTENDS BranchHistory

CONSTANTS SlotNum,       \* META_SLOT_NUM
          InFlight,      \* instructions that the simulator may have in flight
          PieceNum       \* pieces that unique_id tells apart

\* "With 4096 slots this safely exceeds the official simulator's 1024-instruction
\* window."
ASSUME SlotsSuffice ==
    SlotNum \in Nat \ {0} /\ InFlight \in 1 .. SlotNum /\ PieceNum \in Nat \ {0}

VARIABLES driver,        \* "core" or "cbp"
          call,          \* the call in progress
          seq_no,        \* of the next instruction, modulo SeqNum
          predictionPc,  \* the instruction whose PC was queried last
          predictions,   \* PredictionContext by id
          savedMeta      \* CbpRtlPredictor: prediction-time metadata by slot

adapterVars == <<call, seq_no, predictionPc, predictions, savedMeta>>
allVars == <<vars, driver, adapterVars>>

\* Sequence numbers wrap after the slots have been used twice.
SeqNum == 2 * SlotNum
age(s) == (seq_no + SeqNum - s) % SeqNum

unique_id(s) == PieceNum * s

\* Fault: the slot is taken from the id, which has the piece in its low bits.
meta_slot_OfId(s) == unique_id(s) % SlotNum

meta_slot(s) == s % SlotNum

Idle == [op |-> "idle"]
Empty == [s \in {} |-> NoHint]

AdapterInit ==
    /\ Init
    /\ driver \in {"core", "cbp"}
    /\ call = Idle /\ seq_no = 0 /\ predictionPc = NoHint
    /\ predictions = Empty
    /\ savedMeta = [n \in 0 .. SlotNum - 1 |-> Speculative]

--------------------------------------------------------------------------------

\* tick: the history takes es, retirement takes done, and a lookup is launched.
tick(es, done) ==
    /\ \E s \in {Outcomes(Speculative, es)},
          folds \in {[sh \in FoldShapes |->
                       speculativeFoldNext(foldedHistory[sh], Speculative, es, sh)]} :
            SetSpeculative(s, folds) /\ Launch(s, folds, NoHint)
    /\ Train(done) /\ CommitHistory(done)
    /\ UNCHANGED <<window, robHead, checkpoints, synced, driver>>

\* Every instruction has the next number.  An instruction that is no branch, and
\* the calls that do nothing, need nothing else.
Number == seq_no' = (seq_no + 1) % SeqNum
roomInWindow == \A k \in DOMAIN rob : age(rob[k].seq_no) < InFlight

OtherInsn ==
    /\ call = Idle /\ roomInWindow /\ rob # <<>>
    /\ Number
    /\ UNCHANGED <<vars, driver, call, predictionPc, predictions, savedMeta>>

\* The first tick of get_cond_dir_prediction.
Query(insn) ==
    /\ call = Idle /\ roomInWindow /\ Len(rob) < RobSize /\ insn.kind = "cond"
    /\ tick(<<>>, <<>>)
    /\ predictionPc' = insn
    /\ call' = [op |-> "save", insn |-> insn]
    /\ UNCHANGED <<rob, seq_no, predictions, savedMeta>>

\* Its second tick: the answer of the lookup goes into the slot of the branch.
SaveMeta ==
    /\ call.op = "save"
    /\ tick(<<>>, <<>>)
    /\ predictions' = [id \in DOMAIN predictions \cup {unique_id(seq_no)} |->
           IF id = unique_id(seq_no) THEN [actual_known |-> FALSE, slot |-> meta_slot(seq_no)]
           ELSE predictions[id]]
    /\ savedMeta' = [savedMeta EXCEPT ![meta_slot(seq_no)] = lookup.snapshot]
    /\ call' = [call EXCEPT !.op = "predicted"]
    /\ UNCHANGED <<rob, seq_no, predictionPc>>

\* spec_update of an unconditional branch begins with a tick that queries its PC.
Prime(insn) ==
    /\ call = Idle /\ roomInWindow /\ Len(rob) < RobSize /\ insn.kind = "jump"
    /\ tick(<<>>, <<>>)
    /\ predictionPc' = insn
    /\ call' = [op |-> "update", insn |-> insn]
    /\ UNCHANGED <<rob, seq_no, predictions, savedMeta>>

\* The tick of spec_update that moves the histories.  The path history hashes the
\* PC that was queried last.
SpecUpdate(taken) ==
    /\ call.op \in {"predicted", "update"}
    /\ call.insn.kind = "jump" => taken
    /\ tick(<<[insn |-> [call.insn EXCEPT !.bit = predictionPc.bit], taken |-> taken]>>, <<>>)
    /\ predictions' = [id \in DOMAIN predictions |->
           IF id = unique_id(seq_no) THEN [predictions[id] EXCEPT !.actual_known = TRUE]
           ELSE predictions[id]]
    /\ rob' = Append(rob, [insn |-> call.insn, taken |-> taken, seq_no |-> seq_no])
    /\ Number /\ call' = Idle
    /\ UNCHANGED <<predictionPc, savedMeta>>

\* notify_instr_execute_resolve, of any branch in flight: spec_update has told all.
Resolve(k) ==
    /\ call = Idle /\ IsCond(rob[k])
    /\ predictions' = [predictions EXCEPT ![unique_id(rob[k].seq_no)].actual_known = TRUE]
    /\ UNCHANGED <<vars, driver, call, seq_no, predictionPc, savedMeta>>

\* notify_instr_commit: wait_for_commit_port, and the tick that hands the branch to
\* the training queue.
Commit ==
    /\ call = Idle \/ call.op = "predicted"
    /\ rob # <<>> /\ updateReady
    /\ tick(<<>>, <<Head(rob)>>)
    /\ rob' = Tail(rob)
    /\ call' = [op |-> "train", entry |-> Head(rob), resume |-> call]
    /\ UNCHANGED <<seq_no, predictionPc, predictions, savedMeta>>

\* Fault: the context of the committed branch stays.
erased_Nothing(entry) == predictions

\* predictions.erase: a number that comes back finds nothing of its last owner.
erased(entry) ==
    [id \in {i \in DOMAIN predictions : IsCond(entry) => i # unique_id(entry.seq_no)} |-> predictions[id]]

\* The tick on which the record leaves the queue, and the end of the call.
TrainTick ==
    /\ call.op = "train"
    /\ tick(<<>>, <<>>)
    /\ predictions' = erased(call.entry)
    /\ call' = call.resume
    /\ UNCHANGED <<rob, seq_no, predictionPc, savedMeta>>

AdapterNext ==
    \/ driver = "core" /\ Next /\ UNCHANGED <<driver, adapterVars>>
    \/ /\ driver = "cbp"
       /\ \/ OtherInsn \/ SaveMeta \/ Commit \/ TrainTick
          \/ \E insn \in Insns : Query(insn) \/ Prime(insn)
          \/ \E taken \in BOOLEAN : SpecUpdate(taken)
          \/ \E k \in DOMAIN rob : Resolve(k)

AdapterSpec == AdapterInit /\ [][AdapterNext]_allVars

--------------------------------------------------------------------------------
(* Properties.                                                                 *)

\* A branch trains the tables with the histories it was predicted with: its slot
\* holds, until it commits, the histories of exactly the control flow before it
\* (get_cond_dir_prediction, notify_instr_commit).
TrainsOnOwnPrediction ==
    driver = "cbp" =>
        \A k \in DOMAIN rob : IsCond(rob[k]) =>
            savedMeta[meta_slot(rob[k].seq_no)] = After(Committed, rob)[k - 1]

\* Between two calls the training queue is empty, the contexts are those of the
\* conditional branches in flight, and the asserts of the calls to come hold.
CallsLeaveNothingBehind ==
    driver = "cbp" /\ call.op \in {"idle", "predicted"} =>
        LET known == {unique_id(rob[k].seq_no) : k \in {j \in DOMAIN rob : IsCond(rob[j])}}
        IN  /\ queue = 0
            /\ DOMAIN predictions
                 = known \cup {unique_id(seq_no) : p \in {"predicted"} \cap {call.op}}
            /\ \A id \in known : predictions[id].actual_known
=============================================================================

--------------------------- MODULE BranchHistory ---------------------------
(***************************************************************************)
(* The speculative histories of the branch predictor (TagePredictor,       *)
(* TageFoldedHistory, TageUpdateQueue) with the path a branch takes        *)
(* through the core: lookup, fetch queue, ROB, resolution, retirement.     *)
(*                                                                         *)
(* Each clock edge launches a table lookup and, on the same edge, may      *)
(* accept the response to the previous one, record dispatched checkpoints, *)
(* resolve a branch, retire a branch or restart the front end.  An         *)
(* instruction is a kind and the bit its PC contributes to the path        *)
(* history; which way the tables predict it, and whether the BTB knows it, *)
(* is left open.  A history is a function from age to bit, 0 the newest.   *)
(* The IMLI counter, the loop predictor and the tables are not in here.    *)
(***************************************************************************)
EXTENDS Naturals, FiniteSets, Sequences

CONSTANTS
    Insns,            \* [kind : {"cond", "jump", "other"}, bit : 0 .. 1]
    HistoryWidth,     \* TAGE_HISTORY_WIDTH
    PathWidth,        \* TAGE_PATH_HISTORY_WIDTH
    FoldShapes,       \* pairs <<HISTORY_LENGTH, FOLD_WIDTH>>
    AlgebraWidth,     \* history width up to which one fold step is checked on its own
    WindowDepth,      \* entries of the fetch queue
    RobSize,          \* ROB_ENTRY_NUM
    QueueDepth        \* DEPTH of TageUpdateQueue

Bits == 0 .. 1

ASSUME InsnsAssumption == Insns \subseteq [kind : {"cond", "jump", "other"}, bit : Bits]
ASSUME SizesAssumption ==
    /\ HistoryWidth \in Nat \ {0} /\ PathWidth \in Nat \ {0} /\ RobSize \in Nat \ {0}
    /\ WindowDepth \in Nat /\ AlgebraWidth \in Nat
ASSUME ShapesFit ==
    \A s \in FoldShapes : s[1] \in 1 .. HistoryWidth /\ s[2] \in Nat \ {0}
ASSUME QueueHolds == QueueDepth \in Nat \ {0}

VARIABLES
    globalHistory, committedHistory,            \* directions
    globalPathHistory, committedPathHistory,    \* hashed control-flow events
    foldedHistory,                              \* one register per fold shape
    lookup,        \* what the lookup in flight was launched with
    window,        \* the fetch queue
    rob, robHead,  \* in-flight entries, oldest first, and the oldest one's tag
    checkpoints,   \* robHistoryCheckpoint and robPathHistoryCheckpoint
    queue,         \* how many records TageUpdateQueue holds
    synced         \* no restored checkpoint has missed a direction since the last trap

histories == <<globalHistory, committedHistory, globalPathHistory, committedPathHistory>>
vars == <<histories, foldedHistory, lookup, window, rob, robHead, checkpoints, queue, synced>>

Tags == 0 .. RobSize - 1
Histories == [0 .. HistoryWidth - 1 -> Bits]
Paths == [0 .. PathWidth - 1 -> Bits]
Snapshots == [history : Histories, path : Paths]
\* What the BTB says of slot 0: nothing, or the control-flow instruction it knows.
NoHint == [kind |-> "other", bit |-> 0]
Hints == {i \in Insns : i.kind # "other"} \union {NoHint}
Bit(b) == IF b THEN 1 ELSE 0
Min2(a, b) == IF a < b THEN a ELSE b

IsCond(e) == e.insn.kind = "cond"
IsControl(e) == e.insn.kind # "other"

-----------------------------------------------------------------------------
(* The two kinds of history, and the folds of the first.                   *)

Shift(h, b) == [i \in DOMAIN h |-> IF i = 0 THEN b ELSE h[i - 1]]

advancePathHistory(p, insn, taken) == Shift(p, (insn.bit + Bit(taken)) % 2)

\* The direction history and the path history after entry e went e.taken.
Outcome(s, e) ==
    [history |-> IF IsCond(e) THEN Shift(s.history, Bit(e.taken)) ELSE s.history,
     path |-> IF IsControl(e) THEN advancePathHistory(s.path, e.insn, e.taken) ELSE s.path]

\* The same after the entries of es, one after the other.
Outcomes(s, es) ==
    CASE Len(es) = 0 -> s
      [] Len(es) = 1 -> Outcome(s, es[1])
      [] OTHER -> Outcome(Outcome(s, es[1]), es[2])

\* The reference: bit j of the fold is the parity of the window's bits j, j + W, ...
foldHistory(h, shape) ==
    [j \in 0 .. shape[2] - 1 |->
        Cardinality({i \in 0 .. shape[1] - 1 : i % shape[2] = j /\ h[i] = 1}) % 2]

\* Fault: the outgoing bit is removed before the rotation.
advanceFold_OldPosition(f, out, in, shape) ==
    [j \in DOMAIN f |->
        (f[(j + shape[2] - 1) % shape[2]] + (IF j = 0 THEN in ELSE 0)
          + (IF j = (shape[1] - 1) % shape[2] THEN out ELSE 0)) % 2]

\* Rotate, let the new direction in, take out the one that leaves the window.
advanceFold(f, out, in, shape) ==
    [j \in DOMAIN f |->
        (f[(j + shape[2] - 1) % shape[2]] + (IF j = 0 THEN in ELSE 0)
          + (IF j = shape[1] % shape[2] THEN out ELSE 0)) % 2]

\* The fold after the entries of es, taken one after the other from history h.
FoldStep(f, h, e, shape) ==
    IF IsCond(e) THEN advanceFold(f, h[shape[1] - 1], Bit(e.taken), shape) ELSE f

speculativeFoldNext(f, s, es, shape) ==
    CASE Len(es) = 0 -> f
      [] Len(es) = 1 -> FoldStep(f, s.history, es[1], shape)
      [] OTHER -> FoldStep(FoldStep(f, s.history, es[1], shape),
                           Outcome(s, es[1]).history, es[2], shape)

Speculative == [history |-> globalHistory, path |-> globalPathHistory]
Committed == [history |-> committedHistory, path |-> committedPathHistory]

-----------------------------------------------------------------------------
(* Launching the next lookup.                                              *)

\* Slot 1 is only used when slot 0 falls through, so it is looked up as if slot 0
\* was not taken; all that is known of slot 0 then is what the BTB says.
slot1Snapshot(s, hint) == Outcome(s, [insn |-> hint, taken |-> FALSE])

slot1Fold(f, s, hint, shape) ==
    FoldStep(f, s.history, [insn |-> hint, taken |-> FALSE], shape)

\* The lookup launched at this edge, from the histories that hold after it.
Launch(s, folds, hint) ==
    lookup' = [hint |-> hint, snapshot |-> s,
               snapshot1 |-> slot1Snapshot(s, hint),
               fold |-> folds,
               fold1 |-> [shape \in FoldShapes |-> slot1Fold(folds[shape], s, hint, shape)]]

\* The histories an edge leaves in place when it restores nothing, or restores s.
SetSpeculative(s, folds) ==
    /\ globalHistory' = s.history
    /\ globalPathHistory' = s.path
    /\ foldedHistory' = folds

-----------------------------------------------------------------------------
(* The path of an instruction.                                             *)

\* What the BTB knows of slot 0 is right, and is all that slot 0 adds.
HintFits(insn) == lookup.hint \in {NoHint, insn}
HintSaw(insn) == insn.kind = "other" \/ lookup.hint = insn

Entry(insn, taken, snapshot, exact) ==
    [insn |-> insn, taken |-> taken, meta |-> snapshot, resolved |-> ~IsControl([insn |-> insn]),
     exact |-> exact]

\* The instructions of the response, as the front end accepts them: slot 1 only
\* if slot 0 is not predicted taken.
Responses ==
    {<<>>}
    \union {<<Entry(i, TRUE, lookup.snapshot, synced)>> : i \in {h \in Insns : HintFits(h)}}
    \union {<<Entry(i, FALSE, lookup.snapshot, synced),
               Entry(j, taken, lookup.snapshot1, synced /\ HintSaw(i))>> :
              i \in {h \in Insns : HintFits(h)}, j \in Insns, taken \in BOOLEAN}

\* Only control flow is predicted taken.
WellFormed(es) == \A k \in DOMAIN es : es[k].taken => IsControl(es[k])

Tag(k) == (robHead + k - 1) % RobSize

\* branchCheckpointValid_o: control flow that enters the ROB leaves its snapshot.
Dispatch(es) ==
    checkpoints' = [t \in Tags |->
        LET k == ((t + 2 * RobSize - robHead - Len(rob)) % RobSize) + 1
        IN  IF k \in DOMAIN es /\ IsControl(es[k]) THEN es[k].meta ELSE checkpoints[t]]

-----------------------------------------------------------------------------
(* Retirement: at most one branch per edge, into the training queue.       *)

dequeued == IF queue = 0 THEN 0 ELSE queue - 1

updateReady == queue < QueueDepth \/ queue > 0

\* The oldest n entries may retire together.
CanRetire(n) ==
    /\ n <= Len(rob)
    /\ \A k \in 1 .. n : rob[k].resolved
    /\ Cardinality({k \in 1 .. n : IsControl(rob[k])}) <= 1
    /\ (\E k \in 1 .. n : IsControl(rob[k])) => updateReady

enqueued(es) == Bit(\E k \in DOMAIN es : IsCond(es[k]))

\* Fault: an edge that takes a record in lets none out.
Train_NoDequeue(es) == queue' = IF enqueued(es) = 1 THEN queue + 1 ELSE dequeued

\* A record leaves on every edge; a retired conditional branch puts one in.
Train(es) == queue' = dequeued + enqueued(es)

CommitHistory(es) ==
    LET s == Outcomes(Committed, es)
    IN committedHistory' = s.history /\ committedPathHistory' = s.path

-----------------------------------------------------------------------------
(* One rising edge of the clock.                                           *)

Init ==
    /\ globalHistory = [i \in 0 .. HistoryWidth - 1 |-> 0]
    /\ committedHistory = globalHistory
    /\ globalPathHistory = [i \in 0 .. PathWidth - 1 |-> 0]
    /\ committedPathHistory = globalPathHistory
    /\ foldedHistory = [s \in FoldShapes |-> [j \in 0 .. s[2] - 1 |-> 0]]
    /\ lookup = [hint |-> NoHint, snapshot |-> Speculative, snapshot1 |-> Speculative,
                 fold |-> foldedHistory, fold1 |-> foldedHistory]
    /\ window = <<>> /\ rob = <<>> /\ robHead = 0 /\ queue = 0 /\ synced = TRUE
    /\ checkpoints = [t \in Tags |-> Speculative]

\* The branch at place k, or none if k is 0, resolves as it was predicted; a jump
\* that was predicted to fall through cannot.
CanResolve(k) == ~rob[k].resolved /\ (IsCond(rob[k]) \/ rob[k].taken)
Resolved(k) == [j \in DOMAIN rob |-> IF j = k THEN [rob[j] EXCEPT !.resolved = TRUE] ELSE rob[j]]

\* An edge without a redirect: accept response es, dispatch d, retire r, resolve
\* the branch at place k, launch the next lookup.
Advance(es, d, r, k, hint) ==
    /\ Len(window) - d + Len(es) <= WindowDepth
    /\ \E s \in {Outcomes(Speculative, es)},
          folds \in {[sh \in FoldShapes |->
                       speculativeFoldNext(foldedHistory[sh], Speculative, es, sh)]} :
            SetSpeculative(s, folds) /\ Launch(s, folds, hint)
    /\ window' = SubSeq(window, d + 1, Len(window)) \o es
    /\ rob' = SubSeq(Resolved(k), r + 1, Len(rob)) \o SubSeq(window, 1, d)
    /\ robHead' = (robHead + r) % RobSize
    /\ Dispatch(SubSeq(window, 1, d))
    /\ Train(SubSeq(rob, 1, r))
    /\ CommitHistory(SubSeq(rob, 1, r))
    /\ UNCHANGED synced

\* Fault: a recovery loses the branch's own direction.
restoredSnapshot_NoOutcome(k, taken) == checkpoints[Tag(k)]

\* The snapshot of the mispredicted branch, followed by what it really did.
restoredSnapshot(k, taken) == Outcome(checkpoints[Tag(k)], [rob[k] EXCEPT !.taken = taken])

Restart(s, hint) ==
    \E folds \in {[sh \in FoldShapes |-> foldHistory(s.history, sh)]} :
        SetSpeculative(s, folds) /\ Launch(s, folds, hint)

\* The branch at place k went the other way, or elsewhere: everything younger is
\* dropped and nothing retires (BackendCommitStage).
Recover(k, taken, hint) ==
    /\ ~rob[k].resolved
    /\ IsCond(rob[k]) => taken # rob[k].taken
    /\ rob[k].insn.kind = "jump" => taken
    /\ \E s \in {restoredSnapshot(k, taken)} : Restart(s, hint)
    /\ rob' = Append(SubSeq(rob, 1, k - 1), [rob[k] EXCEPT !.taken = taken, !.resolved = TRUE])
    /\ window' = <<>>
    /\ Train(<<>>)
    /\ synced' = rob[k].exact
    /\ UNCHANGED <<committedHistory, committedPathHistory, robHead, checkpoints>>

\* An exception at the head: the committed histories take over.
Trap(hint) ==
    /\ rob # <<>> /\ ~IsControl(rob[1])
    /\ Restart(Committed, hint)
    /\ rob' = <<>> /\ window' = <<>> /\ robHead' = 0
    /\ Train(<<>>)
    /\ synced' = TRUE
    /\ UNCHANGED <<committedHistory, committedPathHistory, checkpoints>>

Next ==
    \/ \E d \in 0 .. Min2(2, Min2(Len(window), RobSize - Len(rob))),
          r \in {n \in 0 .. 2 : CanRetire(n)}, k \in {0} \union {j \in DOMAIN rob : CanResolve(j)},
          es \in {e \in Responses : WellFormed(e)}, hint \in Hints :
            Advance(es, d, r, k, hint)
    \/ \E k \in DOMAIN rob, taken \in BOOLEAN, hint \in Hints : Recover(k, taken, hint)
    \/ \E hint \in Hints : Trap(hint)

Spec == Init /\ [][Next]_vars

-----------------------------------------------------------------------------
(* Properties.                                                             *)

\* The registers hold values of their types, within the sizes of the buffers.
TypeOK ==
    /\ {globalHistory, committedHistory} \subseteq Histories
    /\ {globalPathHistory, committedPathHistory} \subseteq Paths
    /\ foldedHistory \in [FoldShapes -> UNION {[0 .. s[2] - 1 -> Bits] : s \in FoldShapes}]
    /\ lookup.hint \in Hints /\ {lookup.snapshot, lookup.snapshot1} \subseteq Snapshots
    /\ checkpoints \in [Tags -> Snapshots]
    /\ Len(window) <= WindowDepth /\ Len(rob) <= RobSize /\ robHead \in Tags
    /\ synced \in BOOLEAN

\* One step of the fold against its definition, for every history and every shape.
FoldStepExact ==
    \A h \in [0 .. AlgebraWidth - 1 -> Bits], b \in Bits,
       shape \in (1 .. AlgebraWidth) \X (2 .. AlgebraWidth) :
        advanceFold(foldHistory(h, shape), h[shape[1] - 1], b, shape)
            = foldHistory(Shift(h, b), shape)

\* The incrementally kept fold is the fold of the whole history, and the two
\* lookups in flight were indexed by the folds of the snapshots that travel with
\* them to training, through any mix of accepted pairs, recoveries and traps
\* (TageFoldedHistory, TagePredictor).
FoldsExact ==
    /\ FoldStepExact
    /\ \A s \in FoldShapes :
        /\ foldedHistory[s] = foldHistory(globalHistory, s)
        /\ lookup.fold[s] = foldHistory(lookup.snapshot.history, s)
        /\ lookup.fold1[s] = foldHistory(lookup.snapshot1.history, s)

\* The histories after the first n of the entries es, one after the other, from s.
After(s, es) ==
    LET after[n \in 0 .. Len(es)] == IF n = 0 THEN s ELSE Outcome(after[n - 1], es[n])
    IN  after

\* The speculative histories are the committed ones followed by the outcomes of
\* the instructions in flight, wrong-path ones gone, and the response about to be
\* accepted was looked up with them (TagePredictor).  The one exception is written
\* into the model: a slot-1 snapshot taken while the BTB did not know slot 0.
\* Every register holds a value of its type.
HistoryExact ==
    /\ TypeOK
    /\ lookup.snapshot = Speculative
    /\ synced => Speculative = After(Committed, rob \o window)[Len(rob) + Len(window)]

\* Training takes a record each edge, so the queue never makes retirement wait
\* (TageUpdateQueue, BackendCommitStage).
TrainingKeepsUp == queue <= 1 /\ updateReady
=============================================================================

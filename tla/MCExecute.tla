----------------------------- MODULE MCExecute -----------------------------
EXTENDS Execute, TLC

Instr(class, store, writes, sources, exc) ==
    [fuClass |-> class, isStore |-> store, writes |-> writes, sources |-> sources,
     exception |-> exc]
Add == Instr("FU_INTEGER", FALSE, TRUE, 1, FALSE)
Jump == Instr("FU_BRANCH", FALSE, TRUE, 0, FALSE)
Branch == Instr("FU_BRANCH", FALSE, FALSE, 1, FALSE)
Load == Instr("FU_MEMORY", FALSE, TRUE, 1, FALSE)
Store == Instr("FU_MEMORY", TRUE, FALSE, 2, FALSE)
Illegal == Instr("FU_INTEGER", FALSE, TRUE, 0, TRUE)

DataflowGroups ==
    {<<Add>>, <<Add, Add>>, <<Branch>>, <<Jump>>, <<Load>>, <<Branch, Add>>,
     <<Branch, Store>>, <<Illegal>>}

Reading(instr, n) == [instr EXCEPT !.sources = n]
ProgressGroups ==
    {<<Reading(Add, 0)>>, <<Reading(Load, 0)>>, <<Reading(Store, 1)>>, <<Reading(Branch, 0)>>}

Symmetry == Permutations(Regs)

\* ROB tags are names: states that differ by a rotation of them behave alike.
RelTag(t) == (t + RobDepth - robHead) % RobDepth
Rel(c) == IF c = None THEN None ELSE <<[c[1] EXCEPT !.tag = RelTag(@)]>>
RotatedView ==
    <<rob, [k \in 1..Len(iq) |-> [iq[k] EXCEPT !.tag = RelTag(@)]],
      Rel(primary), Rel(secondary), Rel(memory), {Rel(<<l>>) : l \in loads},
      IF cacheFallback = None THEN None ELSE <<RelTag(cacheFallback[1])>>,
      {RelTag(t) : t \in filter}, readyTable, right, committed>>
=============================================================================

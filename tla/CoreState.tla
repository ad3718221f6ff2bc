----------------------------- MODULE CoreState -----------------------------
(* core_state.c: the text of numbers, the state machine that classifies them   *)
(* and the corruption of the text between its two runs.  A byte is its code.   *)
EXTENDS CoreUtil

Nul == 0
Plus == 43
Comma == 44
Minus == 45
Dot == 46

\* In the patterns a digit is itself.
Ascii(s) == [k \in 1..Len(s) |-> IF s[k] < 10 THEN 48 + s[k] ELSE s[k]]

intpat == << <<5, 0, 1, 2>>, <<1, 2, 3, 4>>, <<Minus, 8, 7, 4>>, <<Plus, 1, 2, 2>> >>
floatpat == << <<3, 5, Dot, 5, 4, 4, 0, 0>>, <<Dot, 1, 2, 3, 4, 5, 0, 0>>,
               <<Minus, 1, 1, 0, Dot, 7, 0, 0>>, <<Plus, 0, Dot, 6, 4, 4, 0, 0>> >>
scipat == << <<5, Dot, 5, 0, 0, 101, Plus, 3>>, <<Minus, Dot, 1, 2, 3, 101, Minus, 2>>,
             <<Minus, 8, 7, 101, Plus, 8, 3, 2>>, <<Plus, 0, Dot, 6, 101, Minus, 1, 2>> >>
errpat == << <<84, 0, Dot, 3, 101, Minus, 1, 70>>, <<Minus, 84, Dot, 84, Plus, Plus, 84, 113>>,
             <<1, 84, 3, Dot, 4, 101, 4, 122>>, <<3, 4, Dot, 0, 101, Minus, 84, 94>> >>

\* The pattern chosen for a value of seed.
pattern(seed) ==
    LET kind == CASE seed % 8 \in 0..2 -> intpat [] seed % 8 \in {3, 4} -> floatpat
                  [] seed % 8 \in {5, 6} -> scipat [] seed % 8 = 7 -> errpat
    IN  Ascii(kind[1 + ((seed \div 8) % 4)])

\* The loop condition of core_init_state for the pattern to be placed next.
fits(text, next, size) == Len(text) + Len(next) + 1 < size - 1

\* The rest of the block is NUL.
filled(text, size) == text \o [k \in 1..(size - Len(text)) |-> Nul]

CORE_STATES == <<"START", "INVALID", "S1", "S2", "INT", "FLOAT", "EXPONENT", "SCIENTIFIC">>
StateNames == {CORE_STATES[k] : k \in DOMAIN CORE_STATES}
NoCounts == [s \in StateNames |-> 0]

ee_isdigit(c) == c \in 48..57

\* Fault: only a minus is a sign.
isSign_MinusOnly(c) == c = Minus

isSign(c) == c \in {Plus, Minus}

\* The switch of core_state_transition.
nextState(state, c) ==
    CASE state = "START" /\ ee_isdigit(c) -> "INT"
      [] state = "START" /\ isSign(c) -> "S1"
      [] state = "START" /\ c = Dot -> "FLOAT"
      [] state = "S1" /\ ee_isdigit(c) -> "INT"
      [] state = "S1" /\ c = Dot -> "FLOAT"
      [] state = "INT" /\ c = Dot -> "FLOAT"
      [] state = "FLOAT" /\ c \in {69, 101} -> "S2"
      [] state = "S2" /\ isSign(c) -> "EXPONENT"
      [] state = "EXPONENT" /\ ee_isdigit(c) -> "SCIENTIFIC"
      [] state \in {"INT", "FLOAT", "SCIENTIFIC"} /\ ee_isdigit(c) -> state
      [] OTHER -> "INVALID"

\* The counters of transition_count that a transition increments.
counted(state, next) ==
    {s \in {state} : next # state /\ state # "SCIENTIFIC"}
    \cup {s \in {"INVALID"} : next = s /\ state \in {"START", "SCIENTIFIC"}}

\* Scans one token from byte p: where it ends, its class, and what it counted.
core_state_transition(block, p) ==
    LET scan[k \in 1..Len(block), state \in StateNames] ==
            IF block[k] = Nul \/ state = "INVALID"
            THEN [p |-> k, state |-> state, counts |-> NoCounts]
            ELSE IF block[k] = Comma
            THEN [p |-> k + 1, state |-> state, counts |-> NoCounts]
            ELSE LET next == nextState(state, block[k])
                     rest == scan[k + 1, next]
                 IN  [rest EXCEPT !.counts =
                         [s \in DOMAIN @ |-> @[s] + IF s \in counted(state, next) THEN 1 ELSE 0]]
    IN  scan[p, "START"]

\* One pass of the corruption loop: every step-th byte that is not a comma.
corrupted(block, step, seed) ==
    [k \in 1..Len(block) |->
        IF (k - 1) % step = 0 /\ block[k] # Comma THEN xor(block[k], seed % 2^8) ELSE block[k]]
=============================================================================

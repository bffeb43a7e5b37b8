----------------------------- MODULE WordEngine -----------------------------
(***************************************************************************)
(* The evaluation of a guess (wordle.engine.ts): a word is a sequence of   *)
(* letters, already normalised, and the marks are given in two passes.     *)
(***************************************************************************)
EXTENDS SequencesExt

Marks(guess, marks, kinds) == {i \in DOMAIN guess : marks[i] \in kinds}

\* Mutant: the first pass does not take the letters it marks.
AllLeft(guess, solution, exact) ==
    [c \in Range(guess) |-> Cardinality({i \in DOMAIN solution : solution[i] = c})]

\* The letters of the solution that the first pass leaves available.
LettersLeft(guess, solution, exact) ==
    [c \in Range(guess) |-> Cardinality({i \in DOMAIN solution \ exact : solution[i] = c})]

Evaluate(guess, solution) ==
    LET exact == {i \in DOMAIN guess : guess[i] = solution[i]}
        SecondPass(acc, i) ==
            IF i \in exact \/ acc.left[guess[i]] = 0 THEN acc
            ELSE [left  |-> [acc.left EXCEPT ![guess[i]] = @ - 1],
                  marks |-> [acc.marks EXCEPT ![i] = "present"]]
        start == [left  |-> LettersLeft(guess, solution, exact),
                  marks |-> [i \in DOMAIN guess |-> IF i \in exact THEN "correct" ELSE "absent"]]
    IN FoldLeftDomain(SecondPass, start, guess).marks

Solved(marks) == \A i \in DOMAIN marks : marks[i] = "correct"

\* What a reader of the board may conclude: a letter is correct where the
\* words agree, as many of its copies are marked as both words hold, and the
\* copies left unmarked are the last ones that are not in place.
SoundMarks(guess, solution, marks) ==
    LET Copies(w, c) == {i \in DOMAIN w : w[i] = c} IN
    /\ DOMAIN marks = DOMAIN guess
    /\ \A i \in DOMAIN guess : marks[i] = "correct" <=> guess[i] = solution[i]
    /\ \A c \in Range(guess) :
          LET given == Cardinality(Copies(guess, c))
              held == Cardinality(Copies(solution, c)) IN
          Cardinality(Copies(guess, c) \cap Marks(guess, marks, {"correct", "present"}))
              = IF given < held THEN given ELSE held
    /\ \A i, j \in DOMAIN guess :
          guess[i] = guess[j] /\ marks[i] = "absent" /\ marks[j] = "present" => j < i
=============================================================================

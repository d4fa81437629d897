----------------------------- MODULE LearnedSet -----------------------------
(***************************************************************************)
(* What the learned-toolchain store promises: for every project a set of   *)
(* package names that only grows, except that a store which could not be   *)
(* read counts as an empty one, so that the next write starts over from    *)
(* it (Store in server-go/modules/sandbox/sandbox.go).                     *)
(***************************************************************************)
EXTENDS FiniteSets

CONSTANTS Root,   \* projects, by git root
          Valid   \* names packageValid accepts

VARIABLE learned  \* what the store holds for each project

Init == learned \in [Root -> SUBSET Valid]

\* One write adds names to one project and leaves every other project alone.
Learn(r, names) == learned' = [learned EXCEPT ![r] = @ \cup names]

\* A write that took the store for an empty one.
StartOver(r, names) == learned' = [q \in Root |-> IF q = r THEN names ELSE {}]

Next == \E r \in Root : \E names \in (SUBSET Valid) \ {{}} : Learn(r, names) \/ StartOver(r, names)

Spec == Init /\ [][Next]_learned

=============================================================================

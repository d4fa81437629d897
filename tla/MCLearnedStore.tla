--------------------------- MODULE MCLearnedStore ---------------------------
(***************************************************************************)
(* LearnedStore for TLC: two handlers, two projects, two good names and    *)
(* one a hand-edit may have left in the file.                              *)
(***************************************************************************)
EXTENDS LearnedStore, TLC

CONSTANTS r1, r2, a, b, bad

Observe(r, names) == [op |-> "observe", root |-> r, names |-> names]
LoadOf(r) == [op |-> "load", root |-> r, names |-> <<>>]

\* One request brings an invalid name: Record tests every name itself, whatever its caller did.
MCRequests == {Observe(r1, <<a, b>>), Observe(r2, <<bad, a>>), LoadOf(r1), Observe(r1, <<>>),
               [op |-> "malformed", root |-> r1, names |-> <<>>]}

\* Nothing, a file that does not parse, null, and a document with hand-edited names: one
\* project is full, the other is not.
MCFiles == {NoFile, Garbage, Null, (r1 :> <<bad>>) @@ (r2 :> <<b, bad>>)}

=============================================================================

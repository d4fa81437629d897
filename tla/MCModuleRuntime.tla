-------------------------- MODULE MCModuleRuntime --------------------------
(***************************************************************************)
(* ModuleRuntime for TLC: one served and one unserved kind, fragments      *)
(* against a body limit they can exceed, a deadline the clock can pass,    *)
(* and every other reason the loop has to refuse or to skip a frame.       *)
(***************************************************************************)
EXTENDS ModuleRuntime, TLC

CONSTANTS k1, k2, x

Symm == Permutations(Corr)

MCStages == (k1 :> 1) @@ (k2 :> 0)

Invoke(deadline, body) == [op |-> "invoke", stage |-> 1, deadline |-> deadline, body |-> body]

RequestFrame(c, k, more, msg) ==
  [pattern |-> "request", corr |-> c, kind |-> k, more |-> more, msg |-> msg]

CancelOf(c) == [pattern |-> "cancel", corr |-> c, kind |-> k1, more |-> FALSE, msg |-> Malformed]

Notification == [pattern |-> "notification", corr |-> 0, kind |-> k1, more |-> FALSE,
                 msg |-> Malformed]

\* What correlations compete with for the two tables, and every frame that is turned away
\* or skipped before a table is looked at: a payload that does not decode, a kind nobody
\* serves, the stage of another kind, a result sent as a request, a notification, and a
\* request without a correlation, which Poll drops.
Competing ==
  UNION {{RequestFrame(c, k1, TRUE, Invoke(0, <<x>>)),
          RequestFrame(c, k1, FALSE, Invoke(0, <<x>>)),
          RequestFrame(c, k1, FALSE, Malformed),
          RequestFrame(c, k2, FALSE, Invoke(0, <<x>>)),
          RequestFrame(c, k1, FALSE, [Invoke(0, <<x>>) EXCEPT !.stage = 2]),
          RequestFrame(c, k1, FALSE, [Invoke(0, <<x>>) EXCEPT !.op = "result"]),
          CancelOf(c)} : c \in Corr}
  \cup {Notification, RequestFrame(0, k1, FALSE, Invoke(0, <<x>>))}

\* Whole requests and fragments with a deadline the clock can pass, and cancels.
Timed ==
  UNION {{RequestFrame(c, k1, more, Invoke(2, <<x>>)) : more \in BOOLEAN} \cup {CancelOf(c)} :
           c \in Corr}

\* A reply of two fragments, and a status that is none.
MCResults == {[status |-> "OK", body |-> <<x, x>>], [status |-> "Unknown", body |-> <<x>>]}

\* The reply of two fragments alone.
LongReply == {[status |-> "OK", body |-> <<x, x>>]}

=============================================================================

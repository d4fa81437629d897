---------------------------- MODULE SandboxStages ----------------------------
(***************************************************************************)
(* NewHandler (server-go/modules/sandbox/module.go): the stage of the      *)
(* invocation decides which part of the module reads the request.  What    *)
(* the observe stage does with the names it parsed, and the load stage,    *)
(* are in LearnedStore.                                                    *)
(***************************************************************************)
EXTENDS AptParser, ProxyPolicy

VARIABLE stage    \* StageObserve, StageProxyRequest or StageProxyAddress

vars == <<stage, aptVars, proxyVars>>

\* Only the stages that look at the request line have one.
Init ==
  /\ stage \in {"observe", "request", "address"}
  /\ AptInit /\ ProxyInit
  /\ stage # "request" => line = CHOOSE l \in RequestLines : TRUE

Next ==
  /\ \/ stage = "observe" /\ AptNext /\ UNCHANGED proxyVars
     \/ stage = "request" /\ ReadLine /\ UNCHANGED aptVars
     \/ stage = "address" /\ AskAddress /\ UNCHANGED aptVars
  /\ UNCHANGED stage

Spec == Init /\ [][Next]_vars

=============================================================================

------------------------------ MODULE BusCall ------------------------------
(***************************************************************************)
(* A ModuleCaller (server-go/bus/module_caller.go) that makes one call     *)
(* after the other, composed with the runtime that serves them.  Between   *)
(* them the host carries frames from ring to ring in order; it is outside  *)
(* the repository and modelled from what both ends need of it.             *)
(*                                                                         *)
(* The two rings a request passes are one queue here, and so are the       *)
(* host's copy and the caller's inbound ring on the way back.  The handler *)
(* echoes the request it was handed, or fails, so that an answer can be    *)
(* compared with the request it belongs to.                                *)
(***************************************************************************)
EXTENDS ModuleRuntime

CONSTANTS
  Body,       \* the request of each call
  Timeout,    \* the deadline of each call, in ticks; 0 for none
  CallKind,   \* the event kind the calls are for, with a stage (Encode refuses stage 0)
  ReqCap,     \* slots between the caller and the runtime
  RepCap      \* slots of the caller's inbound ring

ASSUME CallAssumption ==
  /\ Corr = 1 .. Cardinality(Corr)
  /\ Body \in [Corr -> Seq(Chunks)] /\ \A c \in Corr : Len(Body[c]) <= MaxBody
  /\ Timeout \in [Corr -> Nat]
  /\ CallKind \in Kinds /\ Stages[CallKind] # 0
  /\ ReqCap \in Nat \ {0} /\ RepCap \in Nat \ {0}

VARIABLES
  callPc,       \* where the caller is
  correlation,  \* the last correlation it has used
  offset,       \* chunks of the request sent
  deadlineNS,   \* the deadline in the message header
  expiry,       \* the caller's own bound, 0 for none
  received,     \* the body awaitReply has so far
  callCtx,      \* the ctx of the call is cancelled
  outcome,      \* what each Call returned
  answer,       \* the body it returned
  toModule,     \* frames on the way to the runtime
  toCaller,     \* frames on the way to the caller
  handed        \* history: the request each handler was given

callVars == <<callPc, correlation, offset, deadlineNS, expiry, received, callCtx, outcome,
              answer>>
allVars == <<vars, callVars, toModule, toCaller, handed>>

CallInit ==
  /\ Init
  /\ callPc = "idle" /\ correlation = 0 /\ offset = 0 /\ deadlineNS = 0 /\ expiry = 0
  /\ received = <<>> /\ callCtx = FALSE
  /\ outcome = [c \in Corr |-> "none"] /\ answer = [c \in Corr |-> <<>>]
  /\ toModule = <<>> /\ toCaller = <<>>
  /\ handed = [c \in Corr |-> <<>>]

\* A deadline past the end of the modelled time is the end of it.
Until(t) == Smaller(t, MaxClock - 1)

(***************************************************************************)
(* Call and send.                                                          *)
(***************************************************************************)
CallBegin ==
  /\ callPc = "idle" /\ correlation + 1 \in Corr
  /\ correlation' = correlation + 1
  /\ deadlineNS' = IF Timeout[correlation'] = 0 THEN 0 ELSE Until(clock + Timeout[correlation'])
  /\ callPc' = "send" /\ offset' = 0
  /\ UNCHANGED <<vars, expiry, received, callCtx, outcome, answer, toModule, toCaller, handed>>

\* What send or awaitReply returns; their variables are gone.
Return(how, body) ==
  /\ outcome' = [outcome EXCEPT ![correlation] = how]
  /\ answer' = [answer EXCEPT ![correlation] = body]
  /\ deadlineNS' = 0 /\ expiry' = 0 /\ received' = <<>> /\ callCtx' = FALSE

\* emit fails: the epoch has changed or there is no free slot.
SendError == IF epochChanged THEN "ErrEpoch"
             ELSE IF Len(toModule) = ReqCap THEN "ErrWouldBlock" ELSE "nil"

\* send returns the first error of RequestFragment, and Call returns it at once.
SendFails ==
  /\ callPc = "send" /\ SendError # "nil"
  /\ Return(SendError, <<>>)
  /\ callPc' = "idle"
  /\ UNCHANGED <<vars, correlation, offset, toModule, toCaller, handed>>

\* The fragment of the request that starts after `from' chunks.
Part(c, from) ==
  LET last == Smaller(from + ChunkCapacity, Len(Body[c])) IN
    [pattern |-> "request", corr |-> c, kind |-> CallKind, more |-> last < Len(Body[c]),
     msg |-> [op |-> "invoke", stage |-> Stages[CallKind], deadline |-> deadlineNS,
              body |-> SubSeq(Body[c], from + 1, last)]]

SendFragment ==
  /\ callPc = "send" /\ SendError = "nil"
  /\ toModule' = Append(toModule, Part(correlation, offset))
  /\ offset' = Smaller(offset + ChunkCapacity, Len(Body[correlation]))
  /\ IF offset' < Len(Body[correlation])
     THEN UNCHANGED <<callPc, expiry, received>>
     ELSE /\ callPc' = "await" /\ received' = <<>>
          /\ expiry' = IF Timeout[correlation] = 0 THEN 0 ELSE Until(clock + Timeout[correlation])
  /\ UNCHANGED <<vars, correlation, deadlineNS, callCtx, outcome, answer, toCaller, handed>>

(***************************************************************************)
(* awaitReply.                                                             *)
(***************************************************************************)
\* Call publishes a cancel before it returns an error of awaitReply.
Failing(how) == callPc' = "cancel" /\ Return(how, <<>>)

AwaitEpoch ==
  /\ callPc = "await" /\ epochChanged
  /\ Failing("ErrEpoch")
  /\ UNCHANGED <<vars, correlation, offset, toModule, toCaller, handed>>

\* Mutant: ctx and the deadline are not looked at while the ring is empty.
AwaitForever ==
  /\ callPc = "await" /\ ~epochChanged /\ toCaller = <<>> /\ callCtx
  /\ Failing("given up")
  /\ UNCHANGED <<vars, correlation, offset, toModule, toCaller, handed>>

\* ctx and the deadline are looked at when Poll has nothing, and only then.
AwaitGivesUp ==
  /\ callPc = "await" /\ ~epochChanged /\ toCaller = <<>>
  /\ callCtx \/ (expiry # 0 /\ clock > expiry)
  /\ Failing("given up")
  /\ UNCHANGED <<vars, correlation, offset, toModule, toCaller, handed>>

\* Mutant: the correlation of a reply is not looked at.
MineWhatever(f) == TRUE

\* A frame of another call is skipped.
Mine(f) == f.corr = correlation

AwaitSkip ==
  /\ callPc = "await" /\ ~epochChanged /\ toCaller # <<>> /\ ~Mine(Head(toCaller))
  /\ toCaller' = Tail(toCaller)
  /\ UNCHANGED <<vars, callVars, toModule, handed>>

\* A control frame of the host, a status other than OK, or too long an answer.
AwaitRefused ==
  /\ callPc = "await" /\ ~epochChanged /\ toCaller # <<>> /\ Mine(Head(toCaller))
  /\ LET f == Head(toCaller) IN
       /\ f.status # "OK" \/ Len(received \o f.body) > MaxBody
       /\ Failing("refused")
  /\ toCaller' = Tail(toCaller)
  /\ UNCHANGED <<vars, correlation, offset, toModule, handed>>

AwaitPart ==
  /\ callPc = "await" /\ ~epochChanged /\ toCaller # <<>> /\ Mine(Head(toCaller))
  /\ LET f == Head(toCaller) IN
       /\ f.status = "OK" /\ Len(received \o f.body) <= MaxBody
       /\ IF f.more
          THEN received' = received \o f.body /\ UNCHANGED <<callPc, deadlineNS, expiry, callCtx, outcome, answer>>
          ELSE callPc' = "idle" /\ Return("OK", received \o f.body)
  /\ toCaller' = Tail(toCaller)
  /\ UNCHANGED <<vars, correlation, offset, toModule, handed>>

\* Cancel, best effort: an error of emit is dropped.
CancelCall ==
  /\ callPc = "cancel"
  /\ toModule' = IF SendError # "nil" THEN toModule
                 ELSE Append(toModule, [pattern |-> "cancel", corr |-> correlation,
                                        kind |-> CallKind, more |-> FALSE, msg |-> Malformed])
  /\ callPc' = "idle"
  /\ UNCHANGED <<vars, correlation, offset, deadlineNS, expiry, received, callCtx, outcome,
                 answer, toCaller, handed>>

Call ==
  \/ SendFails \/ SendFragment \/ AwaitEpoch \/ AwaitGivesUp \/ AwaitSkip \/ AwaitRefused
  \/ AwaitPart \/ CancelCall

(***************************************************************************)
(* The runtime on its end of the ring.                                     *)
(***************************************************************************)
TakeFrame ==
  /\ toModule # <<>>
  /\ LET f == Head(toModule) IN
       /\ Dispatched(f)
       /\ handed' = IF jobs'[f.corr] # jobs[f.corr]
                    THEN [handed EXCEPT ![f.corr] = BodySoFar(f)] ELSE handed
  /\ toModule' = Tail(toModule)
  /\ UNCHANGED <<callVars, toCaller>>

Loop ==
  \/ (OwnStep \/ (toModule = <<>> /\ PollNothing)) /\ UNCHANGED <<callVars, toModule, toCaller, handed>>
  \/ TakeFrame

\* The handler echoes its request or fails.
Handler(w) ==
  /\ \/ HandlerSend(w)
     \/ \E status \in {"OK", "Internal"} :
          HandlerReturn(w, [status |-> status, body |-> handed[work[w].corr]])
  /\ UNCHANGED <<callVars, toModule, toCaller, handed>>

(***************************************************************************)
(* The host: it carries replies, and answers with a control frame for a    *)
(* module it cannot or will not reach (KindCapabilityAbsent, KindError).   *)
(***************************************************************************)
HostCarries ==
  /\ outbound # <<>> /\ Len(toCaller) < RepCap
  /\ toCaller' = Append(toCaller, Head(outbound))
  /\ HostDrain
  /\ UNCHANGED <<callVars, toModule, handed>>

HostRefuses ==
  /\ callPc = "await" /\ toCaller = <<>>
  /\ toCaller' = <<[corr |-> correlation, kind |-> 0, stage |-> 0, status |-> "KindError",
                   body |-> <<>>, more |-> FALSE]>>
  /\ UNCHANGED <<vars, callVars, toModule, handed>>

CallerCancels ==
  /\ callPc \in {"send", "await"} /\ ~callCtx /\ callCtx' = TRUE
  /\ UNCHANGED <<vars, callPc, correlation, offset, deadlineNS, expiry, received, outcome,
                 answer, toModule, toCaller, handed>>

Environment ==
  (HostRestart \/ CtxCancel \/ Tick) /\ UNCHANGED <<callVars, toModule, toCaller, handed>>

\* No call is left to make and the runtime has stopped.
Finished ==
  /\ callPc = "idle" /\ correlation + 1 \notin Corr /\ pc = "stopped" /\ LiveHandlers = {}
  /\ UNCHANGED allVars

CallNext ==
  \/ CallBegin \/ Call \/ Loop \/ (\E w \in Wid : Handler(w))
  \/ HostCarries \/ HostRefuses \/ CallerCancels \/ Environment \/ Finished

CallSpec == CallInit /\ [][CallNext]_allVars

\* Caller, loop and handlers keep running, the host keeps carrying, time passes; as in
\* ModuleRuntime the retry loop's select does not ignore ctx for ever.
FairCallSpec ==
  /\ CallSpec
  /\ WF_allVars(Call) /\ WF_allVars(Loop)
  /\ SF_allVars(WaitCancelled /\ UNCHANGED <<callVars, toModule, toCaller, handed>>)
  /\ \A w \in Wid : WF_allVars(Handler(w))
  /\ WF_allVars(HostCarries)
  /\ WF_allVars(Tick /\ UNCHANGED <<callVars, toModule, toCaller, handed>>)

(***************************************************************************)
(* Properties.                                                             *)
(***************************************************************************)
\* A Call that succeeds returns the handler's answer to exactly the bytes it was called
\* with: no fragment is lost, repeated or taken from an earlier, abandoned call, on the way
\* there (send, the assembly table) or back (replyModuleResult, awaitReply).
OkIsWhole ==
  \A c \in Corr :
    /\ outcome[c] = "OK" => answer[c] = Body[c]
    /\ handed[c] \in {<<>>, Body[c]}

\* Every Call returns: one with a deadline always, one without unless the module was told
\* to stop, which answers nobody.
CallReturns ==
  callPc # "idle" ~>
    \/ callPc = "idle" /\ \A c \in 1..correlation : outcome[c] # "none"
    \/ callPc # "idle" /\ Timeout[correlation] = 0 /\ ctxDone

\* If the host keeps making room in the module's ring, requests that were sent whole leave
\* nothing in the runtime's tables, also when the caller gave up on them and its cancel was
\* dropped: again and again the tables hold none of them.
NothingLeftBehind ==
  []<>(Len(outbound) < OutCap) =>
    []<>(\/ ctxDone \/ epochChanged
         \/ \A c \in Corr : outcome[c] \notin {"none", "ErrWouldBlock"} =>
              jobs[c] = NoWork /\ assemblies[c] = NoAssembly)

\* What the comment on send says: the request is fragmented exactly as the serving side
\* fragments its reply, which waits for room between two fragments and never gives up there.
SendsLikeReply == \A c \in Corr : outcome[c] = "ErrWouldBlock" /\ correlation = c => offset = 0

=============================================================================

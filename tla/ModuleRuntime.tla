--------------------------- MODULE ModuleRuntime ---------------------------
(***************************************************************************)
(* The serving half of the module bus: the loop of runModuleClient         *)
(* (server-go/bus/module_runtime.go), the handler goroutines it starts     *)
(* (runHandler) and the replies it writes (replyModuleResult).             *)
(*                                                                         *)
(* The loop is one thread.  It shares three things with the others: the    *)
(* buffered channel `done' and the cancel flags with the handler           *)
(* goroutines, and the outbound ring and the epoch word with the host.     *)
(* A step of the loop ends where it next reads one of these.  The inbound  *)
(* ring is an environment that offers any frame of Inbound at every Poll;  *)
(* nothing here relies on the order in which the host delivers.            *)
(*                                                                         *)
(* Data is kept only where the control looks at it.  A body is a sequence  *)
(* of chunks; TraceID, compared and echoed exactly like DeadlineNS, is     *)
(* left out; a payload DecodeModuleMessage rejects is Malformed.           *)
(***************************************************************************)
EXTENDS Integers, Sequences, FiniteSets

CONSTANTS
  Corr,            \* correlation ids of requests (never 0)
  Kinds,           \* event kinds that may arrive
  Stages,          \* the stage table: Kinds -> Nat, 0 where the kind is not served
  Wid,             \* addresses of moduleWork objects
  Chunks,          \* units a body is made of
  Inbound,         \* the frames the host may put on the inbound ring
  HandlerResults,  \* what the handler may return
  HasHandler,      \* config.Handler # nil
  MaxInFlight,     \* moduleMaxInFlight
  MaxBody,         \* ModuleMessageMaxBody, in chunks
  ChunkCapacity,   \* inline budget minus the message header, in chunks
  OutCap,          \* slots of the outbound ring
  MaxClock,        \* bound of the model: the last instant of the clock
  NoWork,          \* a nil *moduleWork
  NoAssembly,      \* a nil *moduleAssembly
  Malformed        \* a payload that does not decode

Status == {"OK", "CapabilityAbsent", "Cancelled", "DeadlineExceeded",
           "InvalidRequest", "Internal"}

Message == [op: {"invoke", "result"}, stage: Nat \ {0}, deadline: Nat, body: Seq(Chunks)]

Frame == [pattern: {"notification", "request", "reply", "cancel"},
          corr: Corr \cup {0}, kind: Kinds, more: BOOLEAN,
          msg: Message \cup {Malformed}]

Assembly == [kind: Kinds, stage: Nat, deadline: Nat, body: Seq(Chunks)]

Phase == {"free", "running", "sending", "sent"}

Work == [phase: Phase, corr: Corr \cup {0}, kind: Kinds \cup {0}, stage: Nat,
         deadline: Nat, cancelled: BOOLEAN, status: Status, body: Seq(Chunks)]

Reply == [corr: Corr \cup {0}, kind: Kinds \cup {0}, stage: Nat, status: Status,
          body: Seq(Chunks)]

OutFrame == [corr: Corr, kind: Kinds \cup {0}, stage: Nat, status: Status,
             body: Seq(Chunks), more: BOOLEAN]

ASSUME RuntimeAssumption ==
  /\ 0 \notin Corr
  /\ IsFiniteSet(Corr) /\ IsFiniteSet(Wid)
  /\ Stages \in [Kinds -> Nat]
  /\ MaxInFlight \in Nat \ {0} /\ Cardinality(Wid) >= MaxInFlight
  /\ MaxBody \in Nat
  /\ ChunkCapacity \in Nat \ {0}
  /\ OutCap \in Nat \ {0}
  /\ MaxClock \in Nat \ {0}
  /\ HasHandler \in BOOLEAN
  /\ NoWork \notin Wid
  /\ NoAssembly \notin Assembly
  /\ Malformed \notin Message
  /\ \A f \in Inbound : f \in Frame
  /\ \A r \in HandlerResults : r.body \in Seq(Chunks)

VARIABLES
  pc,            \* where the loop is
  assemblies,    \* map correlation -> request being assembled
  jobs,          \* map correlation -> *moduleWork
  work,          \* the moduleWork objects, each with its goroutine's phase and result
  done,          \* the buffered channel of finished work
  reply,         \* the reply replyModuleResult is writing
  outbound,      \* the outbound ring
  now,           \* the loop's last sample of the clock
  heartbeat,     \* the heartbeat word the host reads
  clock,         \* CLOCK_MONOTONIC
  epochChanged,  \* the host's epoch differs from the attached one
  ctxDone,       \* ctx is cancelled
  exit           \* how runModuleClient returned

loopVars == <<pc, assemblies, jobs, reply, now, heartbeat, exit>>
envVars  == <<clock, epochChanged, ctxDone>>
vars == <<pc, assemblies, jobs, work, done, reply, outbound, now, heartbeat,
          clock, epochChanged, ctxDone, exit>>

FreeWork == [phase |-> "free", corr |-> 0, kind |-> 0, stage |-> 0, deadline |-> 0,
             cancelled |-> FALSE, status |-> "OK", body |-> <<>>]
IdleReply == [corr |-> 0, kind |-> 0, stage |-> 0, status |-> "OK", body |-> <<>>]

JobKeys      == {c \in Corr : jobs[c] # NoWork}
AssemblyKeys == {c \in Corr : assemblies[c] # NoAssembly}
FreeWids     == {w \in Wid : work[w].phase = "free"}
LiveHandlers == {w \in Wid : work[w].phase \in {"running", "sending"}}

Init ==
  /\ pc = "drain"
  /\ assemblies = [c \in Corr |-> NoAssembly]
  /\ jobs = [c \in Corr |-> NoWork]
  /\ work = [w \in Wid |-> FreeWork]
  /\ done = <<>>
  /\ reply = IdleReply
  /\ outbound = <<>>
  /\ now = 1 /\ heartbeat = 1 /\ clock = 1
  /\ epochChanged = FALSE /\ ctxDone = FALSE
  /\ exit = "none"

(***************************************************************************)
(* Returning from the loop.  "drained" and "epoch" are the nil returns;    *)
(* the others are the error the function returns.                          *)
(***************************************************************************)
Stop(how) == pc' = "stopped" /\ exit' = how

(***************************************************************************)
(* replyModuleResult: an over-long body or an unknown status becomes       *)
(* Internal, and only an OK reply has a body.                              *)
(***************************************************************************)
\* Mutant: an unknown status is passed on.
NormalisedKeepsStatus(status, body) ==
  IF Len(body) > MaxBody THEN [status |-> "Internal", body |-> <<>>]
  ELSE [status |-> status, body |-> IF status = "OK" THEN body ELSE <<>>]

Normalised(status, body) ==
  IF status \notin Status \/ Len(body) > MaxBody
  THEN [status |-> "Internal", body |-> <<>>]
  ELSE [status |-> status, body |-> IF status = "OK" THEN body ELSE <<>>]

BeginReply(corr, kind, stage, status, body) ==
  LET n == Normalised(status, body) IN
    /\ pc' = "reply"
    /\ reply' = [corr |-> corr, kind |-> kind, stage |-> stage,
                 status |-> n.status, body |-> n.body]
    /\ UNCHANGED exit

\* Mutant: a kind without a stage is answered with stage 0.
AnswerStageAsIs(stage) == stage

\* The stage an invalid request is answered with: never 0, or the reply would not encode.
AnswerStage(stage) == IF stage = 0 THEN 1 ELSE stage

(***************************************************************************)
(* The top of the loop.                                                    *)
(***************************************************************************)
\* Receiving w from done also forgets its job (finishModuleWork, and the shutdown loop).
Forget(w) ==
  /\ jobs' = [jobs EXCEPT ![work[w].corr] = NoWork]
  /\ work' = [work EXCEPT ![w] = FreeWork]
  /\ done' = Tail(done)

FinishWork ==
  /\ pc = "drain" /\ done # <<>>
  /\ LET w == Head(done) IN
       /\ Forget(w)
       /\ BeginReply(work[w].corr, work[w].kind, work[w].stage, work[w].status, work[w].body)
  /\ UNCHANGED <<assemblies, outbound, now, heartbeat, envVars>>

NothingDone ==
  /\ pc = "drain" /\ done = <<>>
  /\ pc' = "check"
  /\ UNCHANGED <<assemblies, jobs, work, done, reply, outbound, now, heartbeat, envVars, exit>>

\* ctx is cancelled: raise every job's flag, then wait for all of them.
BeginShutdown ==
  /\ pc = "check" /\ ctxDone
  /\ work' = [w \in Wid |-> IF \E c \in Corr : jobs[c] = w
                            THEN [work[w] EXCEPT !.cancelled = TRUE] ELSE work[w]]
  /\ pc' = "drainJobs"
  /\ UNCHANGED <<assemblies, jobs, done, reply, outbound, now, heartbeat, envVars, exit>>

AwaitJob ==
  /\ pc = "drainJobs" /\ JobKeys # {} /\ done # <<>>
  /\ Forget(Head(done))
  /\ UNCHANGED <<pc, assemblies, reply, outbound, now, heartbeat, envVars, exit>>

\* Mutant: shutdown looks at the channel instead of the job table.
DrainedByChannel ==
  /\ pc = "drainJobs" /\ done = <<>>
  /\ Stop("drained")
  /\ UNCHANGED <<assemblies, jobs, work, done, reply, outbound, now, heartbeat, envVars>>

Drained ==
  /\ pc = "drainJobs" /\ JobKeys = {}
  /\ Stop("drained")
  /\ UNCHANGED <<assemblies, jobs, work, done, reply, outbound, now, heartbeat, envVars>>

CheckEpoch ==
  /\ pc = "check" /\ ~ctxDone
  /\ IF epochChanged
     THEN Stop("epoch") /\ UNCHANGED <<now, heartbeat>>
     ELSE pc' = "poll" /\ now' = clock /\ heartbeat' = clock /\ UNCHANGED exit
  /\ UNCHANGED <<assemblies, jobs, work, done, reply, outbound, envVars>>

(***************************************************************************)
(* Poll and the dispatch of the frame it returns.                          *)
(***************************************************************************)
\* The rules of Frame.Validate a frame of the model can break.
Decodes(f) ==
  /\ f.pattern = "notification" <=> f.corr = 0
  /\ f.more => f.pattern \in {"request", "reply"}

\* Poll returned ErrEpoch.
PollEpoch ==
  /\ pc = "poll" /\ epochChanged
  /\ Stop("epoch")
  /\ UNCHANGED <<assemblies, jobs, work, done, reply, outbound, now, heartbeat, envVars>>

\* The ring is empty, or its next frame does not decode and is consumed.
PollNothing ==
  /\ pc = "poll" /\ ~epochChanged
  /\ pc' = "drain"
  /\ UNCHANGED <<assemblies, jobs, work, done, reply, outbound, now, heartbeat, envVars, exit>>

Polled(f) == pc = "poll" /\ ~epochChanged /\ Decodes(f)

CancelFrame(f) ==
  /\ Polled(f) /\ f.pattern = "cancel"
  /\ work' = IF jobs[f.corr] = NoWork THEN work
             ELSE [work EXCEPT ![jobs[f.corr]].cancelled = TRUE]
  /\ assemblies' = [assemblies EXCEPT ![f.corr] = NoAssembly]
  /\ pc' = "drain"
  /\ UNCHANGED <<jobs, done, reply, outbound, now, heartbeat, envVars, exit>>

IgnoreFrame(f) ==
  /\ Polled(f) /\ f.pattern \in {"notification", "reply"}
  /\ pc' = "drain"
  /\ UNCHANGED <<assemblies, jobs, work, done, reply, outbound, now, heartbeat, envVars, exit>>

\* A later fragment repeats the header of the first one.
Continues(f, assembly) ==
  /\ assembly.kind = f.kind
  /\ assembly.stage = f.msg.stage
  /\ assembly.deadline = f.msg.deadline

\* Mutant: a request is taken although its correlation is being served.
WellFormedDuplicate(f) ==
  /\ Stages[f.kind] # 0
  /\ f.msg # Malformed
  /\ f.msg.op = "invoke"
  /\ f.msg.stage = Stages[f.kind]
  /\ assemblies[f.corr] # NoAssembly => Continues(f, assemblies[f.corr])

\* The check a request frame meets before anything is stored for it (`invalid' negated).
WellFormed(f) ==
  /\ Stages[f.kind] # 0
  /\ f.msg # Malformed
  /\ f.msg.op = "invoke"
  /\ f.msg.stage = Stages[f.kind]
  /\ jobs[f.corr] = NoWork
  /\ assemblies[f.corr] # NoAssembly => Continues(f, assemblies[f.corr])

RejectInvalid(f) ==
  /\ Polled(f) /\ f.pattern = "request" /\ ~WellFormed(f)
  /\ assemblies' = [assemblies EXCEPT ![f.corr] = NoAssembly]
  /\ BeginReply(f.corr, f.kind, AnswerStage(Stages[f.kind]), "InvalidRequest", <<>>)
  /\ UNCHANGED <<jobs, work, done, outbound, now, heartbeat, envVars>>

Valid(f) == Polled(f) /\ f.pattern = "request" /\ WellFormed(f)

\* A new correlation when the assembly table is full.
RefuseAssembly(f) ==
  /\ Valid(f) /\ assemblies[f.corr] = NoAssembly
  /\ Cardinality(AssemblyKeys) >= MaxInFlight
  /\ BeginReply(f.corr, f.kind, Stages[f.kind], "Internal", <<>>)
  /\ UNCHANGED <<assemblies, jobs, work, done, outbound, now, heartbeat, envVars>>

Admitted(f) ==
  Valid(f) /\ (assemblies[f.corr] # NoAssembly \/ Cardinality(AssemblyKeys) < MaxInFlight)

\* What has arrived of the request's body, this frame included.
BodySoFar(f) ==
  (IF assemblies[f.corr] = NoAssembly THEN <<>> ELSE assemblies[f.corr].body) \o f.msg.body

RefuseOversize(f) ==
  /\ Admitted(f) /\ Len(BodySoFar(f)) > MaxBody
  /\ assemblies' = [assemblies EXCEPT ![f.corr] = NoAssembly]
  /\ BeginReply(f.corr, f.kind, Stages[f.kind], "Internal", <<>>)
  /\ UNCHANGED <<jobs, work, done, outbound, now, heartbeat, envVars>>

HoldFragment(f) ==
  /\ Admitted(f) /\ Len(BodySoFar(f)) <= MaxBody /\ f.more
  /\ assemblies' = [assemblies EXCEPT ![f.corr] =
       [kind |-> f.kind, stage |-> f.msg.stage, deadline |-> f.msg.deadline,
        body |-> BodySoFar(f)]]
  /\ pc' = "drain"
  /\ UNCHANGED <<jobs, work, done, reply, outbound, now, heartbeat, envVars, exit>>

Completes(f) == Admitted(f) /\ Len(BodySoFar(f)) <= MaxBody /\ ~f.more

Expired(deadline, t) == deadline # 0 /\ t >= deadline

\* The status a complete request is turned away with, "OK" when it may run.
Admission(deadline) ==
  IF Expired(deadline, now) THEN "DeadlineExceeded"
  ELSE IF ~HasHandler THEN "CapabilityAbsent"
  ELSE IF Cardinality(JobKeys) >= MaxInFlight THEN "Internal"
  ELSE "OK"

RefuseComplete(f) ==
  /\ Completes(f) /\ Admission(f.msg.deadline) # "OK"
  /\ assemblies' = [assemblies EXCEPT ![f.corr] = NoAssembly]
  /\ BeginReply(f.corr, f.kind, Stages[f.kind], Admission(f.msg.deadline), <<>>)
  /\ UNCHANGED <<jobs, work, done, outbound, now, heartbeat, envVars>>

NewWork(f) ==
  [phase |-> "running", corr |-> f.corr, kind |-> f.kind, stage |-> Stages[f.kind],
   deadline |-> f.msg.deadline, cancelled |-> FALSE, status |-> "OK", body |-> <<>>]

\* Mutant: the assembly outlives the start of its job.
StartJobKeepsAssembly(f) ==
  /\ Completes(f) /\ Admission(f.msg.deadline) = "OK" /\ FreeWids # {}
  /\ LET w == CHOOSE v \in FreeWids : TRUE IN
       /\ jobs' = [jobs EXCEPT ![f.corr] = w]
       /\ work' = [work EXCEPT ![w] = NewWork(f)]
  /\ pc' = "drain"
  /\ UNCHANGED <<assemblies, done, reply, outbound, now, heartbeat, envVars, exit>>

\* A fresh moduleWork and its goroutine.
StartJob(f) ==
  /\ Completes(f) /\ Admission(f.msg.deadline) = "OK" /\ FreeWids # {}
  /\ LET w == CHOOSE v \in FreeWids : TRUE IN
       /\ jobs' = [jobs EXCEPT ![f.corr] = w]
       /\ work' = [work EXCEPT ![w] = NewWork(f)]
  /\ assemblies' = [assemblies EXCEPT ![f.corr] = NoAssembly]
  /\ pc' = "drain"
  /\ UNCHANGED <<done, reply, outbound, now, heartbeat, envVars, exit>>

(***************************************************************************)
(* replyModuleResult, one fragment at a time, through Client.emit.         *)
(***************************************************************************)
\* The error ReplyFragment or Encode returns, other than ErrWouldBlock.
ReplyError ==
  IF reply.stage = 0 THEN "ErrModuleMessage"
  ELSE IF reply.corr = 0 THEN "ErrProtocol"
  ELSE IF epochChanged THEN "ErrEpoch"
  ELSE "nil"

ReplyFails ==
  /\ pc = "reply" /\ ReplyError # "nil"
  /\ Stop(ReplyError)
  /\ UNCHANGED <<assemblies, jobs, work, done, reply, outbound, now, heartbeat, envVars>>

Smaller(a, b) == IF a < b THEN a ELSE b

EmitFragment ==
  /\ pc = "reply" /\ ReplyError = "nil" /\ Len(outbound) < OutCap
  /\ LET part == Smaller(Len(reply.body), ChunkCapacity)
         rest == SubSeq(reply.body, part + 1, Len(reply.body))
         more == part < Len(reply.body) IN
       /\ outbound' = Append(outbound,
            [corr |-> reply.corr, kind |-> reply.kind, stage |-> reply.stage,
             status |-> reply.status, body |-> SubSeq(reply.body, 1, part), more |-> more])
       /\ reply' = IF more THEN [reply EXCEPT !.body = rest] ELSE IdleReply
       /\ pc' = IF more THEN "reply" ELSE "drain"
  /\ UNCHANGED <<assemblies, jobs, work, done, now, heartbeat, envVars, exit>>

\* Mutant: a full ring postpones the rest of the reply and the loop goes on.
EmitBlockedGoesOn ==
  /\ pc = "reply" /\ ReplyError = "nil" /\ Len(outbound) = OutCap
  /\ pc' = "drain"
  /\ UNCHANGED <<assemblies, jobs, work, done, reply, outbound, now, heartbeat, envVars, exit>>

EmitBlocked ==
  /\ pc = "reply" /\ ReplyError = "nil" /\ Len(outbound) = OutCap
  /\ pc' = "wait"
  /\ UNCHANGED <<assemblies, jobs, work, done, reply, outbound, now, heartbeat, envVars, exit>>

\* Mutant: the retry loop goes round again although ctx is cancelled.
WaitIgnoresCtx ==
  /\ pc = "wait" /\ ctxDone
  /\ pc' = "reply"
  /\ UNCHANGED <<assemblies, jobs, work, done, reply, outbound, now, heartbeat, envVars, exit>>

\* The select of the retry loop; with both cases ready either may be taken.
WaitCancelled ==
  /\ pc = "wait" /\ ctxDone
  /\ Stop("ctx.Err")
  /\ UNCHANGED <<assemblies, jobs, work, done, reply, outbound, now, heartbeat, envVars>>

\* Mutant: no heartbeat while the ring is full.
WaitWithoutHeartbeat ==
  /\ pc = "wait"
  /\ IF epochChanged THEN Stop("ErrEpoch") ELSE pc' = "reply" /\ UNCHANGED exit
  /\ UNCHANGED <<assemblies, jobs, work, done, reply, outbound, now, heartbeat, envVars>>

\* Mutant: the fragment the ring had no room for is given up.
WaitDropsReply ==
  /\ pc = "wait"
  /\ IF epochChanged THEN Stop("ErrEpoch") /\ UNCHANGED heartbeat
     ELSE pc' = "drain" /\ heartbeat' = clock /\ UNCHANGED exit
  /\ UNCHANGED <<assemblies, jobs, work, done, reply, outbound, now, envVars>>

WaitTimer ==
  /\ pc = "wait"
  /\ IF epochChanged
     THEN Stop("ErrEpoch") /\ UNCHANGED heartbeat
     ELSE pc' = "reply" /\ heartbeat' = clock /\ UNCHANGED exit
  /\ UNCHANGED <<assemblies, jobs, work, done, reply, outbound, now, envVars>>

(***************************************************************************)
(* The handler goroutines: runHandler.                                     *)
(***************************************************************************)
\* What runHandler sends for what the handler returned.
Outcome(w, r) ==
  IF work[w].cancelled THEN [status |-> "Cancelled", body |-> <<>>]
  ELSE IF Expired(work[w].deadline, clock) THEN [status |-> "DeadlineExceeded", body |-> <<>>]
  ELSE Normalised(r.status, r.body)

HandlerReturn(w, r) ==
  /\ work[w].phase = "running"
  /\ work' = [work EXCEPT ![w].phase = "sending", ![w].status = Outcome(w, r).status,
                          ![w].body = Outcome(w, r).body]
  /\ UNCHANGED <<loopVars, done, outbound, envVars>>

\* Mutant: the channel is made one place too small.
DoneCapOffByOne == MaxInFlight - 1

\* The capacity `done' is made with.
DoneCap == MaxInFlight

\* done <- result, which waits while the channel is full.
HandlerSend(w) ==
  /\ work[w].phase = "sending" /\ Len(done) < DoneCap
  /\ done' = Append(done, w)
  /\ work' = [work EXCEPT ![w].phase = "sent"]
  /\ UNCHANGED <<loopVars, outbound, envVars>>

(***************************************************************************)
(* The host, the clock and the owner of ctx.                               *)
(***************************************************************************)
HostDrain ==
  /\ outbound # <<>>
  /\ outbound' = Tail(outbound)
  /\ UNCHANGED <<loopVars, work, done, envVars>>

HostRestart ==
  /\ ~epochChanged /\ epochChanged' = TRUE
  /\ UNCHANGED <<loopVars, work, done, outbound, clock, ctxDone>>

CtxCancel ==
  /\ ~ctxDone /\ ctxDone' = TRUE
  /\ UNCHANGED <<loopVars, work, done, outbound, clock, epochChanged>>

Tick ==
  /\ clock < MaxClock /\ clock' = clock + 1
  /\ UNCHANGED <<loopVars, work, done, outbound, epochChanged, ctxDone>>

\* The loop has returned and no goroutine is left.
Terminated == pc = "stopped" /\ LiveHandlers = {} /\ UNCHANGED vars

\* What becomes of the frame Poll returned.
Dispatched(f) ==
  \/ CancelFrame(f) \/ IgnoreFrame(f) \/ RejectInvalid(f) \/ RefuseAssembly(f)
  \/ RefuseOversize(f) \/ HoldFragment(f) \/ RefuseComplete(f) \/ StartJob(f)

Dispatch == \E f \in Inbound : Dispatched(f)

\* The steps of the loop that do not look at the inbound ring.
OwnStep ==
  \/ FinishWork \/ NothingDone \/ BeginShutdown \/ AwaitJob \/ Drained \/ CheckEpoch
  \/ PollEpoch
  \/ ReplyFails \/ EmitFragment \/ EmitBlocked \/ WaitCancelled \/ WaitTimer

LoopStep == OwnStep \/ PollNothing \/ Dispatch

HandlerStep(w) == (\E r \in HandlerResults : HandlerReturn(w, r)) \/ HandlerSend(w)

Next ==
  \/ LoopStep
  \/ \E w \in Wid : HandlerStep(w)
  \/ HostDrain \/ HostRestart \/ CtxCancel \/ Tick
  \/ Terminated

Spec == Init /\ [][Next]_vars

(***************************************************************************)
(* The loop keeps running, a select takes a case that stays ready, and     *)
(* every handler returns.  Nothing is assumed of the host or of ctx.       *)
(***************************************************************************)
FairSpec ==
  /\ Spec
  /\ WF_vars(LoopStep)
  /\ SF_vars(WaitCancelled)
  /\ \A w \in Wid : WF_vars(HandlerStep(w))

(***************************************************************************)
(* Properties.                                                             *)
(***************************************************************************)
\* The tables hold assemblies and works, the replies on the ring carry a status of the wire
\* format, whatever status a handler returned.
TypeOK ==
  /\ pc \in {"drain", "check", "poll", "reply", "wait", "drainJobs", "stopped"}
  /\ assemblies \in [Corr -> Assembly \cup {NoAssembly}]
  /\ jobs \in [Corr -> Wid \cup {NoWork}]
  /\ work \in [Wid -> Work]
  /\ done \in Seq(Wid)
  /\ reply \in Reply
  /\ outbound \in Seq(OutFrame)
  /\ now \in Nat /\ heartbeat \in Nat /\ clock \in Nat
  /\ epochChanged \in BOOLEAN /\ ctxDone \in BOOLEAN
  /\ exit \in {"none", "drained", "epoch", "ErrEpoch", "ctx.Err",
               "ErrModuleMessage", "ErrProtocol"}

\* Every moduleWork in use is the job of its own correlation and every job is in use; the
\* ones on `done' are there once.  A duplicate request or a late cancel never detaches a
\* running handler from the table finishModuleWork and the shutdown loop go by.
JobsAreTheWork ==
  /\ \A c \in Corr : jobs[c] # NoWork => work[jobs[c]].phase # "free" /\ work[jobs[c]].corr = c
  /\ \A w \in Wid : work[w].phase # "free" => jobs[work[w].corr] = w
  /\ \A w \in Wid : work[w].phase = "sent" <=> \E i \in DOMAIN done : done[i] = w
  /\ \A i, j \in DOMAIN done : done[i] = done[j] => i = j

\* A handler goroutine that has its result always finds room in `done', also after the
\* loop has returned and nobody receives any more: no goroutine is left blocked on it.
DoneHasRoom == \A w \in Wid : work[w].phase = "sending" => Len(done) < DoneCap

\* A correlation is never being assembled and served at once, and neither table grows past
\* moduleMaxInFlight, whatever fragments, duplicates and cancels arrive in which order.
AssemblingXorRunning ==
  /\ AssemblyKeys \cap JobKeys = {}
  /\ Cardinality(AssemblyKeys) <= MaxInFlight
  /\ Cardinality(JobKeys) <= MaxInFlight

\* No frame and no handler result makes runModuleClient fail: it returns only because of
\* ctx or of the epoch.
OnlyCtxOrEpochStops ==
  /\ exit \in {"drained", "ctx.Err"} => ctxDone
  /\ exit \in {"epoch", "ErrEpoch"} => epochChanged
  /\ exit \in {"none", "drained", "ctx.Err", "epoch", "ErrEpoch"}

\* The orderly shutdown waits for every handler, the ones on `done' included.
DrainLeavesNoHandler == exit = "drained" => FreeWids = Wid

\* The fragments of a reply leave the runtime next to each other: nothing is written
\* between two of them although the ring may fill up in the middle of the reply.
FragmentsContiguous ==
  /\ \A i \in 1 .. Len(outbound) - 1 :
       outbound[i].more => outbound[i + 1].corr = outbound[i].corr
  /\ outbound # <<>> /\ outbound[Len(outbound)].more /\ exit = "none"
       => pc \in {"reply", "wait"} /\ reply.corr = outbound[Len(outbound)].corr

\* If the host keeps making room in the ring, every accepted request gets its last reply
\* fragment unless the runtime is told to stop.
JobIsAnswered ==
  []<>(Len(outbound) < OutCap) =>
    \A c \in Corr :
      jobs[c] # NoWork ~> \/ ctxDone \/ epochChanged
                          \/ /\ jobs[c] = NoWork /\ outbound # <<>>
                             /\ outbound[Len(outbound)].corr = c
                             /\ ~outbound[Len(outbound)].more

\* A cancelled ctx or a changed epoch stops the loop, also when it is in the middle of a
\* reply to a host that no longer reads the ring.
StopsWhenTold == ctxDone \/ epochChanged ~> pc = "stopped"

\* The heartbeat word follows the clock for as long as the runtime serves, also while a
\* reply waits for room in a full ring.
HeartbeatKeepsUp ==
  \A t \in 1 .. MaxClock : clock >= t ~> heartbeat >= t \/ ctxDone \/ epochChanged

=============================================================================

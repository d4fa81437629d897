------------------------- MODULE ModuleRuntimeProof -------------------------
(***************************************************************************)
(* Proofs about ModuleRuntime for every set of correlations, every limit   *)
(* and every behaviour of host and handlers.  The inductive invariant is   *)
(* Inv; each of its parts has a lemma of its own, by action.               *)
(***************************************************************************)
EXTENDS ModuleRuntime, FiniteSetTheorems, TLAPS

\* The steps of the runtime whatever frame the inbound ring holds and whatever a handler
\* returns; those of Next are among them, and so are those of a runtime composed with callers.
AnyHandlerStep(w) ==
  (\E r : r.body \in Seq(Chunks) /\ HandlerReturn(w, r)) \/ HandlerSend(w)

AnyNext ==
  \/ OwnStep \/ PollNothing
  \/ \E f \in Frame : Dispatched(f)
  \/ \E w \in Wid : AnyHandlerStep(w)
  \/ HostDrain \/ HostRestart \/ CtxCancel \/ Tick
  \/ Terminated

\* A step of the specification is one of these.
LEMMA NextIsAny == [Next]_vars => [AnyNext]_vars
<1>1. ASSUME NEW w \in Wid, HandlerStep(w) PROVE AnyHandlerStep(w)
  BY <1>1, RuntimeAssumption DEF HandlerStep, AnyHandlerStep
<1>2. Dispatch => \E f \in Frame : Dispatched(f)
  BY RuntimeAssumption DEF Dispatch
<1> QED
  BY <1>1, <1>2 DEF Next, AnyNext, LoopStep

\* A reply under way and every job can be encoded: stage and correlation are not 0.
Encodes ==
  /\ pc \in {"reply", "wait"} => reply.stage # 0 /\ reply.corr # 0
  /\ \A w \in Wid : work[w].phase # "free" => work[w].stage # 0 /\ work[w].corr # 0

\* The loop has returned exactly when it has an exit; the orderly one comes from ctx and
\* left no job.
ExitShape ==
  /\ pc = "drainJobs" => ctxDone
  /\ exit # "none" <=> pc = "stopped"
  /\ exit = "drained" => JobKeys = {}

Inv ==
  /\ TypeOK
  /\ Encodes
  /\ ExitShape
  /\ JobsAreTheWork
  /\ AssemblingXorRunning
  /\ OnlyCtxOrEpochStops

\* What is sent for a handler's result is a status and a body of the wire format.
LEMMA NormalisedType ==
  ASSUME NEW status, NEW body \in Seq(Chunks)
  PROVE  Normalised(status, body) \in [status: Status, body: Seq(Chunks)]
  BY DEF Normalised, Status

\* The reply a step of the loop begins has the type of a reply.
LEMMA BeginReplyType ==
  ASSUME NEW corr \in Corr, NEW kind \in Kinds \cup {0}, NEW stage \in Nat,
         NEW status, NEW body \in Seq(Chunks),
         BeginReply(corr, kind, stage, status, body)
  PROVE  /\ pc' = "reply" /\ exit' = exit
         /\ reply' \in Reply
         /\ reply'.corr = corr /\ reply'.stage = stage
<1> DEFINE n == Normalised(status, body)
<1>1. n.status \in Status /\ n.body \in Seq(Chunks)
  BY NormalisedType
<1>2. /\ pc' = "reply" /\ exit' = exit
      /\ reply' = [corr |-> corr, kind |-> kind, stage |-> stage,
                   status |-> n.status, body |-> n.body]
  BY DEF BeginReply
<1> HIDE DEF n
<1> QED
  BY <1>1, <1>2 DEF Reply

\* A refusal has no body.
LEMMA RefusalType ==
  ASSUME NEW corr \in Corr, NEW kind \in Kinds, NEW stage \in Nat, NEW status,
         BeginReply(corr, kind, stage, status, <<>>)
  PROVE  /\ pc' = "reply" /\ exit' = exit
         /\ reply' \in Reply
         /\ reply'.corr = corr /\ reply'.stage = stage
<1>1. kind \in Kinds \cup {0} /\ <<>> \in Seq(Chunks)
  OBVIOUS
<1> QED
  BY <1>1, BeginReplyType

\* A frame that is taken has a correlation and, when it is a request, a known kind.
LEMMA PolledType ==
  ASSUME TypeOK, NEW f \in Frame, Polled(f)
  PROVE  /\ f \in Frame
         /\ f.kind \in Kinds /\ Stages[f.kind] \in Nat
         /\ f.pattern # "notification" => f.corr \in Corr
         /\ f.msg # Malformed => /\ f.msg \in Message /\ f.msg.stage \in Nat
                                 /\ f.msg.deadline \in Nat /\ f.msg.body \in Seq(Chunks)
  BY RuntimeAssumption DEF Polled, Decodes, Frame, Message

\* The body held for a request is a sequence of chunks.
LEMMA BodySoFarType ==
  ASSUME TypeOK, NEW f \in Frame, Valid(f)
  PROVE  BodySoFar(f) \in Seq(Chunks)
<1>1. f.corr \in Corr /\ f.msg.body \in Seq(Chunks)
  BY PolledType DEF Valid, WellFormed
<1>2. assemblies[f.corr] # NoAssembly => assemblies[f.corr].body \in Seq(Chunks)
  BY <1>1 DEF TypeOK, Assembly
<1> QED
  BY <1>1, <1>2 DEF BodySoFar

\* The work received from `done' is a finished job of the table, and taking it keeps the types.
LEMMA ForgetType ==
  ASSUME TypeOK, Encodes, JobsAreTheWork, done # <<>>, Forget(Head(done))
  PROVE  /\ Head(done) \in Wid
         /\ work[Head(done)] \in Work /\ work[Head(done)].phase = "sent"
         /\ work[Head(done)].corr \in Corr /\ work[Head(done)].stage # 0
         /\ jobs[work[Head(done)].corr] = Head(done)
         /\ jobs' \in [Corr -> Wid \cup {NoWork}]
         /\ work' \in [Wid -> Work]
         /\ done' \in Seq(Wid)
<1> DEFINE w == Head(done)
<1>1. w \in Wid /\ Tail(done) \in Seq(Wid) /\ w = done[1] /\ 1 \in DOMAIN done
  BY DEF TypeOK
<1>2. work[w].phase = "sent"
  BY <1>1 DEF JobsAreTheWork
<1>3. work[w] \in Work
  BY <1>1 DEF TypeOK
<1>4. work[w].corr \in Corr /\ work[w].stage # 0 /\ jobs[work[w].corr] = w
  BY <1>1, <1>2, <1>3 DEF Encodes, Work, JobsAreTheWork
<1>5. FreeWork \in Work
  BY DEF FreeWork, Work, Phase, Status
<1>6. /\ jobs' \in [Corr -> Wid \cup {NoWork}]
      /\ work' \in [Wid -> Work]
      /\ done' \in Seq(Wid)
  BY <1>1, <1>5 DEF Forget, TypeOK
<1> QED
  BY <1>1, <1>2, <1>3, <1>4, <1>6

\* Every step of the runtime, of a handler and of the environment keeps the types.
LEMMA TypeStep ==
  ASSUME Inv, [AnyNext]_vars
  PROVE  TypeOK'
<1> USE DEF loopVars, envVars
<1>1. CASE FinishWork
  <2> DEFINE w == Head(done)
  <2>1. Forget(w) /\ BeginReply(work[w].corr, work[w].kind, work[w].stage,
                                work[w].status, work[w].body)
    BY <1>1 DEF FinishWork
  <2>2. /\ work[w] \in Work /\ work[w].corr \in Corr
        /\ jobs' \in [Corr -> Wid \cup {NoWork}] /\ work' \in [Wid -> Work] /\ done' \in Seq(Wid)
    BY <1>1, <2>1, ForgetType DEF Inv, FinishWork
  <2>3. work[w].kind \in Kinds \cup {0} /\ work[w].stage \in Nat /\ work[w].body \in Seq(Chunks)
    BY <2>2 DEF Work
  <2> HIDE DEF w
  <2>4. pc' = "reply" /\ exit' = exit /\ reply' \in Reply
    BY <2>1, <2>2, <2>3, BeginReplyType
  <2> QED
    BY <1>1, <2>2, <2>4 DEF FinishWork, Inv, TypeOK
<1>2. CASE NothingDone
  BY <1>2 DEF NothingDone, Inv, TypeOK
<1>3. CASE BeginShutdown
  <2>0. ASSUME NEW w \in Wid PROVE work[w] \in Work /\ [work[w] EXCEPT !.cancelled = TRUE] \in Work
    <3>1. work[w] \in Work
      BY DEF Inv, TypeOK
    <3> QED
      BY <3>1 DEF Work
  <2>1. work' \in [Wid -> Work]
    BY <1>3, <2>0 DEF BeginShutdown
  <2> QED
    BY <1>3, <2>1 DEF BeginShutdown, Inv, TypeOK
<1>4. CASE AwaitJob
  <2>1. jobs' \in [Corr -> Wid \cup {NoWork}] /\ work' \in [Wid -> Work] /\ done' \in Seq(Wid)
    BY <1>4, ForgetType DEF AwaitJob, Inv
  <2> QED
    BY <1>4, <2>1 DEF AwaitJob, Inv, TypeOK
<1>5. CASE Drained
  BY <1>5 DEF Drained, Stop, Inv, TypeOK
<1>6. CASE CheckEpoch
  BY <1>6 DEF CheckEpoch, Stop, Inv, TypeOK
<1>7. CASE PollEpoch
  BY <1>7 DEF PollEpoch, Stop, Inv, TypeOK
<1>8. CASE PollNothing
  BY <1>8 DEF PollNothing, Inv, TypeOK
<1>9. ASSUME NEW f \in Frame, CancelFrame(f) PROVE TypeOK'
  <2>1. f.corr \in Corr
    BY <1>9, PolledType DEF CancelFrame, Inv
  <2>2. work' \in [Wid -> Work]
    <3>1. CASE jobs[f.corr] = NoWork
      BY <1>9, <3>1 DEF CancelFrame, Inv, TypeOK
    <3>2. CASE jobs[f.corr] # NoWork
      <4>1. PICK w \in Wid : w = jobs[f.corr]
        BY <2>1, <3>2 DEF Inv, TypeOK
      <4>2. work' = [work EXCEPT ![w] = [work[w] EXCEPT !.cancelled = TRUE]]
        BY <1>9, <3>2, <4>1 DEF CancelFrame
      <4>3. [work[w] EXCEPT !.cancelled = TRUE] \in Work
        BY DEF Inv, TypeOK, Work
      <4> QED
        BY <4>2, <4>3 DEF Inv, TypeOK
    <3> QED
      BY <3>1, <3>2
  <2> QED
    BY <1>9, <2>1, <2>2 DEF CancelFrame, Inv, TypeOK
<1>10. ASSUME NEW f \in Frame, IgnoreFrame(f) PROVE TypeOK'
  BY <1>10 DEF IgnoreFrame, Inv, TypeOK
<1>11. ASSUME NEW f \in Frame, RejectInvalid(f) PROVE TypeOK'
  <2>1. f.corr \in Corr /\ f.kind \in Kinds /\ AnswerStage(Stages[f.kind]) \in Nat
    BY <1>11, PolledType DEF RejectInvalid, Inv, AnswerStage
  <2>2. BeginReply(f.corr, f.kind, AnswerStage(Stages[f.kind]), "InvalidRequest", <<>>)
    BY <1>11 DEF RejectInvalid
  <2>3. pc' = "reply" /\ exit' = exit /\ reply' \in Reply
    BY <2>1, <2>2, RefusalType
  <2> QED
    BY <1>11, <2>1, <2>3 DEF RejectInvalid, Inv, TypeOK
<1>12. ASSUME NEW f \in Frame, RefuseAssembly(f) PROVE TypeOK'
  <2>1. f.corr \in Corr /\ f.kind \in Kinds /\ Stages[f.kind] \in Nat
    BY <1>12, PolledType DEF RefuseAssembly, Valid, Inv
  <2>2. BeginReply(f.corr, f.kind, Stages[f.kind], "Internal", <<>>)
    BY <1>12 DEF RefuseAssembly
  <2>3. pc' = "reply" /\ exit' = exit /\ reply' \in Reply
    BY <2>1, <2>2, RefusalType
  <2> QED
    BY <1>12, <2>1, <2>3 DEF RefuseAssembly, Inv, TypeOK
<1>13. ASSUME NEW f \in Frame, RefuseOversize(f) PROVE TypeOK'
  <2>1. f.corr \in Corr /\ f.kind \in Kinds /\ Stages[f.kind] \in Nat
    BY <1>13, PolledType DEF RefuseOversize, Admitted, Valid, Inv
  <2>2. BeginReply(f.corr, f.kind, Stages[f.kind], "Internal", <<>>)
    BY <1>13 DEF RefuseOversize
  <2>3. pc' = "reply" /\ exit' = exit /\ reply' \in Reply
    BY <2>1, <2>2, RefusalType
  <2> QED
    BY <1>13, <2>1, <2>3 DEF RefuseOversize, Inv, TypeOK
<1>14. ASSUME NEW f \in Frame, HoldFragment(f) PROVE TypeOK'
  <2>1. Valid(f)
    BY <1>14 DEF HoldFragment, Admitted
  <2>2. f.corr \in Corr /\ f.kind \in Kinds /\ f.msg.stage \in Nat /\ f.msg.deadline \in Nat
    BY <2>1, PolledType DEF Valid, WellFormed, Inv
  <2>3. BodySoFar(f) \in Seq(Chunks)
    BY <2>1, BodySoFarType DEF Inv
  <2>4. assemblies' \in [Corr -> Assembly \cup {NoAssembly}]
    BY <1>14, <2>2, <2>3 DEF HoldFragment, Inv, TypeOK, Assembly
  <2> QED
    BY <1>14, <2>4 DEF HoldFragment, Inv, TypeOK
<1>15. ASSUME NEW f \in Frame, RefuseComplete(f) PROVE TypeOK'
  <2>1. f.corr \in Corr /\ f.kind \in Kinds /\ Stages[f.kind] \in Nat
    BY <1>15, PolledType DEF RefuseComplete, Completes, Admitted, Valid, Inv
  <2>2. BeginReply(f.corr, f.kind, Stages[f.kind], Admission(f.msg.deadline), <<>>)
    BY <1>15 DEF RefuseComplete
  <2>3. pc' = "reply" /\ exit' = exit /\ reply' \in Reply
    BY <2>1, <2>2, RefusalType
  <2> QED
    BY <1>15, <2>1, <2>3 DEF RefuseComplete, Inv, TypeOK
<1>16. ASSUME NEW f \in Frame, StartJob(f) PROVE TypeOK'
  <2>1. Valid(f)
    BY <1>16 DEF StartJob, Completes, Admitted
  <2>2. f.corr \in Corr /\ f.kind \in Kinds /\ Stages[f.kind] \in Nat /\ f.msg.deadline \in Nat
    BY <2>1, PolledType DEF Valid, WellFormed, Inv
  <2>3. PICK w \in FreeWids :
          /\ jobs' = [jobs EXCEPT ![f.corr] = w]
          /\ work' = [work EXCEPT ![w] = NewWork(f)]
    BY <1>16 DEF StartJob
  <2>4. w \in Wid
    BY <2>3 DEF FreeWids
  <2>5. NewWork(f) \in Work
    BY <2>2 DEF NewWork, Work, Phase, Status
  <2>6. jobs' \in [Corr -> Wid \cup {NoWork}] /\ work' \in [Wid -> Work]
    BY <2>2, <2>3, <2>4, <2>5 DEF Inv, TypeOK
  <2> QED
    BY <1>16, <2>2, <2>6 DEF StartJob, Inv, TypeOK
<1>17. CASE ReplyFails
  BY <1>17 DEF ReplyFails, ReplyError, Stop, Inv, TypeOK
<1>18. CASE EmitFragment
  <2> DEFINE part == Smaller(Len(reply.body), ChunkCapacity)
             rest == SubSeq(reply.body, part + 1, Len(reply.body))
             more == part < Len(reply.body)
             out  == [corr |-> reply.corr, kind |-> reply.kind, stage |-> reply.stage,
                      status |-> reply.status, body |-> SubSeq(reply.body, 1, part),
                      more |-> more]
  <2>1. /\ reply.body \in Seq(Chunks) /\ reply.corr \in Corr /\ reply.kind \in Kinds \cup {0}
        /\ reply.stage \in Nat /\ reply.status \in Status
    BY <1>18 DEF EmitFragment, ReplyError, Inv, TypeOK, Reply
  <2>2. part \in Nat /\ part <= Len(reply.body)
    BY <2>1, RuntimeAssumption DEF Smaller
  <2>3. rest \in Seq(Chunks) /\ SubSeq(reply.body, 1, part) \in Seq(Chunks)
    BY <2>1, <2>2
  <2>4. /\ outbound' = Append(outbound, out)
        /\ reply' = IF more THEN [reply EXCEPT !.body = rest] ELSE IdleReply
        /\ pc' = IF more THEN "reply" ELSE "drain"
    BY <1>18 DEF EmitFragment
  <2>5. out \in OutFrame
    BY <2>1, <2>3 DEF OutFrame
  <2>6. IdleReply \in Reply
    BY DEF Reply, IdleReply, Status
  <2>7. ASSUME NEW b \in Seq(Chunks) PROVE [reply EXCEPT !.body = b] \in Reply
    BY <2>7 DEF Reply, Inv, TypeOK
  <2> HIDE DEF part, rest, more, out
  <2>8. outbound' \in Seq(OutFrame) /\ reply' \in Reply /\ pc' \in {"reply", "drain"}
    BY <2>3, <2>4, <2>5, <2>6, <2>7 DEF Inv, TypeOK
  <2> QED
    BY <1>18, <2>8 DEF EmitFragment, Inv, TypeOK
<1>19. CASE EmitBlocked
  BY <1>19 DEF EmitBlocked, Inv, TypeOK
<1>20. CASE WaitCancelled
  BY <1>20 DEF WaitCancelled, Stop, Inv, TypeOK
<1>21. CASE WaitTimer
  BY <1>21 DEF WaitTimer, Stop, Inv, TypeOK
<1>22. ASSUME NEW w \in Wid, NEW r, r.body \in Seq(Chunks), HandlerReturn(w, r) PROVE TypeOK'
  <2>1. Normalised(r.status, r.body) \in [status: Status, body: Seq(Chunks)]
    BY <1>22, NormalisedType
  <2>2. Outcome(w, r).status \in Status /\ Outcome(w, r).body \in Seq(Chunks)
    BY <2>1 DEF Outcome, Status
  <2>3. work' \in [Wid -> Work]
    <3> DEFINE sending  == [work EXCEPT ![w].phase = "sending"]
               answered == [sending EXCEPT ![w].status = Outcome(w, r).status]
    <3>1. sending \in [Wid -> Work]
      BY DEF Inv, TypeOK, Work, Phase
    <3> HIDE DEF sending
    <3>2. answered \in [Wid -> Work]
      BY <3>1, <2>2 DEF Work
    <3> HIDE DEF answered
    <3>3. [answered EXCEPT ![w].body = Outcome(w, r).body] \in [Wid -> Work]
      BY <3>2, <2>2 DEF Work
    <3> QED
      BY <1>22, <3>3 DEF HandlerReturn, answered, sending
  <2> QED
    BY <1>22, <2>3 DEF HandlerReturn, Inv, TypeOK
<1>23. ASSUME NEW w \in Wid, HandlerSend(w) PROVE TypeOK'
  <2>1. work' \in [Wid -> Work]
    BY <1>23 DEF HandlerSend, Inv, TypeOK, Work, Phase
  <2> QED
    BY <1>23, <2>1 DEF HandlerSend, Inv, TypeOK
<1>24. CASE HostDrain
  <2>1. Tail(outbound) \in Seq(OutFrame)
    BY <1>24 DEF HostDrain, Inv, TypeOK
  <2> QED
    BY <1>24, <2>1 DEF HostDrain, Inv, TypeOK
<1>25. CASE HostRestart
  BY <1>25 DEF HostRestart, Inv, TypeOK
<1>26. CASE CtxCancel
  BY <1>26 DEF CtxCancel, Inv, TypeOK
<1>27. CASE Tick
  BY <1>27 DEF Tick, Inv, TypeOK
<1>28. CASE UNCHANGED vars
  BY <1>28 DEF vars, Inv, TypeOK
<1> QED
  BY <1>1, <1>2, <1>3, <1>4, <1>5, <1>6, <1>7, <1>8, <1>9, <1>10, <1>11, <1>12, <1>13, <1>14,
     <1>15, <1>16, <1>17, <1>18, <1>19, <1>20, <1>21, <1>22, <1>23, <1>24, <1>25, <1>26, <1>27,
     <1>28
  DEF AnyNext, OwnStep, Dispatched, AnyHandlerStep, Terminated

\* The steps that touch a job, a moduleWork or the channel, and all others.
LEMMA JobSteps ==
  ASSUME [AnyNext]_vars
  PROVE  \/ UNCHANGED <<jobs, work, done>>
         \/ FinishWork \/ AwaitJob \/ BeginShutdown
         \/ \E f \in Frame : CancelFrame(f) \/ StartJob(f)
         \/ \E w \in Wid : \/ \E r : r.body \in Seq(Chunks) /\ HandlerReturn(w, r)
                           \/ HandlerSend(w)
  BY DEF AnyNext, vars, loopVars, envVars, OwnStep, Dispatched, AnyHandlerStep, Terminated,
         NothingDone, Drained, CheckEpoch, PollEpoch, PollNothing, IgnoreFrame, RejectInvalid,
         RefuseAssembly, RefuseOversize, HoldFragment, RefuseComplete, ReplyFails,
         EmitFragment, EmitBlocked, WaitCancelled, WaitTimer, HostDrain, HostRestart,
         CtxCancel, Tick

\* Receiving the head of the channel takes exactly one job off the books.
LEMMA ForgetJobs ==
  ASSUME TypeOK, Encodes, JobsAreTheWork, done # <<>>, Forget(Head(done))
  PROVE  JobsAreTheWork'
<1> DEFINE w == Head(done)
           c == work[w].corr
<1>1. /\ w \in Wid /\ work[w].phase = "sent" /\ c \in Corr /\ jobs[c] = w
  BY ForgetType
<1>2. /\ done \in Seq(Wid) /\ w = done[1] /\ Len(done) \in Nat /\ Len(done) > 0
      /\ DOMAIN done = 1 .. Len(done)
      /\ DOMAIN done' = 1 .. Len(done) - 1
      /\ \A i \in DOMAIN done' : i + 1 \in DOMAIN done /\ done'[i] = done[i + 1]
  BY DEF Forget, TypeOK
<1>3. /\ jobs' = [jobs EXCEPT ![c] = NoWork]
      /\ work' = [work EXCEPT ![w] = FreeWork]
  BY DEF Forget
<1>4. work'[w].phase = "free" /\ jobs'[c] = NoWork
  BY <1>1, <1>3 DEF FreeWork, TypeOK
<1>5. \A v \in Wid : v # w => work'[v] = work[v]
  BY <1>3 DEF TypeOK
<1>6. \A d \in Corr : d # c => jobs'[d] = jobs[d]
  BY <1>3 DEF TypeOK
<1> HIDE DEF w, c
<1>7. ASSUME NEW d \in Corr, jobs'[d] # NoWork
      PROVE  work'[jobs'[d]].phase # "free" /\ work'[jobs'[d]].corr = d
  <2>1. d # c /\ jobs'[d] = jobs[d] /\ jobs[d] \in Wid
    BY <1>4, <1>6, <1>7 DEF TypeOK
  <2>2. work[jobs[d]].phase # "free" /\ work[jobs[d]].corr = d
    BY <1>7, <2>1 DEF JobsAreTheWork
  <2>3. jobs[d] # w
    BY <2>1, <2>2 DEF c
  <2> QED
    BY <1>5, <2>1, <2>2, <2>3
<1>8. ASSUME NEW v \in Wid, work'[v].phase # "free"
      PROVE  jobs'[work'[v].corr] = v
  <2>1. v # w /\ work'[v] = work[v]
    BY <1>4, <1>5, <1>8
  <2>2. jobs[work[v].corr] = v
    BY <1>8, <2>1 DEF JobsAreTheWork
  <2>3. work[v].corr # c /\ work[v].corr \in Corr
    BY <1>1, <1>8, <2>1, <2>2 DEF Encodes, TypeOK, Work
  <2> QED
    BY <1>6, <2>1, <2>2, <2>3
<1>9. ASSUME NEW v \in Wid
      PROVE  work'[v].phase = "sent" <=> \E i \in DOMAIN done' : done'[i] = v
  <2>1. CASE v = w
    <3>1. ASSUME NEW i \in DOMAIN done', done'[i] = w PROVE FALSE
      <4>1. i + 1 \in DOMAIN done /\ 1 \in DOMAIN done /\ done[i + 1] = done[1] /\ i + 1 # 1
        BY <1>2, <3>1
      <4> QED
        BY <4>1 DEF JobsAreTheWork
    <3> QED
      BY <1>4, <2>1, <3>1
  <2>2. CASE v # w
    <3>1. work'[v].phase = "sent" <=> \E i \in DOMAIN done : done[i] = v
      BY <1>5, <2>2 DEF JobsAreTheWork
    <3>2. ASSUME NEW i \in DOMAIN done, done[i] = v
          PROVE  i - 1 \in DOMAIN done' /\ done'[i - 1] = v
      BY <1>2, <2>2, <3>2
    <3>3. ASSUME NEW i \in DOMAIN done', done'[i] = v
          PROVE  i + 1 \in DOMAIN done /\ done[i + 1] = v
      BY <1>2, <3>3
    <3> QED
      BY <3>1, <3>2, <3>3
  <2> QED
    BY <2>1, <2>2
<1>10. ASSUME NEW i \in DOMAIN done', NEW j \in DOMAIN done', done'[i] = done'[j]
       PROVE  i = j
  <2>1. i + 1 \in DOMAIN done /\ j + 1 \in DOMAIN done /\ done[i + 1] = done[j + 1]
    BY <1>2, <1>10
  <2>2. i + 1 = j + 1
    BY <2>1 DEF JobsAreTheWork
  <2> QED
    BY <1>2, <2>2
<1> QED
  BY <1>7, <1>8, <1>9, <1>10 DEF JobsAreTheWork

\* A step that changes only what a moduleWork in use carries keeps the books.
LEMMA SameBooks ==
  ASSUME JobsAreTheWork, TypeOK, UNCHANGED <<jobs, done>>,
         \A w \in Wid : /\ work'[w].corr = work[w].corr
                        /\ work'[w].phase = "free" <=> work[w].phase = "free"
                        /\ work'[w].phase = "sent" <=> work[w].phase = "sent"
  PROVE  JobsAreTheWork'
  BY DEF JobsAreTheWork, TypeOK

\* Every step keeps job table, works and channel in agreement, one case per step that
\* touches them.
LEMMA JobsStep ==
  ASSUME Inv, [AnyNext]_vars
  PROVE  JobsAreTheWork'
<1> USE DEF Inv
<1>1. CASE UNCHANGED <<jobs, work, done>>
  BY <1>1 DEF JobsAreTheWork
<1>2. CASE FinishWork
  BY <1>2, ForgetJobs DEF FinishWork
<1>3. CASE AwaitJob
  BY <1>3, ForgetJobs DEF AwaitJob
<1>4. CASE BeginShutdown
  <2>1. \A w \in Wid : work'[w].corr = work[w].corr /\ work'[w].phase = work[w].phase
    BY <1>4 DEF BeginShutdown, TypeOK, Work
  <2> QED
    BY <1>4, <2>1, SameBooks DEF BeginShutdown
<1>5. ASSUME NEW f \in Frame, CancelFrame(f) PROVE JobsAreTheWork'
  <2>1. f.corr \in Corr
    BY <1>5, PolledType DEF CancelFrame
  <2>2. \A w \in Wid : work'[w].corr = work[w].corr /\ work'[w].phase = work[w].phase
    BY <1>5, <2>1 DEF CancelFrame, TypeOK, Work
  <2> QED
    BY <1>5, <2>2, SameBooks DEF CancelFrame
<1>6. ASSUME NEW f \in Frame, StartJob(f) PROVE JobsAreTheWork'
  <2>1. f.corr \in Corr /\ jobs[f.corr] = NoWork
    BY <1>6, PolledType DEF StartJob, Completes, Admitted, Valid, WellFormed
  <2>2. PICK w \in FreeWids :
          jobs' = [jobs EXCEPT ![f.corr] = w] /\ work' = [work EXCEPT ![w] = NewWork(f)]
    BY <1>6 DEF StartJob
  <2>3. w \in Wid /\ work[w].phase = "free" /\ w # NoWork
    BY <2>2, RuntimeAssumption DEF FreeWids
  <2>4. /\ jobs'[f.corr] = w /\ \A d \in Corr : d # f.corr => jobs'[d] = jobs[d]
        /\ work'[w].phase = "running" /\ work'[w].corr = f.corr
        /\ \A v \in Wid : v # w => work'[v] = work[v]
        /\ done' = done
    <3>1. work'[w] = NewWork(f) /\ \A v \in Wid : v # w => work'[v] = work[v]
      BY <2>2, <2>3 DEF TypeOK
    <3>2. jobs'[f.corr] = w /\ \A d \in Corr : d # f.corr => jobs'[d] = jobs[d]
      BY <2>1, <2>2 DEF TypeOK
    <3>3. NewWork(f).phase = "running" /\ NewWork(f).corr = f.corr
      BY DEF NewWork
    <3>4. done' = done
      BY <1>6 DEF StartJob
    <3> QED
      BY <3>1, <3>2, <3>3, <3>4
  <2>5. ASSUME NEW d \in Corr, jobs'[d] # NoWork
        PROVE  work'[jobs'[d]].phase # "free" /\ work'[jobs'[d]].corr = d
    BY <2>1, <2>3, <2>4, <2>5 DEF JobsAreTheWork, TypeOK
  <2>6. ASSUME NEW v \in Wid, work'[v].phase # "free" PROVE jobs'[work'[v].corr] = v
    <3>1. CASE v = w
      BY <2>4, <3>1
    <3>2. CASE v # w
      <4>1. work'[v] = work[v] /\ jobs[work[v].corr] = v /\ work[v].corr \in Corr
        BY <2>4, <2>6, <3>2 DEF JobsAreTheWork, Encodes, TypeOK, Work
      <4>2. v # NoWork
        BY RuntimeAssumption
      <4> QED
        BY <2>1, <2>4, <4>1, <4>2
    <3> QED
      BY <3>1, <3>2
  <2>7. ASSUME NEW v \in Wid
        PROVE  work'[v].phase = "sent" <=> \E i \in DOMAIN done' : done'[i] = v
    BY <2>3, <2>4 DEF JobsAreTheWork
  <2> QED
    BY <2>4, <2>5, <2>6, <2>7 DEF JobsAreTheWork
<1>7. ASSUME NEW w \in Wid, NEW r, r.body \in Seq(Chunks), HandlerReturn(w, r) PROVE JobsAreTheWork'
  <2>1. /\ work[w].phase = "running" /\ work'[w].phase = "sending"
        /\ work'[w].corr = work[w].corr
        /\ \A v \in Wid : v # w => work'[v] = work[v]
    BY <1>7 DEF HandlerReturn, TypeOK, Work
  <2> QED
    BY <1>7, <2>1, SameBooks DEF HandlerReturn, loopVars
<1>8. ASSUME NEW w \in Wid, HandlerSend(w) PROVE JobsAreTheWork'
  <2>1. /\ work[w].phase = "sending" /\ work'[w].phase = "sent"
        /\ work'[w].corr = work[w].corr
        /\ \A v \in Wid : v # w => work'[v] = work[v]
        /\ jobs' = jobs
    BY <1>8 DEF HandlerSend, TypeOK, Work, loopVars
  <2>2. /\ Len(done) \in Nat /\ DOMAIN done = 1 .. Len(done)
        /\ DOMAIN done' = 1 .. Len(done) + 1
        /\ done'[Len(done) + 1] = w
        /\ \A i \in DOMAIN done : done'[i] = done[i]
    BY <1>8 DEF HandlerSend, TypeOK
  <2>3. ASSUME NEW i \in DOMAIN done PROVE done[i] # w
    BY <2>1 DEF JobsAreTheWork
  <2>4. ASSUME NEW d \in Corr, jobs'[d] # NoWork
        PROVE  work'[jobs'[d]].phase # "free" /\ work'[jobs'[d]].corr = d
    BY <2>1, <2>4 DEF JobsAreTheWork, TypeOK
  <2>5. ASSUME NEW v \in Wid, work'[v].phase # "free" PROVE jobs'[work'[v].corr] = v
    BY <2>1, <2>5 DEF JobsAreTheWork
  <2>6. ASSUME NEW v \in Wid
        PROVE  work'[v].phase = "sent" <=> \E i \in DOMAIN done' : done'[i] = v
    <3>1. CASE v = w
      BY <2>1, <2>2, <3>1
    <3>2. CASE v # w
      <4>1. work'[v].phase = "sent" <=> \E i \in DOMAIN done : done[i] = v
        BY <2>1, <3>2 DEF JobsAreTheWork
      <4>2. (\E i \in DOMAIN done : done[i] = v) <=> \E i \in DOMAIN done' : done'[i] = v
        BY <2>2, <3>2
      <4> QED
        BY <4>1, <4>2
    <3> QED
      BY <3>1, <3>2
  <2>7. ASSUME NEW i \in DOMAIN done', NEW j \in DOMAIN done', done'[i] = done'[j]
        PROVE  i = j
    <3>1. CASE i \in DOMAIN done /\ j \in DOMAIN done
      BY <2>2, <2>7, <3>1 DEF JobsAreTheWork
    <3>2. CASE ~(i \in DOMAIN done /\ j \in DOMAIN done)
      BY <2>2, <2>3, <2>7, <3>2
    <3> QED
      BY <3>1, <3>2
  <2> QED
    BY <2>4, <2>5, <2>6, <2>7 DEF JobsAreTheWork
<1> QED
  BY <1>1, <1>2, <1>3, <1>4, <1>5, <1>6, <1>7, <1>8, JobSteps

\* Every reply under way and every work carries a correlation and a stage that encode.
LEMMA EncodesStep ==
  ASSUME Inv, [AnyNext]_vars
  PROVE  Encodes'
<1> USE DEF Inv
<1>1. \A w \in Wid : work'[w].phase # "free" => work'[w].stage # 0 /\ work'[w].corr # 0
  <2>1. CASE UNCHANGED <<jobs, work, done>>
    BY <2>1 DEF Encodes
  <2>2. ASSUME done # <<>>, Forget(Head(done))
        PROVE  \A w \in Wid : work'[w].phase # "free" => work'[w].stage # 0 /\ work'[w].corr # 0
    BY <2>2 DEF Forget, FreeWork, Encodes, TypeOK
  <2>3. CASE BeginShutdown
    BY <2>3 DEF BeginShutdown, Encodes, TypeOK, Work
  <2>4. ASSUME NEW f \in Frame, CancelFrame(f)
        PROVE  \A w \in Wid : work'[w].phase # "free" => work'[w].stage # 0 /\ work'[w].corr # 0
    <3>1. f.corr \in Corr
      BY <2>4, PolledType DEF CancelFrame
    <3> QED
      BY <2>4, <3>1 DEF CancelFrame, Encodes, TypeOK, Work
  <2>5. ASSUME NEW f \in Frame, StartJob(f)
        PROVE  \A w \in Wid : work'[w].phase # "free" => work'[w].stage # 0 /\ work'[w].corr # 0
    <3>1. f.corr # 0 /\ Stages[f.kind] # 0
      BY <2>5, PolledType, RuntimeAssumption
         DEF StartJob, Completes, Admitted, Valid, WellFormed
    <3>2. NewWork(f).stage # 0 /\ NewWork(f).corr # 0
      BY <3>1 DEF NewWork
    <3>3. PICK w \in FreeWids : work' = [work EXCEPT ![w] = NewWork(f)]
      BY <2>5 DEF StartJob
    <3>4. \A v \in Wid : work'[v] = work[v] \/ work'[v] = NewWork(f)
      BY <3>3 DEF TypeOK
    <3> QED
      BY <3>2, <3>4 DEF Encodes
  <2>6. ASSUME NEW v \in Wid, NEW r, r.body \in Seq(Chunks), HandlerReturn(v, r)
        PROVE  \A w \in Wid : work'[w].phase # "free" => work'[w].stage # 0 /\ work'[w].corr # 0
    <3>1. /\ work[v].phase = "running"
          /\ work'[v].stage = work[v].stage /\ work'[v].corr = work[v].corr
          /\ \A w \in Wid : w # v => work'[w] = work[w]
      BY <2>6 DEF HandlerReturn, TypeOK, Work
    <3> QED
      BY <3>1 DEF Encodes
  <2>7. ASSUME NEW v \in Wid, HandlerSend(v)
        PROVE  \A w \in Wid : work'[w].phase # "free" => work'[w].stage # 0 /\ work'[w].corr # 0
    BY <2>7 DEF HandlerSend, Encodes, TypeOK, Work
  <2> QED
    BY <2>1, <2>2, <2>3, <2>4, <2>5, <2>6, <2>7, JobSteps DEF FinishWork, AwaitJob
<1>2. pc' \in {"reply", "wait"} => reply'.stage # 0 /\ reply'.corr # 0
  <2> USE DEF loopVars, envVars
  <2>1. CASE FinishWork
    <3> DEFINE w == Head(done)
    <3>1. Forget(w) /\ BeginReply(work[w].corr, work[w].kind, work[w].stage,
                                  work[w].status, work[w].body)
      BY <2>1 DEF FinishWork
    <3>2. work[w] \in Work /\ work[w].corr \in Corr /\ work[w].stage # 0
      BY <2>1, <3>1, ForgetType DEF FinishWork
    <3>3. work[w].kind \in Kinds \cup {0} /\ work[w].stage \in Nat /\ work[w].body \in Seq(Chunks)
      BY <3>2 DEF Work
    <3> HIDE DEF w
    <3>4. reply'.corr = work[w].corr /\ reply'.stage = work[w].stage
      BY <3>1, <3>2, <3>3, BeginReplyType
    <3> QED
      BY <3>2, <3>4, RuntimeAssumption
  <2>2. ASSUME NEW f \in Frame, RejectInvalid(f) PROVE reply'.stage # 0 /\ reply'.corr # 0
    <3>1. /\ f.corr \in Corr /\ f.kind \in Kinds
          /\ AnswerStage(Stages[f.kind]) \in Nat /\ AnswerStage(Stages[f.kind]) # 0
      BY <2>2, PolledType DEF RejectInvalid, AnswerStage
    <3>2. BeginReply(f.corr, f.kind, AnswerStage(Stages[f.kind]), "InvalidRequest", <<>>)
      BY <2>2 DEF RejectInvalid
    <3>3. reply'.corr = f.corr /\ reply'.stage = AnswerStage(Stages[f.kind])
      BY <3>1, <3>2, RefusalType
    <3> QED
      BY <3>1, <3>3, RuntimeAssumption
  <2>3. ASSUME NEW f \in Frame, RefuseAssembly(f) \/ RefuseOversize(f) \/ RefuseComplete(f)
        PROVE  reply'.stage # 0 /\ reply'.corr # 0
    <3>1. Valid(f)
      BY <2>3 DEF RefuseAssembly, RefuseOversize, RefuseComplete, Completes, Admitted
    <3>2. f.corr \in Corr /\ f.kind \in Kinds /\ Stages[f.kind] \in Nat /\ Stages[f.kind] # 0
      BY <3>1, PolledType DEF Valid, WellFormed
    <3>3. PICK st : BeginReply(f.corr, f.kind, Stages[f.kind], st, <<>>)
      BY <2>3 DEF RefuseAssembly, RefuseOversize, RefuseComplete
    <3>4. reply'.corr = f.corr /\ reply'.stage = Stages[f.kind]
      BY <3>2, <3>3, RefusalType
    <3> QED
      BY <3>2, <3>4, RuntimeAssumption
  <2>4. CASE EmitFragment
    <3>1. CASE pc' = "drain"
      BY <3>1
    <3>2. CASE pc' # "drain"
      <4>1. \E b : reply' = [reply EXCEPT !.body = b]
        BY <2>4, <3>2 DEF EmitFragment
      <4>2. reply'.stage = reply.stage /\ reply'.corr = reply.corr
        BY <4>1 DEF TypeOK, Reply
      <4> QED
        BY <2>4, <4>2 DEF EmitFragment, Encodes
    <3> QED
      BY <3>1, <3>2
  <2>5. CASE EmitBlocked \/ WaitTimer
    BY <2>5 DEF EmitBlocked, WaitTimer, Stop, Encodes
  <2>6. CASE UNCHANGED <<pc, reply>>
    BY <2>6 DEF Encodes
  <2>7. CASE pc' \notin {"reply", "wait"}
    BY <2>7
  <2> QED
    BY <2>1, <2>2, <2>3, <2>4, <2>5, <2>6, <2>7
    DEF AnyNext, vars, OwnStep, Dispatched, AnyHandlerStep, Terminated, Stop, HandlerReturn,
        HandlerSend, NothingDone, BeginShutdown, AwaitJob, Drained, CheckEpoch, PollEpoch,
        PollNothing, CancelFrame, IgnoreFrame, HoldFragment, StartJob, ReplyFails,
        WaitCancelled, HostDrain, HostRestart, CtxCancel, Tick
<1> QED
  BY <1>1, <1>2 DEF Encodes

\* No step makes the loop return but those that saw ctx or the epoch.
LEMMA ExitStep ==
  ASSUME Inv, [AnyNext]_vars
  PROVE  ExitShape' /\ OnlyCtxOrEpochStops'
<1> USE DEF Inv, loopVars, envVars
<1>1. CASE UNCHANGED <<pc, exit, jobs, ctxDone, epochChanged>>
  BY <1>1 DEF ExitShape, OnlyCtxOrEpochStops, JobKeys
<1>2. CASE HostRestart \/ CtxCancel
  BY <1>2 DEF HostRestart, CtxCancel, ExitShape, OnlyCtxOrEpochStops, JobKeys, TypeOK
<1>3. CASE pc # "stopped" /\ pc' \notin {"stopped", "drainJobs"} /\ exit' = exit
  BY <1>3 DEF ExitShape, OnlyCtxOrEpochStops
<1>4. CASE Drained
  BY <1>4 DEF Drained, Stop, ExitShape, OnlyCtxOrEpochStops, JobKeys
<1>5. CASE AwaitJob \/ BeginShutdown
  BY <1>5 DEF AwaitJob, BeginShutdown, ExitShape, OnlyCtxOrEpochStops
<1>6. CASE CheckEpoch \/ PollEpoch \/ WaitCancelled \/ WaitTimer
  BY <1>6 DEF CheckEpoch, PollEpoch, WaitCancelled, WaitTimer, Stop, ExitShape, OnlyCtxOrEpochStops
<1>7. CASE ReplyFails
  BY <1>7 DEF ReplyFails, ReplyError, Encodes, Stop, ExitShape, OnlyCtxOrEpochStops
<1> QED
  BY <1>1, <1>2, <1>3, <1>4, <1>5, <1>6, <1>7
  DEF AnyNext, vars, OwnStep, Dispatched, AnyHandlerStep, Terminated, FinishWork, BeginReply,
      NothingDone, PollNothing, Polled, CancelFrame, IgnoreFrame,
      RejectInvalid, RefuseAssembly, RefuseOversize, HoldFragment, RefuseComplete, StartJob,
      Valid, Admitted, Completes, EmitFragment, EmitBlocked, HandlerReturn, HandlerSend,
      HostDrain, Tick

\* The two tables stay disjoint and bounded: a correlation enters one only when it is in
\* neither or leaves the other in the same step.
LEMMA TableStep ==
  ASSUME Inv, [AnyNext]_vars
  PROVE  AssemblingXorRunning'
<1> USE DEF Inv
<1>0. IsFiniteSet(JobKeys) /\ IsFiniteSet(AssemblyKeys)
  BY FS_Subset, RuntimeAssumption DEF JobKeys, AssemblyKeys
<1>1. ASSUME JobKeys' \subseteq JobKeys, AssemblyKeys' \subseteq AssemblyKeys
      PROVE  AssemblingXorRunning'
  <2>1. Cardinality(JobKeys') <= Cardinality(JobKeys)
        /\ Cardinality(AssemblyKeys') <= Cardinality(AssemblyKeys)
    BY <1>0, <1>1, FS_Subset
  <2>2. /\ Cardinality(JobKeys) \in Nat /\ Cardinality(AssemblyKeys) \in Nat
        /\ Cardinality(JobKeys') \in Nat /\ Cardinality(AssemblyKeys') \in Nat
    BY <1>0, <1>1, FS_Subset, FS_CardinalityType
  <2> QED
    BY <1>1, <2>1, <2>2, RuntimeAssumption DEF AssemblingXorRunning
<1>2. ASSUME NEW f \in Frame, HoldFragment(f) PROVE AssemblingXorRunning'
  <2>1. f.corr \in Corr /\ jobs[f.corr] = NoWork
    BY <1>2, PolledType DEF HoldFragment, Admitted, Valid, WellFormed
  <2>2. JobKeys' = JobKeys /\ AssemblyKeys' \subseteq AssemblyKeys \cup {f.corr}
    BY <1>2, <2>1 DEF HoldFragment, JobKeys, AssemblyKeys, TypeOK
  <2>3. CASE assemblies[f.corr] # NoAssembly
    <3>1. AssemblyKeys' \subseteq AssemblyKeys
      BY <2>1, <2>2, <2>3 DEF AssemblyKeys
    <3> QED
      BY <1>1, <2>2, <3>1
  <2>4. CASE assemblies[f.corr] = NoAssembly
    <3>1. Cardinality(AssemblyKeys) < MaxInFlight /\ f.corr \notin AssemblyKeys
      BY <1>2, <2>4 DEF HoldFragment, Admitted, AssemblyKeys
    <3>2. /\ IsFiniteSet(AssemblyKeys \cup {f.corr})
          /\ Cardinality(AssemblyKeys \cup {f.corr}) = Cardinality(AssemblyKeys) + 1
      BY <1>0, <3>1, FS_AddElement
    <3>3. Cardinality(AssemblyKeys') <= Cardinality(AssemblyKeys \cup {f.corr})
          /\ IsFiniteSet(AssemblyKeys')
      BY <2>2, <3>2, FS_Subset
    <3>4. Cardinality(AssemblyKeys) \in Nat /\ Cardinality(AssemblyKeys') \in Nat
      BY <1>0, <3>3, FS_CardinalityType
    <3>5. Cardinality(AssemblyKeys') <= MaxInFlight
      BY <3>1, <3>2, <3>3, <3>4, RuntimeAssumption
    <3>6. f.corr \notin JobKeys
      BY <2>1 DEF JobKeys
    <3> QED
      BY <2>2, <3>5, <3>6 DEF AssemblingXorRunning
  <2> QED
    BY <2>3, <2>4
<1>3. ASSUME NEW f \in Frame, StartJob(f) PROVE AssemblingXorRunning'
  <2>1. f.corr \in Corr
    BY <1>3, PolledType DEF StartJob, Completes, Admitted, Valid
  <2>2. Cardinality(JobKeys) < MaxInFlight
    <3>1. ~(Cardinality(JobKeys) >= MaxInFlight)
      BY <1>3 DEF StartJob, Admission
    <3>2. Cardinality(JobKeys) \in Nat
      BY <1>0, FS_CardinalityType
    <3> QED
      BY <3>1, <3>2, RuntimeAssumption
  <2>3. /\ JobKeys' \subseteq JobKeys \cup {f.corr}
        /\ AssemblyKeys' \subseteq AssemblyKeys \ {f.corr}
    <3>1. \A d \in Corr : d # f.corr => jobs'[d] = jobs[d]
      BY <1>3 DEF StartJob, TypeOK
    <3>2. assemblies' = [assemblies EXCEPT ![f.corr] = NoAssembly]
      BY <1>3 DEF StartJob
    <3> QED
      BY <2>1, <3>1, <3>2 DEF JobKeys, AssemblyKeys, TypeOK
  <2>4. /\ IsFiniteSet(JobKeys \cup {f.corr})
        /\ Cardinality(JobKeys \cup {f.corr}) <= Cardinality(JobKeys) + 1
    <3>1. Cardinality(JobKeys) \in Nat
      BY <1>0, FS_CardinalityType
    <3> QED
      BY <1>0, <3>1, FS_AddElement
  <2>5. IsFiniteSet(JobKeys') /\ Cardinality(JobKeys') <= Cardinality(JobKeys \cup {f.corr})
    BY <2>3, <2>4, FS_Subset
  <2>6. /\ IsFiniteSet(AssemblyKeys')
        /\ Cardinality(AssemblyKeys') <= Cardinality(AssemblyKeys)
    BY <1>0, <2>3, FS_Subset
  <2>7. /\ Cardinality(JobKeys) \in Nat /\ Cardinality(JobKeys') \in Nat
        /\ Cardinality(JobKeys \cup {f.corr}) \in Nat
        /\ Cardinality(AssemblyKeys) \in Nat /\ Cardinality(AssemblyKeys') \in Nat
    BY <1>0, <2>4, <2>5, <2>6, FS_CardinalityType
  <2>8. Cardinality(JobKeys') <= MaxInFlight /\ Cardinality(AssemblyKeys') <= MaxInFlight
    BY <2>2, <2>4, <2>5, <2>6, <2>7, RuntimeAssumption DEF AssemblingXorRunning
  <2>9. AssemblyKeys' \cap JobKeys' = {}
    BY <2>3 DEF AssemblingXorRunning
  <2> QED
    BY <2>8, <2>9 DEF AssemblingXorRunning
<1>4. ASSUME NEW f \in Frame,
             CancelFrame(f) \/ RejectInvalid(f) \/ RefuseOversize(f) \/ RefuseComplete(f)
      PROVE  AssemblingXorRunning'
  <2>1. jobs' = jobs /\ assemblies' = [assemblies EXCEPT ![f.corr] = NoAssembly]
    BY <1>4 DEF CancelFrame, RejectInvalid, RefuseOversize, RefuseComplete
  <2>2. JobKeys' \subseteq JobKeys /\ AssemblyKeys' \subseteq AssemblyKeys
    BY <2>1 DEF JobKeys, AssemblyKeys, TypeOK
  <2> QED
    BY <1>1, <2>2
<1>5. ASSUME done # <<>>, Forget(Head(done)), UNCHANGED assemblies PROVE AssemblingXorRunning'
  <2>1. JobKeys' \subseteq JobKeys /\ AssemblyKeys' \subseteq AssemblyKeys
    BY <1>5 DEF Forget, JobKeys, AssemblyKeys, TypeOK
  <2> QED
    BY <1>1, <2>1
<1>6. CASE UNCHANGED <<jobs, assemblies>>
  BY <1>6 DEF AssemblingXorRunning, JobKeys, AssemblyKeys
<1> QED
  BY <1>2, <1>3, <1>4, <1>5, <1>6
  DEF AnyNext, vars, loopVars, envVars, OwnStep, Dispatched, AnyHandlerStep, Terminated, FinishWork,
      NothingDone, BeginShutdown, AwaitJob, Drained, CheckEpoch, PollEpoch, PollNothing,
      IgnoreFrame, RefuseAssembly, ReplyFails, EmitFragment, EmitBlocked, WaitCancelled,
      WaitTimer, HandlerReturn, HandlerSend, HostDrain, HostRestart, CtxCancel, Tick

\* The strengthened invariant holds initially.
LEMMA InvInit == Init => Inv
<1> SUFFICES ASSUME Init PROVE Inv
  OBVIOUS
<1>1. FreeWork \in Work /\ IdleReply \in Reply
  BY DEF FreeWork, IdleReply, Work, Reply, Phase, Status
<1>2. TypeOK
  <2>1. /\ assemblies \in [Corr -> Assembly \cup {NoAssembly}]
        /\ jobs \in [Corr -> Wid \cup {NoWork}]
        /\ work \in [Wid -> Work]
    BY <1>1 DEF Init
  <2>2. done \in Seq(Wid) /\ outbound \in Seq(OutFrame) /\ reply \in Reply
    BY <1>1 DEF Init
  <2> QED
    BY <2>1, <2>2 DEF Init, TypeOK
<1>3. JobKeys = {} /\ AssemblyKeys = {}
  BY DEF Init, JobKeys, AssemblyKeys
<1>4. AssemblingXorRunning
  BY <1>3, FS_EmptySet, RuntimeAssumption DEF AssemblingXorRunning
<1>5. \A w \in Wid : work[w].phase = "free"
  BY DEF Init, FreeWork
<1>6. JobsAreTheWork
  BY <1>5 DEF Init, JobsAreTheWork
<1> QED
  BY <1>2, <1>3, <1>4, <1>5, <1>6 DEF Init, Inv, Encodes, ExitShape, OnlyCtxOrEpochStops

\* The strengthened invariant is inductive.
LEMMA InvStep == Inv /\ [AnyNext]_vars => Inv'
  BY TypeStep, JobsStep, EncodesStep, ExitStep, TableStep DEF Inv

\* Inv is an invariant of the runtime.
THEOREM Invariance == Spec => []Inv
  BY InvInit, InvStep, NextIsAny, PTL DEF Spec

\* Every variable of runModuleClient keeps its type.
THEOREM TypeCorrect == Spec => []TypeOK
<1>1. Inv => TypeOK
  BY DEF Inv
<1> QED
  BY <1>1, Invariance, PTL

\* The job table and the moduleWork objects in use always match, one to one, and the channel
\* holds each finished one once (jobs, work and done of runModuleClient and runHandler).
THEOREM JobsMatchWork == Spec => []JobsAreTheWork
<1>1. Inv => JobsAreTheWork
  BY DEF Inv
<1> QED
  BY <1>1, Invariance, PTL

\* The two tables of runModuleClient stay disjoint and within moduleMaxInFlight.
THEOREM TablesBounded == Spec => []AssemblingXorRunning
<1>1. Inv => AssemblingXorRunning
  BY DEF Inv
<1> QED
  BY <1>1, Invariance, PTL

\* Whatever frames arrive, runModuleClient returns only for ctx or for the epoch.
THEOREM NoFrameStopsTheRuntime == Spec => []OnlyCtxOrEpochStops
<1>1. Inv => OnlyCtxOrEpochStops
  BY DEF Inv
<1> QED
  BY <1>1, Invariance, PTL

\* A handler goroutine is never blocked on `done': the finished works and the one about to
\* send have different correlations, all of them keys of the job table.
THEOREM NoGoroutineBlocks == Spec => []DoneHasRoom
<1>1. Inv => DoneHasRoom
  <2> SUFFICES ASSUME Inv, NEW w \in Wid, work[w].phase = "sending" PROVE Len(done) < DoneCap
    BY DEF DoneHasRoom
  <2> USE DEF Inv
  <2> DEFINE n == Len(done)
             owner == [i \in 1 .. n + 1 |-> IF i = n + 1 THEN w ELSE done[i]]
             key == [i \in 1 .. n + 1 |-> work[owner[i]].corr]
  <2>1. n \in Nat /\ DOMAIN done = 1 .. n /\ \A i \in 1 .. n : done[i] \in Wid
    BY DEF TypeOK
  <2>2. \A i \in 1 .. n + 1 : owner[i] \in Wid /\ work[owner[i]].phase # "free"
    BY <2>1 DEF JobsAreTheWork
  <2>3. \A i \in 1 .. n : owner[i] # w
    BY <2>1 DEF JobsAreTheWork
  <2>4. \A i, j \in 1 .. n + 1 : owner[i] = owner[j] => i = j
    BY <2>1, <2>3 DEF JobsAreTheWork
  <2>5. \A i \in 1 .. n + 1 : key[i] \in Corr /\ jobs[key[i]] = owner[i] /\ owner[i] # NoWork
    <3> TAKE i \in 1 .. n + 1
    <3> HIDE DEF owner
    <3>1. work[owner[i]] \in Work /\ work[owner[i]].corr # 0
      BY <2>2 DEF TypeOK, Encodes
    <3>2. key[i] = work[owner[i]].corr
      OBVIOUS
    <3> QED
      BY <2>2, <3>1, <3>2, RuntimeAssumption DEF Work, JobsAreTheWork
  <2> HIDE DEF owner
  <2>6. key \in [1 .. n + 1 -> JobKeys]
    BY <2>5 DEF JobKeys
  <2>7. \A i, j \in 1 .. n + 1 : key[i] = key[j] => i = j
    BY <2>4, <2>5
  <2> HIDE DEF key, n
  <2>8. IsFiniteSet(JobKeys)
    BY FS_Subset, RuntimeAssumption DEF JobKeys
  <2>9. IsFiniteSet(1 .. n + 1) /\ Cardinality(1 .. n + 1) = n + 1
    BY <2>1, FS_Interval
  <2>10. Cardinality(1 .. n + 1) <= Cardinality(JobKeys)
    <3>1. key \in Injection(1 .. n + 1, JobKeys)
      BY <2>6, <2>7 DEF Injection, IsInjective
    <3> QED
      BY <2>8, <3>1, FS_Injection
  <2>11. Cardinality(JobKeys) \in Nat
    BY <2>8, FS_CardinalityType
  <2> QED
    BY <2>1, <2>9, <2>10, <2>11, RuntimeAssumption DEF AssemblingXorRunning, DoneCap, n
<1> QED
  BY <1>1, Invariance, PTL

\* When the ctx path of runModuleClient returns, no handler goroutine runs any more.
THEOREM ShutdownWaitsForAll == Spec => []DrainLeavesNoHandler
<1>1. Inv => DrainLeavesNoHandler
  <2> SUFFICES ASSUME Inv, exit = "drained" PROVE FreeWids = Wid
    BY DEF DrainLeavesNoHandler
  <2>1. \A c \in Corr : jobs[c] = NoWork
    BY DEF Inv, ExitShape, JobKeys
  <2>2. ASSUME NEW w \in Wid PROVE work[w].phase = "free"
    <3> SUFFICES ASSUME work[w].phase # "free" PROVE FALSE
      OBVIOUS
    <3>1. work[w].corr \in Corr /\ jobs[work[w].corr] = w
      BY DEF Inv, TypeOK, Work, Encodes, JobsAreTheWork
    <3> QED
      BY <2>1, <3>1, RuntimeAssumption
  <2> QED
    BY <2>2 DEF FreeWids
<1> QED
  BY <1>1, Invariance, PTL


(***************************************************************************)
(* The order of the reply fragments.                                       *)
(***************************************************************************)
\* Only these steps write to the outbound ring, take from it, or leave the middle of a reply.
LEMMA RingSteps ==
  ASSUME [AnyNext]_vars
  PROVE  \/ EmitFragment \/ HostDrain
         \/ outbound' = outbound /\ pc \notin {"reply", "wait"} /\ (exit' = "none" => exit = "none")
         \/ outbound' = outbound /\ reply' = reply /\ exit' = exit
            /\ (pc' \in {"reply", "wait"} \/ pc' = pc)
         \/ outbound' = outbound /\ exit' # "none"
<1> USE DEF loopVars, envVars
<1>1. CASE FinishWork \/ NothingDone \/ BeginShutdown \/ AwaitJob \/ Drained \/ CheckEpoch \/ PollEpoch
           \/ PollNothing
  BY <1>1 DEF FinishWork, BeginReply, NothingDone, BeginShutdown, AwaitJob, Drained, CheckEpoch,
              PollEpoch, PollNothing, Stop
<1>2. ASSUME NEW f \in Frame, Dispatched(f)
      PROVE  outbound' = outbound /\ pc \notin {"reply", "wait"} /\ exit' = exit
  BY <1>2 DEF Dispatched, CancelFrame, IgnoreFrame, RejectInvalid, RefuseAssembly, RefuseOversize,
              HoldFragment, RefuseComplete, StartJob, Valid, Admitted, Completes, Polled, BeginReply
<1>3. CASE ReplyFails \/ WaitCancelled
  BY <1>3 DEF ReplyFails, ReplyError, WaitCancelled, Stop
<1>4. CASE EmitBlocked \/ WaitTimer
  BY <1>4 DEF EmitBlocked, WaitTimer, Stop
<1>5. ASSUME NEW w \in Wid, AnyHandlerStep(w)
      PROVE  outbound' = outbound /\ pc' = pc /\ reply' = reply /\ exit' = exit
  BY <1>5 DEF AnyHandlerStep, HandlerReturn, HandlerSend
<1>6. CASE HostRestart \/ CtxCancel \/ Tick \/ Terminated \/ UNCHANGED vars
  BY <1>6 DEF HostRestart, CtxCancel, Tick, Terminated, vars
<1> QED
  BY <1>1, <1>2, <1>3, <1>4, <1>5, <1>6 DEF AnyNext, OwnStep

\* The fragments of a reply stay next to each other: while one is missing the loop is in
\* replyModuleResult, with the rest of the same reply.
LEMMA ContiguousStep ==
  ASSUME Inv, FragmentsContiguous, [AnyNext]_vars
  PROVE  FragmentsContiguous'
<1>0. outbound \in Seq(OutFrame) /\ Len(outbound) \in Nat
  BY DEF Inv, TypeOK
<1>1. CASE EmitFragment
  <2>1. exit = "none" /\ exit' = exit
    BY <1>1 DEF EmitFragment, Inv, ExitShape, TypeOK
  <2>2. PICK frame, more : /\ outbound' = Append(outbound, frame)
                           /\ frame.corr = reply.corr /\ frame.more = more
                           /\ more => pc' = "reply" /\ reply'.corr = reply.corr
    <3> DEFINE part == Smaller(Len(reply.body), ChunkCapacity)
               more == part < Len(reply.body)
               frame == [corr |-> reply.corr, kind |-> reply.kind, stage |-> reply.stage,
                         status |-> reply.status, body |-> SubSeq(reply.body, 1, part), more |-> more]
               rest == SubSeq(reply.body, part + 1, Len(reply.body))
    <3>1. /\ outbound' = Append(outbound, frame)
          /\ reply' = IF more THEN [reply EXCEPT !.body = rest] ELSE IdleReply
          /\ pc' = IF more THEN "reply" ELSE "drain"
      BY <1>1 DEF EmitFragment
    <3>2. frame.corr = reply.corr /\ frame.more = more
      OBVIOUS
    <3>3. more => pc' = "reply" /\ reply'.corr = reply.corr
      <4> HIDE DEF more, rest
      <4> QED
        BY <3>1 DEF Inv, TypeOK, Reply
    <3> HIDE DEF frame, more
    <3> QED
      BY <3>1, <3>2, <3>3
  <2> DEFINE n == Len(outbound)
  <2>3. /\ Len(outbound') = n + 1 /\ outbound'[n + 1] = frame /\ n \in Nat
        /\ \A i \in 1 .. n : outbound'[i] = outbound[i]
    BY <1>0, <2>2
  <2> HIDE DEF n
  <2>4. ASSUME n > 0, outbound[n].more PROVE reply.corr = outbound[n].corr
    <3>1. outbound # <<>> /\ n = Len(outbound)
      BY <1>0, <2>4 DEF n
    <3> QED
      BY <2>1, <2>4, <3>1 DEF FragmentsContiguous
  <2>5. ASSUME NEW i \in 1 .. Len(outbound') - 1, outbound'[i].more
        PROVE  outbound'[i + 1].corr = outbound'[i].corr
    <3>1. i \in 1 .. n
      BY <2>3
    <3>2. CASE i = n
      BY <2>2, <2>3, <2>4, <2>5, <3>1, <3>2
    <3>3. CASE i # n
      <4>1. i \in 1 .. Len(outbound) - 1 /\ i + 1 \in 1 .. n
        BY <2>3, <3>1, <3>3 DEF n
      <4>2. outbound[i].more => outbound[i + 1].corr = outbound[i].corr
        BY <4>1 DEF FragmentsContiguous
      <4> QED
        BY <2>3, <2>5, <3>1, <4>1, <4>2
    <3> QED
      BY <3>2, <3>3
  <2>6. outbound'[Len(outbound')].more
          => pc' \in {"reply", "wait"} /\ reply'.corr = outbound'[Len(outbound')].corr
    BY <2>2, <2>3
  <2> QED
    BY <2>5, <2>6 DEF FragmentsContiguous
<1>2. CASE HostDrain
  <2>1. outbound' = Tail(outbound) /\ outbound # <<>> /\ UNCHANGED <<pc, reply, exit>>
    BY <1>2 DEF HostDrain, loopVars
  <2>2. /\ Len(outbound') = Len(outbound) - 1 /\ Len(outbound) > 0
        /\ \A i \in 1 .. Len(outbound) - 1 : outbound'[i] = outbound[i + 1]
    BY <1>0, <2>1
  <2>3. ASSUME NEW i \in 1 .. Len(outbound') - 1, outbound'[i].more
        PROVE  outbound'[i + 1].corr = outbound'[i].corr
    <3>1. /\ i \in 1 .. Len(outbound) - 1 /\ i + 1 \in 1 .. Len(outbound) - 1
      BY <1>0, <2>2
    <3>2. outbound'[i] = outbound[i + 1] /\ outbound'[i + 1] = outbound[i + 1 + 1]
      BY <2>2, <3>1
    <3>3. outbound[i + 1].more => outbound[i + 1 + 1].corr = outbound[i + 1].corr
      BY <3>1 DEF FragmentsContiguous
    <3> QED
      BY <2>3, <3>2, <3>3
  <2>4. outbound' # <<>> => outbound'[Len(outbound')] = outbound[Len(outbound)]
    <3>1. CASE Len(outbound) = 1
      BY <1>0, <2>1, <3>1
    <3>2. CASE Len(outbound) # 1
      <4>1. Len(outbound) - 1 \in 1 .. Len(outbound) - 1 /\ Len(outbound) - 1 + 1 = Len(outbound)
        BY <1>0, <2>2, <3>2
      <4> QED
        BY <2>2, <4>1
    <3> QED
      BY <3>1, <3>2
  <2> QED
    BY <2>1, <2>3, <2>4 DEF FragmentsContiguous
<1>3. CASE outbound' = outbound /\ pc \notin {"reply", "wait"} /\ (exit' = "none" => exit = "none")
  BY <1>3 DEF FragmentsContiguous
<1>4. CASE outbound' = outbound /\ reply' = reply /\ exit' = exit
           /\ (pc' \in {"reply", "wait"} \/ pc' = pc)
  BY <1>4 DEF FragmentsContiguous
<1>5. CASE outbound' = outbound /\ exit' # "none"
  BY <1>5 DEF FragmentsContiguous
<1> QED
  BY <1>1, <1>2, <1>3, <1>4, <1>5, RingSteps

\* The fragments of a reply leave the runtime next to each other, also when the ring fills up
\* in the middle of it and handlers finish meanwhile.
THEOREM RepliesAreContiguous == Spec => []FragmentsContiguous
<1>1. Init => Inv /\ FragmentsContiguous
  <2>1. Init => FragmentsContiguous
    BY DEF Init, FragmentsContiguous
  <2> QED
    BY <2>1, InvInit
<1>2. Inv /\ FragmentsContiguous /\ [AnyNext]_vars => (Inv /\ FragmentsContiguous)'
  BY InvStep, ContiguousStep
<1> QED
  BY <1>1, <1>2, NextIsAny, PTL DEF Spec

=============================================================================

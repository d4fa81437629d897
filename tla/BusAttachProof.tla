--------------------------- MODULE BusAttachProof ---------------------------
(***************************************************************************)
(* Proofs about BusAttach for every host layout, every configuration and   *)
(* every interval, delay and stale window with Interval + Delay <= Stale.  *)
(* The inductive invariant is Inv.                                         *)
(***************************************************************************)
EXTENDS BusAttach, TLAPS

\* NothingHeld at every label: what is mapped follows from how far AttachAs has got.
MappedByPc ==
  /\ pc \in {"start", "socket", "connect", "wait", "send", "recv", "returned", "detached"}
       => mapped = {}
  /\ pc = "map" => mapped \in {{}, {"control"}, {"control", "arena"}}
  /\ pc \in {"check", "attached", "leave"} => mapped = Region

\* The goroutine of keepAlive exists only for a caller whose attach succeeded, and ends
\* only with ctx.
KeepAliveOwner ==
  /\ keep # "off" => kind = "caller" /\ pc \in {"attached", "detached"}
  /\ pc = "attached" /\ kind = "caller" => keep # "off"
  /\ keep = "ended" => ctxDone
  /\ pc = "leave" => kind = "module"

\* How old the heartbeat may be.  since counts from the last due tick, so a heartbeat under
\* way is at most an interval and a delay old.
HeartbeatAge ==
  /\ pc \notin {"attached", "detached", "leave", "returned"} => since = 0 /\ age = 0
  /\ pc = "attached" /\ kind = "module" => age <= Delay
  /\ pc = "attached" /\ keep = "select" => age <= since
  /\ pc = "attached" /\ keep = "beat" => age <= since + Interval
  /\ keep = "beat" => since <= Delay

\* A client is admitted before it maps anything, and keeps its slot while ctx lasts.
SlotHeld ==
  /\ pc \in {"map", "check"} => admitted
  /\ ReapedOnlyAfterCtx

\* What the region checks said of the host.
Checked ==
  /\ pc = "attached" => AttachControl(host) /\ AttachQueuePair(host)
  /\ err = "region" => ~(AttachControl(host) /\ AttachQueuePair(host))

Inv ==
  /\ TypeOK
  /\ NothingHeld
  /\ MappedByPc
  /\ KeepAliveOwner
  /\ HeartbeatAge
  /\ SlotHeld
  /\ Checked
  /\ OnlyKeepAliveOutlives

\* The starting state has nothing open, mapped or running.
LEMMA InitInv == Init => Inv
<1> SUFFICES ASSUME Init PROVE Inv
  OBVIOUS
<1>a. 0 \in 0..(Interval + Delay) /\ 0 \in 0..(Stale + 1)
  BY TimingAssumption
<1>1. TypeOK
  <2>1. /\ kind \in {"module", "caller"} /\ config \in Configs /\ host \in Hosts
        /\ listener \in {"missing", "stale", "listening"} /\ pc \in Labels /\ err \in Errors
    BY DEF Init, Labels, Errors
  <2>2. epoch \in BOOLEAN /\ ctxDone \in BOOLEAN /\ sock \in BOOLEAN /\ admitted \in BOOLEAN
    BY DEF Init
  <2>3. /\ fds \in SUBSET Region /\ mapped \in SUBSET Region
        /\ bad \in SUBSET {"loop", "caller", "keepAlive"}
        /\ keep \in {"off", "select", "beat", "ended"}
    BY DEF Init
  <2>4. since \in 0..(Interval + Delay) /\ age \in 0..(Stale + 1)
    BY <1>a DEF Init
  <2> QED
    BY <2>1, <2>2, <2>3, <2>4 DEF TypeOK
<1>2. NothingHeld /\ MappedByPc /\ KeepAliveOwner /\ HeartbeatAge
  BY DEF Init, NothingHeld, MappedByPc, KeepAliveOwner, HeartbeatAge
<1>3. SlotHeld /\ Checked /\ OnlyKeepAliveOutlives
  BY DEF Init, SlotHeld, ReapedOnlyAfterCtx, Checked, OnlyKeepAliveOutlives
<1> QED
  BY <1>1, <1>2, <1>3 DEF Inv

\* What the end of AttachAs does: the socket is closed, and the call is attached, with the
\* goroutine of keepAlive for a caller, or has returned without one.
LEMMA AttachEnds ==
  ASSUME NEW e \in Errors, AttachReturns(e)
  PROVE  /\ sock' = FALSE /\ since' = since /\ age' = age /\ bad' = bad
         /\ e = "nil" => /\ pc' = "attached" /\ err' = err
                         /\ keep' = IF kind = "caller" THEN "select" ELSE "off"
         /\ e # "nil" => pc' = "returned" /\ err' \in {e, "nil"} /\ keep' = "off"
  BY DEF AttachReturns, StartsKeepAlive, Return, Returned

\* Every step keeps the types.
LEMMA TypeStep ==
  ASSUME Inv, [Next]_vars
  PROVE  TypeOK'
<1>0. TypeOK
  BY DEF Inv
<1> USE <1>0 DEF TypeOK, envVars, heldVars, timeVars
<1>1. CASE Validate
  BY <1>1 DEF Validate, Return, Labels, Errors
<1>2. CASE Socket
  <2>1. pc' \in Labels /\ err' \in Errors
    BY <1>2 DEF Socket, Return, Returned, Labels, Errors
  <2>2. sock' \in BOOLEAN
    BY <1>2 DEF Socket
  <2> QED
    BY <1>2, <2>1, <2>2 DEF Socket
<1>3. CASE Connect
  BY <1>3 DEF Connect, Labels
<1>4. CASE Refused
  BY <1>4 DEF Refused, Return, Returned, Labels, Errors
<1>5. CASE ConnectFails
  BY <1>5 DEF ConnectFails, Return, Returned, Labels, Errors
<1>6. CASE Wait
  BY <1>6 DEF Wait, Return, Returned, Labels, Errors
<1>7. CASE Send
  <2>1. CASE AttachReturns("os") /\ UNCHANGED admitted
    BY <1>7, <2>1, AttachEnds DEF Send, Labels, Errors
  <2>2. CASE pc' = "recv" /\ UNCHANGED <<sock, err, timeVars>>
    BY <1>7, <2>2 DEF Send, Labels
  <2> QED
    BY <1>7, <2>1, <2>2 DEF Send
<1>8. CASE Map
  BY <1>8 DEF Map, NextRegion, Region, Labels
<1>9. CASE MapFails
  BY <1>9, AttachEnds DEF MapFails, Labels, Errors
<1>10. CASE CheckRegions
  BY <1>10, AttachEnds DEF CheckRegions, Detach, Labels, Errors
<1>11. CASE LoopPass
  <2>1. 0 \in 0..(Stale + 1)
    BY TimingAssumption
  <2>2. bad' \in SUBSET {"loop", "caller", "keepAlive"}
    BY <1>11 DEF LoopPass, Touch
  <2>3. pc' \in Labels
    BY <1>11 DEF LoopPass, Labels
  <2>4. age' = age \/ age' = 0
    BY <1>11 DEF LoopPass
  <2>5. age' \in 0..(Stale + 1)
    BY <2>1, <2>4
  <2> QED
    BY <1>11, <2>2, <2>3, <2>5 DEF LoopPass
<1>12. CASE Leave
  BY <1>12 DEF Leave, Return, Detach, Labels, Errors
<1>13. CASE ReplyRefused
  BY <1>13, AttachEnds DEF ReplyRefused, Labels, Errors
<1>14. ASSUME NEW got \in SUBSET Region, ReplyOK(got) PROVE TypeOK'
  <2>1. CASE got = Region
    <3>1. 0 \in 0..(Stale + 1)
      BY TimingAssumption
    <3>2. age' \in 0..(Stale + 1) /\ fds' \in SUBSET Region /\ pc' \in Labels
      BY <1>14, <2>1, <3>1 DEF ReplyOK, Labels
    <3>3. admitted' \in BOOLEAN
      BY <1>14, <2>1 DEF ReplyOK
    <3> QED
      BY <1>14, <2>1, <3>2, <3>3 DEF ReplyOK
  <2>2. CASE got # Region
    BY <1>14, <2>2, AttachEnds DEF ReplyOK, Labels, Errors
  <2> QED
    BY <2>1, <2>2
<1>15. CASE Use
  BY <1>15 DEF Use, Touch
<1>16. CASE CallerDetach
  BY <1>16 DEF CallerDetach, Detach, Labels
<1>17. CASE Tick
  BY <1>17, TimingAssumption DEF Tick
<1>18. CASE Beat
  BY <1>18, TimingAssumption DEF Beat, Touch
<1>19. CASE KeepAliveEnds
  BY <1>19 DEF KeepAliveEnds
<1>20. CASE ListenerChanges
  BY <1>20 DEF ListenerChanges
<1>21. CASE HostRestarts
  BY <1>21 DEF HostRestarts
<1>22. CASE CtxEnds
  BY <1>22 DEF CtxEnds
<1>23. CASE TimePasses
  BY <1>23, TimingAssumption DEF TimePasses
<1>24. CASE Reap
  BY <1>24 DEF Reap
<1>25. CASE UNCHANGED vars
  BY <1>25 DEF vars
<1> QED
  BY <1>1, <1>2, <1>3, <1>4, <1>5, <1>6, <1>7, <1>8, <1>9, <1>10, <1>11, <1>12, <1>13, <1>14,
     <1>15, <1>16, <1>17, <1>18, <1>19, <1>20, <1>21, <1>22, <1>23, <1>24, <1>25
     DEF Next, Process, Answer

\* What is open and mapped follows the label through every exit of AttachAs and Detach.
LEMMA HeldStep ==
  ASSUME Inv, [Next]_vars
  PROVE  NothingHeld' /\ MappedByPc'
<1>0. NothingHeld /\ MappedByPc /\ sock \in BOOLEAN
  BY DEF Inv, TypeOK
<1> USE <1>0 DEF NothingHeld, MappedByPc
<1>1. CASE Validate
  BY <1>1 DEF Validate, Return, heldVars
<1>2. CASE Socket
  BY <1>2 DEF Socket, Return
<1>3. CASE Connect
  BY <1>3 DEF Connect, heldVars
<1>4. CASE Refused
  BY <1>4 DEF Refused, Return
<1>5. CASE ConnectFails
  BY <1>5 DEF ConnectFails, Return
<1>6. CASE Wait
  BY <1>6 DEF Wait, Return, heldVars
<1>7. CASE Send
  BY <1>7, AttachEnds DEF Send, Errors
<1>8. CASE Map
  <2>1. /\ mapped = {} => NextRegion = "control"
        /\ mapped = {"control"} => NextRegion = "arena"
        /\ mapped = {"control", "arena"} => NextRegion = "qp"
    BY DEF NextRegion
  <2>2. mapped' \in {{"control"}, {"control", "arena"}, Region}
    BY <1>8, <2>1 DEF Map, Region
  <2> QED
    BY <1>8, <2>2 DEF Map
<1>9. CASE MapFails
  <2>1. mapped' = {}
    <3>1. CASE mapped = {}
      BY <1>9, <3>1 DEF MapFails
    <3>2. CASE mapped = {"control"}
      BY <1>9, <3>2 DEF MapFails, NextRegion, Unmaps
    <3>3. CASE mapped = {"control", "arena"}
      BY <1>9, <3>3 DEF MapFails, NextRegion, Unmaps
    <3> QED
      BY <1>9, <3>1, <3>2, <3>3 DEF MapFails
  <2> QED
    BY <1>9, <2>1, AttachEnds DEF MapFails, Errors
<1>10. CASE CheckRegions
  BY <1>10, AttachEnds DEF CheckRegions, Detach, Errors
<1>11. CASE LoopPass
  BY <1>11 DEF LoopPass, heldVars
<1>12. CASE Leave
  BY <1>12 DEF Leave, Return, Detach
<1>13. CASE ReplyRefused
  BY <1>13, AttachEnds DEF ReplyRefused, Errors
<1>14. ASSUME NEW got \in SUBSET Region, ReplyOK(got) PROVE NothingHeld' /\ MappedByPc'
  BY <1>14, AttachEnds DEF ReplyOK, Errors
<1>15. CASE CallerDetach
  BY <1>15 DEF CallerDetach, Detach
<1>16. CASE UNCHANGED <<pc, sock, fds, mapped>>
  BY <1>16
<1>17. Use \/ Tick \/ Beat \/ KeepAliveEnds \/ ListenerChanges \/ HostRestarts \/ CtxEnds
       \/ TimePasses \/ Reap \/ UNCHANGED vars => UNCHANGED <<pc, sock, fds, mapped>>
  BY DEF Use, Tick, Beat, KeepAliveEnds, ListenerChanges, HostRestarts, CtxEnds, TimePasses,
         Reap, vars, heldVars
<1> QED
  BY <1>1, <1>2, <1>3, <1>4, <1>5, <1>6, <1>7, <1>8, <1>9, <1>10, <1>11, <1>12, <1>13, <1>14,
     <1>15, <1>16, <1>17 DEF Next, Process, Answer

\* keepAlive runs for an attached or detached caller only, and while ctx lasts it runs.
LEMMA OwnerStep ==
  ASSUME Inv, [Next]_vars
  PROVE  KeepAliveOwner'
<1>0. KeepAliveOwner /\ TypeOK
  BY DEF Inv
<1> USE <1>0 DEF KeepAliveOwner, envVars, timeVars
<1>1. CASE Send
  BY <1>1, AttachEnds DEF Send, Errors
<1>2. CASE MapFails
  BY <1>2, AttachEnds DEF MapFails, Errors
<1>3. CASE CheckRegions
  BY <1>3, AttachEnds DEF CheckRegions, Errors, TypeOK
<1>4. CASE ReplyRefused
  BY <1>4, AttachEnds DEF ReplyRefused, Errors
<1>5. ASSUME NEW got \in SUBSET Region, ReplyOK(got) PROVE KeepAliveOwner'
  BY <1>5, AttachEnds DEF ReplyOK, Errors
<1>6. CASE Validate \/ Socket \/ Connect \/ Refused \/ ConnectFails \/ Wait \/ Map
  BY <1>6 DEF Validate, Socket, Connect, Refused, ConnectFails, Wait, Map, Return
<1>7. CASE LoopPass
  BY <1>7 DEF LoopPass
<1>8. CASE Leave
  BY <1>8 DEF Leave, Return
<1>9. CASE CallerDetach
  BY <1>9 DEF CallerDetach
<1>10. CASE Tick \/ Beat \/ KeepAliveEnds
  BY <1>10 DEF Tick, Beat, KeepAliveEnds
<1>11. CASE CtxEnds
  BY <1>11 DEF CtxEnds
<1>12. CASE UNCHANGED <<pc, kind, keep, ctxDone>>
  BY <1>12
<1>13. Use \/ ListenerChanges \/ HostRestarts \/ TimePasses \/ Reap \/ UNCHANGED vars
         => UNCHANGED <<pc, kind, keep, ctxDone>>
  BY DEF Use, ListenerChanges, HostRestarts, TimePasses, Reap, vars
<1> QED
  BY <1>1, <1>2, <1>3, <1>4, <1>5, <1>6, <1>7, <1>8, <1>9, <1>10, <1>11, <1>12, <1>13
     DEF Next, Process, Answer

\* While its client is attached, a heartbeat is at most an interval and a delay old: the
\* passes of a module's loop and the ticks of keepAlive come in time.
LEMMA AgeStep ==
  ASSUME Inv, [Next]_vars
  PROVE  HeartbeatAge'
<1>0. HeartbeatAge /\ KeepAliveOwner /\ TypeOK /\ MappedByPc
  BY DEF Inv
<1>a. Interval \in Nat /\ Delay \in Nat /\ Stale \in Nat /\ Interval + Delay <= Stale
  BY TimingAssumption
<1>b. since \in Nat /\ age \in Nat /\ since <= Interval + Delay
  BY <1>0, <1>a DEF TypeOK
<1>1. CASE Send
  BY <1>0, <1>1, AttachEnds DEF Send, Errors, HeartbeatAge, timeVars
<1>2. CASE MapFails
  BY <1>0, <1>2, AttachEnds DEF MapFails, Errors, HeartbeatAge
<1>3. CASE CheckRegions
  <2>1. since = 0 /\ age = 0
    BY <1>0, <1>3 DEF CheckRegions, HeartbeatAge
  <2>2. since' = 0 /\ age' = 0 /\ pc' \in {"attached", "returned"} /\ keep' \in {"select", "off"}
    BY <1>3, <2>1, AttachEnds DEF CheckRegions, Errors
  <2> QED
    BY <1>a, <2>2 DEF HeartbeatAge
<1>4. CASE ReplyRefused
  BY <1>0, <1>4, AttachEnds DEF ReplyRefused, Errors, HeartbeatAge
<1>5. ASSUME NEW got \in SUBSET Region, ReplyOK(got) PROVE HeartbeatAge'
  <2>1. since = 0 /\ age = 0 /\ keep # "beat"
    BY <1>0, <1>5 DEF ReplyOK, HeartbeatAge, KeepAliveOwner
  <2>2. CASE got = Region
    BY <1>5, <2>1, <2>2 DEF ReplyOK, HeartbeatAge
  <2>3. CASE got # Region
    BY <1>5, <2>1, <2>3, AttachEnds DEF ReplyOK, HeartbeatAge, Errors
  <2> QED
    BY <2>2, <2>3
<1>6. CASE Validate \/ Socket \/ Connect \/ Refused \/ ConnectFails \/ Wait \/ Map
  BY <1>0, <1>6 DEF Validate, Socket, Connect, Refused, ConnectFails, Wait, Map, Return,
                    HeartbeatAge, timeVars
<1>7. CASE LoopPass
  <2>1. keep = "off"
    BY <1>0, <1>7 DEF LoopPass, KeepAliveOwner
  <2> QED
    BY <1>0, <1>7, <1>a, <2>1 DEF LoopPass, HeartbeatAge, envVars
<1>8. CASE Leave
  BY <1>0, <1>8 DEF Leave, Return, HeartbeatAge, timeVars
<1>9. CASE CallerDetach
  BY <1>0, <1>9 DEF CallerDetach, HeartbeatAge, timeVars
<1>10. CASE Tick
  BY <1>0, <1>10, <1>a, <1>b DEF Tick, HeartbeatAge, KeepAliveOwner, envVars
<1>11. CASE Beat
  <2>1. pc = "attached" => age' = 0
    BY <1>0, <1>11 DEF Beat, MappedByPc, Region
  <2>2. pc \in {"attached", "detached"} /\ pc' = pc /\ since' = since /\ keep' = "select"
        /\ kind' = "caller"
    BY <1>0, <1>11 DEF Beat, KeepAliveOwner, envVars
  <2> QED
    BY <1>b, <2>1, <2>2 DEF HeartbeatAge
<1>12. CASE KeepAliveEnds
  BY <1>0, <1>12 DEF KeepAliveEnds, HeartbeatAge, envVars
<1>13. CASE TimePasses
  <2>1. pc \in {"attached", "detached"} /\ pc' = pc /\ keep' = keep /\ kind' = kind
    BY <1>0, <1>13 DEF TimePasses, KeepAliveOwner, envVars
  <2>2. age' <= age + 1 /\ age' \in Nat
    BY <1>13, <1>b DEF TimePasses
  <2>3. keep \in {"select", "beat"} => since' = since + 1
    BY <1>13 DEF TimePasses
  <2>4. keep = "beat" => since < Delay
    BY <1>13 DEF TimePasses
  <2>5. kind = "module" => age < Delay
    BY <1>13 DEF TimePasses
  <2>6. pc = "attached" /\ kind = "module" => age' <= Delay
    BY <1>a, <1>b, <2>2, <2>5
  <2>7. pc = "attached" /\ keep = "select" => age' <= since'
    BY <1>0, <1>b, <2>2, <2>3 DEF HeartbeatAge
  <2>8. keep = "beat" => since' <= Delay /\ (pc = "attached" => age' <= since' + Interval)
    BY <1>0, <1>a, <1>b, <2>2, <2>3, <2>4 DEF HeartbeatAge
  <2> QED
    BY <2>1, <2>6, <2>7, <2>8 DEF HeartbeatAge
<1>14. CASE UNCHANGED <<pc, kind, keep, since, age>>
  BY <1>0, <1>14 DEF HeartbeatAge
<1>15. Use \/ ListenerChanges \/ HostRestarts \/ CtxEnds \/ Reap \/ UNCHANGED vars
         => UNCHANGED <<pc, kind, keep, since, age>>
  BY DEF Use, ListenerChanges, HostRestarts, CtxEnds, Reap, vars, envVars, timeVars
<1> QED
  BY <1>1, <1>2, <1>3, <1>4, <1>5, <1>6, <1>7, <1>8, <1>9, <1>10, <1>11, <1>12, <1>13, <1>14,
     <1>15 DEF Next, Process, Answer

\* The host cannot find the heartbeat of an attached client stale while ctx lasts.
LEMMA SlotStep ==
  ASSUME Inv, [Next]_vars
  PROVE  SlotHeld'
<1>0. SlotHeld /\ HeartbeatAge /\ KeepAliveOwner /\ TypeOK
  BY DEF Inv
<1>1. CASE Send
  BY <1>0, <1>1, AttachEnds DEF Send, Errors, SlotHeld, ReapedOnlyAfterCtx
<1>2. CASE MapFails
  BY <1>0, <1>2, AttachEnds DEF MapFails, Errors, SlotHeld, ReapedOnlyAfterCtx
<1>3. CASE CheckRegions
  BY <1>0, <1>3, AttachEnds DEF CheckRegions, Errors, SlotHeld, ReapedOnlyAfterCtx
<1>4. CASE ReplyRefused
  BY <1>0, <1>4, AttachEnds DEF ReplyRefused, Errors, SlotHeld, ReapedOnlyAfterCtx
<1>5. ASSUME NEW got \in SUBSET Region, ReplyOK(got) PROVE SlotHeld'
  BY <1>0, <1>5, AttachEnds DEF ReplyOK, Errors, SlotHeld, ReapedOnlyAfterCtx
<1>6. CASE Validate \/ Socket \/ Connect \/ Refused \/ ConnectFails \/ Wait
  BY <1>0, <1>6 DEF Validate, Socket, Connect, Refused, ConnectFails, Wait, Return, SlotHeld,
                    ReapedOnlyAfterCtx
<1>7. CASE Map
  BY <1>0, <1>7 DEF Map, SlotHeld, ReapedOnlyAfterCtx, timeVars
<1>8. CASE LoopPass
  BY <1>0, <1>8 DEF LoopPass, SlotHeld, ReapedOnlyAfterCtx, envVars
<1>9. CASE Leave \/ CallerDetach
  BY <1>0, <1>9 DEF Leave, CallerDetach, Return, SlotHeld, ReapedOnlyAfterCtx
<1>10. CASE CtxEnds
  BY <1>0, <1>10 DEF CtxEnds, SlotHeld, ReapedOnlyAfterCtx, timeVars
<1>11. CASE Reap
  <2>1. Interval \in Nat /\ Delay \in Nat /\ Stale \in Nat /\ Interval + Delay <= Stale
    BY TimingAssumption
  <2>2. since \in Nat /\ age \in Nat /\ since <= Interval + Delay /\ age > Stale
    BY <1>0, <1>11, <2>1 DEF TypeOK, Reap
  <2>3. pc \notin {"map", "check"}
    BY <1>0, <2>1, <2>2 DEF HeartbeatAge
  <2>4. ASSUME pc = "attached", ctxDone = FALSE PROVE FALSE
    <3>1. CASE kind = "module"
      BY <1>0, <2>1, <2>2, <2>4, <3>1 DEF HeartbeatAge
    <3>2. CASE kind = "caller"
      <4>1. keep \in {"select", "beat"}
        BY <1>0, <2>4, <3>2 DEF KeepAliveOwner, TypeOK
      <4>2. CASE keep = "select"
        BY <1>0, <2>1, <2>2, <2>4, <4>2 DEF HeartbeatAge
      <4>3. CASE keep = "beat"
        BY <1>0, <2>1, <2>2, <2>4, <4>3 DEF HeartbeatAge
      <4> QED
        BY <4>1, <4>2, <4>3
    <3> QED
      BY <1>0, <3>1, <3>2 DEF TypeOK
  <2>5. pc' = pc /\ ctxDone' = ctxDone /\ ctxDone \in BOOLEAN
    BY <1>0, <1>11 DEF Reap, envVars, TypeOK
  <2>6. pc # "attached" \/ ctxDone
    BY <2>4, <2>5
  <2> QED
    BY <2>3, <2>5, <2>6 DEF SlotHeld, ReapedOnlyAfterCtx
<1>12. CASE UNCHANGED <<pc, ctxDone, admitted>>
  BY <1>0, <1>12 DEF SlotHeld, ReapedOnlyAfterCtx
<1>13. Use \/ Tick \/ Beat \/ KeepAliveEnds \/ ListenerChanges \/ HostRestarts \/ TimePasses
         \/ UNCHANGED vars => UNCHANGED <<pc, ctxDone, admitted>>
  BY DEF Use, Tick, Beat, KeepAliveEnds, ListenerChanges, HostRestarts, TimePasses, vars,
         envVars, timeVars
<1> QED
  BY <1>1, <1>2, <1>3, <1>4, <1>5, <1>6, <1>7, <1>8, <1>9, <1>10, <1>11, <1>12, <1>13
     DEF Next, Process, Answer

\* What the region checks decided stays true: the host's layout does not change under them.
LEMMA CheckedStep ==
  ASSUME Inv, [Next]_vars
  PROVE  Checked'
<1>0. Checked
  BY DEF Inv
<1> DEFINE Fits == AttachControl(host) /\ AttachQueuePair(host)
<1>a. Checked <=> (pc = "attached" => Fits) /\ (err = "region" => ~Fits)
  BY DEF Checked
<1>b. Checked' <=> (pc' = "attached" => Fits') /\ (err' = "region" => ~Fits')
  BY DEF Checked
<1>c. host' = host => (Fits' <=> Fits)
  BY DEF AttachControl, AttachQueuePair
<1> HIDE DEF Fits
<1>1. CASE Send
  BY <1>0, <1>1, <1>a, <1>b, <1>c, AttachEnds DEF Send, Errors, envVars
<1>2. CASE MapFails
  BY <1>0, <1>2, <1>a, <1>b, <1>c, AttachEnds DEF MapFails, Errors, envVars
<1>3. CASE CheckRegions
  <2>1. CASE Fits
    BY <1>0, <1>3, <1>a, <1>b, <1>c, <2>1, AttachEnds DEF CheckRegions, Errors, envVars, Fits
  <2>2. CASE ~Fits
    BY <1>0, <1>3, <1>a, <1>b, <1>c, <2>2, AttachEnds DEF CheckRegions, Errors, envVars, Fits
  <2> QED
    BY <2>1, <2>2
<1>4. CASE ReplyRefused
  BY <1>0, <1>4, <1>a, <1>b, <1>c, AttachEnds DEF ReplyRefused, Errors, envVars
<1>5. ASSUME NEW got \in SUBSET Region, ReplyOK(got) PROVE Checked'
  BY <1>0, <1>5, <1>a, <1>b, <1>c, AttachEnds DEF ReplyOK, Errors, envVars
<1>6. CASE Validate \/ Socket \/ Connect \/ Refused \/ ConnectFails \/ Wait
  BY <1>0, <1>6, <1>a, <1>b, <1>c DEF Validate, Socket, Connect, Refused, ConnectFails, Wait,
                                      Return, Returned, envVars
<1>7. CASE Map \/ LoopPass \/ Leave \/ CallerDetach
  BY <1>0, <1>7, <1>a, <1>b, <1>c DEF Map, LoopPass, Leave, CallerDetach, Return, envVars
<1>8. CASE UNCHANGED <<pc, err, host>>
  BY <1>0, <1>8, <1>a, <1>b, <1>c
<1>9. Use \/ Tick \/ Beat \/ KeepAliveEnds \/ ListenerChanges \/ HostRestarts \/ CtxEnds
        \/ TimePasses \/ Reap \/ UNCHANGED vars => UNCHANGED <<pc, err, host>>
  BY DEF Use, Tick, Beat, KeepAliveEnds, ListenerChanges, HostRestarts, CtxEnds, TimePasses,
         Reap, vars, envVars
<1> QED
  BY <1>1, <1>2, <1>3, <1>4, <1>5, <1>6, <1>7, <1>8, <1>9 DEF Next, Process, Answer

\* Only keepAlive can touch what Detach unmapped.
LEMMA TouchStep ==
  ASSUME Inv, [Next]_vars
  PROVE  OnlyKeepAliveOutlives'
<1>0. OnlyKeepAliveOutlives /\ KeepAliveOwner /\ MappedByPc
  BY DEF Inv
<1> USE <1>0 DEF OnlyKeepAliveOutlives
<1>1. CASE Send
  BY <1>1, AttachEnds DEF Send, Errors, timeVars
<1>2. CASE MapFails
  BY <1>2, AttachEnds DEF MapFails, Errors
<1>3. CASE CheckRegions
  BY <1>3, AttachEnds DEF CheckRegions, Errors
<1>4. CASE ReplyRefused
  BY <1>4, AttachEnds DEF ReplyRefused, Errors
<1>5. ASSUME NEW got \in SUBSET Region, ReplyOK(got) PROVE OnlyKeepAliveOutlives'
  BY <1>5, AttachEnds DEF ReplyOK, Errors
<1>6. CASE Validate \/ Socket \/ Connect \/ Refused \/ ConnectFails \/ Wait \/ Map \/ Leave
  BY <1>6 DEF Validate, Socket, Connect, Refused, ConnectFails, Wait, Map, Leave, timeVars
<1>7. CASE LoopPass
  BY <1>7 DEF LoopPass, Touch, MappedByPc, Region
<1>8. CASE Use
  BY <1>8 DEF Use, Touch, MappedByPc, Region
<1>9. CASE CallerDetach
  BY <1>9 DEF CallerDetach, timeVars
<1>10. CASE Beat
  <2>1. CASE pc = "attached"
    BY <1>10, <2>1 DEF Beat, Touch, MappedByPc, Region
  <2>2. CASE pc = "detached"
    BY <1>10, <2>2 DEF Beat, Touch
  <2> QED
    BY <1>10, <2>1, <2>2 DEF Beat, KeepAliveOwner
<1>11. CASE UNCHANGED <<pc, bad>>
  BY <1>11
<1>12. Tick \/ KeepAliveEnds \/ ListenerChanges \/ HostRestarts \/ CtxEnds \/ TimePasses
         \/ Reap \/ UNCHANGED vars => UNCHANGED <<pc, bad>>
  BY DEF Tick, KeepAliveEnds, ListenerChanges, HostRestarts, CtxEnds, TimePasses, Reap, vars,
         timeVars
<1> QED
  BY <1>1, <1>2, <1>3, <1>4, <1>5, <1>6, <1>7, <1>8, <1>9, <1>10, <1>11, <1>12
     DEF Next, Process, Answer

\* Inv is inductive, so it holds in every state of every run of the process.
LEMMA InvAlways == Spec => []Inv
<1>1. Inv /\ [Next]_vars => Inv'
  BY TypeStep, HeldStep, OwnerStep, AgeStep, SlotStep, CheckedStep, TouchStep DEF Inv
<1> QED
  BY InitInv, <1>1, PTL DEF Spec

\* align64 rounds up to the next multiple of 64.
LEMMA AlignNext ==
  ASSUME NEW n \in Nat
  PROVE  align64(n) \in Nat /\ align64(n) % 64 = 0 /\ align64(n) >= n /\ align64(n) < n + 64
  BY DEF align64

\* There is only one such multiple.
LEMMA AlignUnique ==
  ASSUME NEW n \in Nat, NEW off \in Nat, off % 64 = 0, off >= n, off < n + 64
  PROVE  off = align64(n)
<1>1. off = 64 * (off \div 64)
  OBVIOUS
<1>2. align64(n) = 64 * ((n + 63) \div 64)
  BY DEF align64
<1> QED
  BY <1>1, <1>2

\* AttachControl and AttachQueuePair accept what a host that follows the layout writes: the
\* sizes the client computes from the reply reach as far as the offsets in the region.
LEMMA WellLaidAccepted ==
  ASSUME NEW h \in HostLayout, WellLaid(h)
  PROVE  AttachControl(h) /\ AttachQueuePair(h)
<1> DEFINE R == RingBytes(h.slot, h.cap)
           len == qpairBytes(h.slot, h.cap)
<1>1. h.slot \in Nat /\ h.cap \in Nat /\ h.inOff \in Nat /\ h.outOff \in Nat /\ h.ctlSlot \in Nat
  BY DEF HostLayout
<1>2. h.slot * h.cap \in Nat
  BY <1>1
<1>3. R \in Nat /\ R >= 192
  BY <1>2 DEF RingBytes, ringHdrBytes
<1>4. h.inOff = 128
  <2>1. h.inOff % 64 = 0 /\ h.inOff >= 96 /\ h.inOff < 96 + 64
    BY DEF WellLaid, qpBytes
  <2> QED
    BY <1>1, <2>1
<1>5. h.outOff = align64(128 + R)
  <2>1. h.outOff % 64 = 0 /\ h.outOff >= 128 + R /\ h.outOff < 128 + R + 64
    BY <1>4 DEF WellLaid
  <2>2. 128 + R \in Nat
    BY <1>3
  <2> HIDE DEF R
  <2> QED
    BY <1>1, <2>1, <2>2, AlignUnique
<1>6. len = h.outOff + R /\ h.outOff >= 128 + R
  <2>1. align64(qpBytes) = 128
    BY DEF align64, qpBytes
  <2>2. h.outOff >= 128 + R
    BY <1>4 DEF WellLaid
  <2> QED
    BY <1>5, <2>1, <2>2 DEF qpairBytes
<1>7. ASSUME NEW r, NEW off \in Nat, off + R <= len,
             r.magicOK, r.slot = h.slot, r.cap = h.cap, r.mask = h.cap - 1,
             r.slotsOff = ringHdrBytes, (r.head - r.tail) % Word <= h.cap
      PROVE  AttachRing(r, len - off)
  <2>1. len \in Nat
    BY <1>1, <1>3, <1>6
  <2>2. len - off >= R /\ len - off >= 192
    BY <1>3, <1>7, <2>1
  <2>3. R = r.slotsOff + r.slot * r.cap
    BY <1>7 DEF RingBytes
  <2>4. h.slot # 0 /\ h.cap >= 2 /\ h.cap \in Capacities
    BY DEF WellLaid, AttachControl
  <2> HIDE DEF R, len
  <2> QED
    BY <1>7, <2>2, <2>3, <2>4 DEF AttachRing, ringHdrBytes
<1>8. AttachRing(h.inbound, len - h.inOff)
  <2>1. h.inOff + R <= len
    BY <1>1, <1>3, <1>4, <1>6
  <2> HIDE DEF R, len
  <2> QED
    BY <1>1, <1>7, <2>1 DEF WellLaid
<1>9. AttachRing(h.outbound, len - h.outOff)
  <2>1. h.outOff + R <= len
    BY <1>1, <1>3, <1>6
  <2> HIDE DEF R, len
  <2> QED
    BY <1>1, <1>7, <2>1 DEF WellLaid
<1>10. len >= 96 /\ h.inOff < len /\ h.outOff < len /\ h.inOff # h.outOff
  BY <1>1, <1>3, <1>4, <1>6
<1> QED
  BY <1>8, <1>9, <1>10 DEF WellLaid, AttachQueuePair, qpBytes

\* A ring that AttachRing accepted has every slot inside the bytes that were mapped, whatever
\* its header says otherwise.
LEMMA SlotsInside ==
  ASSUME NEW r \in RingHeader, NEW off \in Nat, NEW len \in Nat, AttachRing(r, len - off),
         NEW i \in 0..(r.cap - 1)
  PROVE  off + r.slotsOff + (i + 1) * r.slot <= len
<1>1. r.slot \in Nat /\ r.cap \in Nat /\ r.slotsOff \in Nat
  BY DEF RingHeader
<1>2. i \in Nat /\ i + 1 <= r.cap
  BY <1>1
<1>3. (i + 1) * r.slot <= r.slot * r.cap
  BY <1>1, <1>2
<1>4. len - off >= r.slotsOff + r.slot * r.cap
  BY DEF AttachRing
<1>5. (i + 1) * r.slot \in Nat /\ r.slot * r.cap \in Nat
  BY <1>1, <1>2
<1> QED
  BY <1>1, <1>3, <1>4, <1>5

\* The process and its bookkeeping stay within their types: connecting, keep-alive and the
\* host's clock never count past the bounds the scheduling delay gives them.
THEOREM TypeCorrect == Spec => []TypeOK
<1>1. Inv => TypeOK
  BY DEF Inv
<1> QED
  BY InvAlways, <1>1, PTL

\* However connectModule, ConnectClient and AttachAs are left (client.go), no socket, received
\* descriptor or partial mapping stays behind.
THEOREM NothingHeldAlways == Spec => []NothingHeld
<1>1. Inv => NothingHeld
  BY DEF Inv
<1> QED
  BY InvAlways, <1>1, PTL

\* Only the heartbeat of keepAlive (module_caller.go) can reach a page that is not mapped, and
\* only after the caller's own Detach.
THEOREM OnlyKeepAliveOutlivesAlways == Spec => []OnlyKeepAliveOutlives
<1>1. Inv => OnlyKeepAliveOutlives
  BY DEF Inv
<1> QED
  BY InvAlways, <1>1, PTL

\* With Interval + Delay within the host's window, no attached client loses its slot before its
\* ctx ends, whether its loop or its keepAlive goroutine beats.
THEOREM SlotKeptWhileCtx == Spec => []ReapedOnlyAfterCtx
<1>1. Inv => ReapedOnlyAfterCtx
  BY DEF Inv, SlotHeld
<1> QED
  BY InvAlways, <1>1, PTL

\* For every layout a host may write: the layout of the protocol is never refused, and an
\* accepted one has every slot of both rings inside the mapping (region.go, ring.go).
THEOREM LayoutsAgreeAlways == Spec => []LayoutsAgree
<1>1. ASSUME Inv PROVE LayoutsAgree
  <2>1. host \in HostLayout /\ Checked
    BY <1>1, HostAssumption DEF Inv, TypeOK
  <2>2. err = "region" => ~WellLaid(host)
    BY <2>1, WellLaidAccepted DEF Checked
  <2>3. ASSUME pc = "attached"
        PROVE  \A p \in {<<host.inOff, host.inbound>>, <<host.outOff, host.outbound>>} :
                 \A i \in 0..(p[2].cap - 1) :
                   p[1] + p[2].slotsOff + (i + 1) * p[2].slot <= qpairBytes(host.slot, host.cap)
    <3> DEFINE len == qpairBytes(host.slot, host.cap)
    <3>1. /\ host.slot \in Nat /\ host.cap \in Nat /\ host.inOff \in Nat /\ host.outOff \in Nat
          /\ host.inbound \in RingHeader /\ host.outbound \in RingHeader
      BY <2>1 DEF HostLayout
    <3>2. len \in Nat
      <4>1. host.slot * host.cap \in Nat
        BY <3>1
      <4>2. RingBytes(host.slot, host.cap) \in Nat
        BY <4>1 DEF RingBytes, ringHdrBytes
      <4> QED
        BY <4>2 DEF qpairBytes, align64, qpBytes
    <3>3. AttachRing(host.inbound, len - host.inOff) /\ AttachRing(host.outbound, len - host.outOff)
      BY <2>1, <2>3 DEF Checked, AttachQueuePair
    <3> HIDE DEF len
    <3>4. \A i \in 0..(host.inbound.cap - 1) :
            host.inOff + host.inbound.slotsOff + (i + 1) * host.inbound.slot <= len
      BY <3>1, <3>2, <3>3, SlotsInside
    <3>5. \A i \in 0..(host.outbound.cap - 1) :
            host.outOff + host.outbound.slotsOff + (i + 1) * host.outbound.slot <= len
      BY <3>1, <3>2, <3>3, SlotsInside
    <3> QED
      BY <3>4, <3>5 DEF len
  <2> QED
    BY <2>2, <2>3 DEF LayoutsAgree
<1> QED
  BY InvAlways, <1>1, PTL

=============================================================================

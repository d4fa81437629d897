-------------------------- MODULE LearnedStoreProof --------------------------
(***************************************************************************)
(* Proofs about LearnedStore for every number of handlers, every set of    *)
(* projects and names, every request, every file found at the start and    *)
(* every LearnMax.  The inductive invariant is Inv.                        *)
(***************************************************************************)
EXTENDS LearnedStore, SequenceTheorems, FiniteSetTheorems, TLAPS

Merging == {"merge", "create", "write", "close", "rename"}
Filing  == {"write", "close", "rename"}

\* The document Record builds on: the file, or nothing when read() gave up on it.
Base(t) == IF blind[t] THEN Empty ELSE View

\* d is base with n valid names appended to project r, each of them new.
Grown(d, base, r, n) ==
  /\ \A q \in Root : q # r => d[q] = base[q]
  /\ Len(d[r]) = Len(base[r]) + n
  /\ \A i \in 1..Len(base[r]) : d[r][i] = base[r][i]
  /\ \A j \in 1..Len(d[r]) :
       j > Len(base[r]) => d[r][j] \in Valid /\ \A i \in 1..Len(d[r]) : i < j => d[r][i] # d[r][j]
  /\ n > 0 => Len(d[r]) <= LearnMax

\* Store.mu is held by the one goroutine that is between Lock and Unlock.
OneInside == \A t \in Thread : pc[t] \in Holding <=> mu = t

\* A temporary file belongs to a Record that is writing it; from Close on it is complete.
OwnTemp ==
  \A t \in Thread :
    /\ pc[t] \in Filing => temp[t] \in Temp
    /\ pc[t] \notin Filing => temp[t] = NoFile
    /\ pc[t] \in {"close", "rename"} => temps[temp[t]] = doc[t]

\* The copy inside Record is the file and what was merged into it: nobody has written since.
CopyOf(t) ==
  /\ pc[t] \in Merging => Grown(doc[t], Base(t), req[t].root, added[t])
  /\ pc[t] \in Merging /\ pc[t] # "merge" => added[t] > 0

CopyGrown == \A t \in Thread : CopyOf(t)

\* A project about which an observer was told anything is within the cap.
ReportedWithinCap == \A r \in Root : acked[r] # {} => Len(View[r]) <= LearnMax

Inv ==
  /\ TypeOK
  /\ OneInside
  /\ OwnTemp
  /\ CopyGrown
  /\ ReportedIsPersisted
  /\ ReportedWithinCap

\* The empty document is one.
LEMMA EmptyIsDoc == Empty \in Doc
  BY DEF Empty, Doc

\* What the file holds, for a reader, is a document.
LEMMA ViewIsDoc == TypeOK => View \in Doc
  BY EmptyIsDoc DEF View

\* The request of a goroutine that serves none has the type of a request.
LEMMA IdleIsRequest == Idle \in Request
  BY StoreAssumption DEF Idle, Request

\* Load returns valid names only: a hand-edited one does not get out.
LEMMA LoadResultValid ==
  ASSUME NEW names
  PROVE  LoadResult(names) \subseteq Valid
  BY DEF LoadResult

\* Whatever read() makes of the file is a document, and it is the one Record builds on.
LEMMA OutcomeShape ==
  ASSUME TypeOK, NEW o \in ReadOutcomes
  PROVE  /\ o.doc \in Doc /\ o.nil \in BOOLEAN /\ o.blind \in BOOLEAN
         /\ o.doc = IF o.blind THEN Empty ELSE View
<1>1. CASE o = [doc |-> IF file \in Doc THEN file ELSE Empty, nil |-> file = Null, blind |-> FALSE]
  BY <1>1, EmptyIsDoc DEF View
<1>2. CASE o = [doc |-> Empty, nil |-> FALSE, blind |-> file \in Doc]
  <2>1. o.doc = Empty /\ o.nil = FALSE /\ o.blind = (file \in Doc)
    BY <1>2
  <2>2. CASE file \in Doc
    <3>1. (file \in Doc) = TRUE
      BY <2>2
    <3>2. o.blind = TRUE
      BY <2>1, <3>1, Zenon
    <3> QED
      BY <2>1, <3>2, EmptyIsDoc
  <2>3. CASE file \notin Doc
    <3>1. (file \in Doc) = FALSE
      BY <2>3
    <3>2. o.blind = FALSE
      BY <2>1, <3>1, Zenon
    <3> QED
      BY <2>1, <2>3, <3>2, EmptyIsDoc DEF View
  <2> QED
    BY <2>2, <2>3
<1> QED
  BY <1>1, <1>2 DEF ReadOutcomes

\* A new process has nobody in the store.
LEMMA FreshTypes ==
  /\ Fresh.mu = Free
  /\ Fresh.pc = [t \in Thread |-> "idle"] /\ Fresh.pc \in [Thread -> Pc]
  /\ Fresh.req \in [Thread -> Request] /\ Fresh.doc \in [Thread -> Doc]
  /\ Fresh.flag \in [Thread -> BOOLEAN] /\ Fresh.todo \in [Thread -> Seq(Name)]
  /\ Fresh.added \in [Thread -> Nat]
  /\ Fresh.temp = [t \in Thread |-> NoFile] /\ Fresh.temp \in [Thread -> Temp \cup {NoFile}]
  /\ Fresh.got \in [Thread -> SUBSET Valid] /\ Fresh.reply \in [Thread -> Status]
<1>1. /\ Fresh.mu = Free /\ Fresh.pc = [t \in Thread |-> "idle"]
      /\ Fresh.req = [t \in Thread |-> Idle] /\ Fresh.doc = [t \in Thread |-> Empty]
      /\ Fresh.flag = [t \in Thread |-> FALSE] /\ Fresh.todo = [t \in Thread |-> <<>>]
      /\ Fresh.added = [t \in Thread |-> 0] /\ Fresh.temp = [t \in Thread |-> NoFile]
      /\ Fresh.got = [t \in Thread |-> {}] /\ Fresh.reply = [t \in Thread |-> "none"]
  BY DEF Fresh
<1>2. Fresh.pc \in [Thread -> Pc] /\ Fresh.reply \in [Thread -> Status]
  BY <1>1 DEF Pc, Status
<1>3. Fresh.req \in [Thread -> Request] /\ Fresh.doc \in [Thread -> Doc]
  BY <1>1, IdleIsRequest, EmptyIsDoc
<1>4. Fresh.flag \in [Thread -> BOOLEAN]
  BY <1>1
<1>5. Fresh.todo \in [Thread -> Seq(Name)] /\ Fresh.added \in [Thread -> Nat]
  BY <1>1
<1>6. Fresh.temp \in [Thread -> Temp \cup {NoFile}] /\ Fresh.got \in [Thread -> SUBSET Valid]
  BY <1>1
<1> QED
  BY <1>1, <1>2, <1>3, <1>4, <1>5, <1>6

\* A handler that returns leaves the types and unlocks what it locked.
LEMMA AnswerTypes ==
  ASSUME TypeOK, NEW t \in Thread, NEW status \in Status, Answer(t, status)
  PROVE  /\ mu' \in Thread \cup {Free} /\ pc' \in [Thread -> Pc] /\ reply' \in [Thread -> Status]
         /\ doc' \in [Thread -> Doc] /\ nilDoc' \in [Thread -> BOOLEAN]
         /\ todo' \in [Thread -> Seq(Name)] /\ added' \in [Thread -> Nat]
         /\ temp' \in [Thread -> Temp \cup {NoFile}]
<1>1. mu' \in Thread \cup {Free}
  BY DEF Answer, TypeOK
<1>2. pc' \in [Thread -> Pc] /\ reply' \in [Thread -> Status]
  BY DEF Answer, Goto, TypeOK, Pc
<1>3. doc' \in [Thread -> Doc]
  BY EmptyIsDoc DEF Answer, TypeOK
<1>4. nilDoc' \in [Thread -> BOOLEAN]
  BY DEF Answer, TypeOK
<1>5. todo' \in [Thread -> Seq(Name)] /\ added' \in [Thread -> Nat]
  BY DEF Answer, TypeOK
<1>6. temp' \in [Thread -> Temp \cup {NoFile}]
  BY DEF Answer, TypeOK
<1> QED
  BY <1>1, <1>2, <1>3, <1>4, <1>5, <1>6

\* The starting states satisfy the invariant.
LEMMA InitInv == Init => Inv
<1> SUFFICES ASSUME Init PROVE Inv
  OBVIOUS
<1>1. TypeOK
  <2>1. file \in Doc \cup {NoFile, Garbage, Null} /\ mu \in Thread \cup {Free}
    BY StoreAssumption DEF Init
  <2>2. temps \in [Temp -> Doc \cup {NoFile, Torn}] /\ acked \in [Root -> SUBSET Valid]
    BY DEF Init
  <2>3. /\ pc \in [Thread -> Pc] /\ req \in [Thread -> Request] /\ doc \in [Thread -> Doc]
        /\ todo \in [Thread -> Seq(Name)] /\ added \in [Thread -> Nat]
        /\ temp \in [Thread -> Temp \cup {NoFile}] /\ got \in [Thread -> SUBSET Valid]
        /\ reply \in [Thread -> Status]
    BY FreshTypes DEF Init
  <2>4. nilDoc \in [Thread -> BOOLEAN] /\ blind \in [Thread -> BOOLEAN]
    BY FreshTypes DEF Init
  <2> QED
    BY <2>1, <2>2, <2>3, <2>4 DEF TypeOK
<1>2. \A t \in Thread : pc[t] = "idle" /\ temp[t] = NoFile
  BY FreshTypes DEF Init
<1>3. OneInside
  BY <1>2, StoreAssumption DEF Init, OneInside, Holding
<1>4. OwnTemp /\ CopyGrown
  BY <1>2 DEF OwnTemp, CopyGrown, CopyOf, Filing, Merging
<1>5. ReportedIsPersisted /\ ReportedWithinCap
  BY DEF Init, ReportedIsPersisted, ReportedWithinCap
<1> QED
  BY <1>1, <1>3, <1>4, <1>5 DEF Inv

\* What an observer is told of are valid names.
LEMMA ToldValid == \A t : Told(t) \subseteq Valid
  BY DEF Told

\* Every step keeps the types.
LEMMA TypeStep ==
  ASSUME Inv, [Next]_vars
  PROVE  TypeOK'
<1>0. TypeOK /\ OwnTemp
  BY DEF Inv
<1> USE <1>0
<1>a. {"OK", "InvalidRequest", "Cancelled", "Internal"} \subseteq Status
  BY DEF Status
<1>b. ASSUME NEW t \in Thread PROVE Told(t) \subseteq Valid
  BY ToldValid
<1>1. ASSUME NEW t \in Thread, RefuseMalformed(t) \/ SeeCancelled(t) \/ NothingParsed(t)
      PROVE  TypeOK'
  <2>1. UNCHANGED <<file, temps, req, blind, got, acked>>
    BY <1>1 DEF RefuseMalformed, SeeCancelled, NothingParsed
  <2>2. \E s \in Status : Answer(t, s)
    BY <1>1, <1>a DEF RefuseMalformed, SeeCancelled, NothingParsed
  <2> QED
    BY <2>1, <2>2, AnswerTypes DEF TypeOK
<1>2. ASSUME NEW t \in Thread, NEW l \in Pc, Goto(t, l), UNCHANGED <<file, temps, req, localVars, reply, acked>>,
             mu' \in Thread \cup {Free}
      PROVE  TypeOK'
  BY <1>2 DEF TypeOK, Goto, localVars, recordVars
<1>3. ASSUME NEW t \in Thread, CallStore(t) PROVE TypeOK'
  BY <1>2, <1>3 DEF CallStore, Pc, TypeOK
<1>4. ASSUME NEW t \in Thread, Acquire(t) PROVE TypeOK'
  BY <1>2, <1>4 DEF Acquire, Pc, Holding
<1>5. ASSUME NEW t \in Thread, MergeDone(t) PROVE TypeOK'
  BY <1>2, <1>5 DEF MergeDone, Pc, Holding, TypeOK
<1>6. ASSUME NEW t \in Thread, CloseTemp(t) PROVE TypeOK'
  BY <1>2, <1>6 DEF CloseTemp, Pc, Holding, TypeOK
<1>7. ASSUME NEW t \in Thread, LoadRead(t) PROVE TypeOK'
  <2>1. PICK o \in ReadOutcomes :
          /\ got' = [got EXCEPT ![t] = LoadResult(o.doc[req[t].root])]
          /\ blind' = [blind EXCEPT ![t] = o.blind]
    BY <1>7 DEF LoadRead
  <2>2. got' \in [Thread -> SUBSET Valid]
    BY <2>1, LoadResultValid DEF TypeOK
  <2>3. o.blind \in BOOLEAN
    BY OutcomeShape
  <2>4. blind' \in [Thread -> BOOLEAN]
    BY <2>1, <2>3 DEF TypeOK
  <2>5. Answer(t, "OK") /\ UNCHANGED <<file, temps, req, acked>>
    BY <1>7 DEF LoadRead
  <2> QED
    BY <1>a, <2>2, <2>4, <2>5, AnswerTypes DEF TypeOK
<1>8. ASSUME NEW t \in Thread, RecordRead(t) PROVE TypeOK'
  <2>1. PICK o \in ReadOutcomes :
          /\ doc' = [doc EXCEPT ![t] = o.doc]
          /\ nilDoc' = [nilDoc EXCEPT ![t] = o.nil]
          /\ blind' = [blind EXCEPT ![t] = o.blind]
    BY <1>8 DEF RecordRead
  <2>2. o.doc \in Doc /\ o.nil \in BOOLEAN /\ o.blind \in BOOLEAN
    BY OutcomeShape
  <2>3. doc' \in [Thread -> Doc]
    BY <2>1, <2>2 DEF TypeOK
  <2>4. nilDoc' \in [Thread -> BOOLEAN] /\ blind' \in [Thread -> BOOLEAN]
    BY <2>1, <2>2 DEF TypeOK
  <2>5. todo' \in [Thread -> Seq(Name)] /\ added' \in [Thread -> Nat]
    BY <1>8 DEF RecordRead, TypeOK, Request
  <2>6. pc' \in [Thread -> Pc]
    BY <1>8 DEF RecordRead, TypeOK, Goto, Pc, Holding
  <2> QED
    BY <1>8, <2>3, <2>4, <2>5, <2>6 DEF RecordRead, TypeOK
<1>9. ASSUME NEW t \in Thread, MergeName(t) PROVE TypeOK'
  <2>1. todo[t] \in Seq(Name) /\ todo[t] # <<>> /\ req[t].root \in Root /\ doc[t] \in Doc
    BY <1>9 DEF MergeName, TypeOK, Request
  <2>2. Head(todo[t]) \in Name /\ Tail(todo[t]) \in Seq(Name)
    BY <2>1
  <2>3. [doc[t] EXCEPT ![req[t].root] = Append(@, Head(todo[t]))] \in Doc
    BY <2>1, <2>2 DEF Doc
  <2>4. doc' \in [Thread -> Doc]
    BY <1>9, <2>3 DEF MergeName, TypeOK
  <2>5. todo' \in [Thread -> Seq(Name)] /\ added' \in [Thread -> Nat]
    BY <1>9, <2>2 DEF MergeName, TypeOK
  <2> QED
    BY <1>9, <2>4, <2>5 DEF MergeName, TypeOK
<1>10. ASSUME NEW t \in Thread, SkipName(t) PROVE TypeOK'
  <2>1. todo[t] \in Seq(Name) /\ todo[t] # <<>>
    BY <1>10 DEF SkipName, TypeOK
  <2>2. Tail(todo[t]) \in Seq(Name) /\ <<>> \in Seq(Name)
    BY <2>1
  <2>3. todo' \in [Thread -> Seq(Name)]
    BY <1>10, <2>2 DEF SkipName, TypeOK
  <2> QED
    BY <1>10, <2>3 DEF SkipName, TypeOK
<1>11. ASSUME NEW t \in Thread, NothingNew(t) PROVE TypeOK'
  <2>1. Answer(t, "OK") /\ UNCHANGED <<file, temps, req, blind, got>>
    BY <1>11 DEF NothingNew
  <2>2. acked' \in [Root -> SUBSET Valid]
    BY <1>11, <1>b DEF NothingNew, TypeOK
  <2> QED
    BY <1>a, <2>1, <2>2, AnswerTypes DEF TypeOK
<1>12. ASSUME NEW t \in Thread, CreateTemp(t) PROVE TypeOK'
  <2>1. temps' \in [Temp -> Doc \cup {NoFile, Torn}] /\ temp' \in [Thread -> Temp \cup {NoFile}]
    BY <1>12 DEF CreateTemp, TypeOK
  <2>2. pc' \in [Thread -> Pc]
    BY <1>12 DEF CreateTemp, TypeOK, Goto, Pc, Holding
  <2> QED
    BY <1>12, <2>1, <2>2 DEF CreateTemp, TypeOK
<1>13. ASSUME NEW t \in Thread, CreateFails(t) PROVE TypeOK'
  BY <1>13, <1>a, AnswerTypes DEF CreateFails, TypeOK
<1>14. ASSUME NEW t \in Thread, WriteTemp(t) PROVE TypeOK'
  <2>1. temps' \in [Temp -> Doc \cup {NoFile, Torn}]
    BY <1>14 DEF WriteTemp, TypeOK
  <2>2. pc' \in [Thread -> Pc]
    BY <1>14 DEF WriteTemp, TypeOK, Goto, Pc, Holding
  <2> QED
    BY <1>14, <2>1, <2>2 DEF WriteTemp, TypeOK, localVars, recordVars
<1>15. ASSUME NEW t \in Thread, PersistFails(t) PROVE TypeOK'
  <2>1. temp[t] \in Temp
    BY <1>15 DEF PersistFails, OwnTemp, Filing
  <2>2. temps' \in [Temp -> Doc \cup {NoFile, Torn}]
    BY <1>15, <2>1 DEF PersistFails, TypeOK
  <2> QED
    BY <1>15, <1>a, <2>2, AnswerTypes DEF PersistFails, TypeOK
<1>16. ASSUME NEW t \in Thread, Rename(t) PROVE TypeOK'
  <2>1. temp[t] \in Temp /\ temps[temp[t]] = doc[t]
    BY <1>16 DEF Rename, OwnTemp, Filing
  <2>2. file' \in Doc
    BY <1>16, <2>1 DEF Rename, TypeOK
  <2>3. temps' \in [Temp -> Doc \cup {NoFile, Torn}]
    BY <1>16, <2>1 DEF Rename, TypeOK
  <2>4. acked' \in [Root -> SUBSET Valid]
    <3>1. \A r \in Root : acked[r] \subseteq Valid
      BY DEF TypeOK
    <3> QED
      BY <1>16, <1>b, <3>1 DEF Rename
  <2> QED
    BY <1>16, <1>a, <2>2, <2>3, <2>4, AnswerTypes DEF Rename, TypeOK
<1>17. ASSUME NEW t \in Thread, Finish(t) PROVE TypeOK'
  <2>1. pc' \in [Thread -> Pc] /\ reply' \in [Thread -> Status]
    BY <1>17 DEF Finish, TypeOK, Goto, Pc, Status
  <2>2. req' \in [Thread -> Request] /\ got' \in [Thread -> SUBSET Valid]
    BY <1>17, IdleIsRequest DEF Finish, TypeOK
  <2>3. blind' \in [Thread -> BOOLEAN]
    BY <1>17 DEF Finish, TypeOK
  <2> QED
    BY <1>17, <2>1, <2>2, <2>3 DEF Finish, TypeOK, recordVars
<1>18. ASSUME NEW t \in Thread, NEW q \in Requests, Begin(t, q) PROVE TypeOK'
  <2>1. pc' \in [Thread -> Pc] /\ req' \in [Thread -> Request]
    BY <1>18, StoreAssumption DEF Begin, TypeOK, Goto, Pc
  <2> QED
    BY <1>18, <2>1 DEF Begin, TypeOK, localVars, recordVars
<1>19. CASE Restart
  BY <1>19, FreshTypes DEF Restart, TypeOK
<1>20. CASE UNCHANGED vars
  BY <1>20 DEF vars, TypeOK
<1> QED
  BY <1>1, <1>3, <1>4, <1>5, <1>6, <1>7, <1>8, <1>9, <1>10, <1>11, <1>12, <1>13, <1>14, <1>15,
     <1>16, <1>17, <1>18, <1>19, <1>20 DEF Next, Step, Crash, Panic

\* How a step moves the goroutine that takes it: the others keep their place, the mutex is
\* with the goroutine from Lock to its return.
LEMMA InsideStep ==
  ASSUME Inv, [Next]_vars
  PROVE  OneInside'
<1>0. OneInside /\ TypeOK /\ Free \notin Thread
  BY StoreAssumption DEF Inv
<1> USE <1>0 DEF OneInside
<1>1. ASSUME NEW t \in Thread, NEW s, Answer(t, s) PROVE OneInside'
  BY <1>1 DEF Answer, Goto, TypeOK, Holding
<1>2. ASSUME NEW t \in Thread, NEW l, Goto(t, l), mu' = mu, l \in Holding <=> pc[t] \in Holding
      PROVE  OneInside'
  BY <1>2 DEF Goto, TypeOK
<1>3. ASSUME NEW t \in Thread, Acquire(t) PROVE OneInside'
  BY <1>3 DEF Acquire, Goto, TypeOK, Holding
<1>4. ASSUME NEW t \in Thread, CallStore(t) \/ Finish(t) \/ \E q \in Requests : Begin(t, q)
      PROVE  OneInside'
  BY <1>2, <1>4 DEF CallStore, Finish, Begin, Holding
<1>5. ASSUME NEW t \in Thread, RecordRead(t) \/ MergeDone(t) PROVE OneInside'
  BY <1>2, <1>5 DEF RecordRead, MergeDone, Holding
<1>6. ASSUME NEW t \in Thread, CreateTemp(t) \/ WriteTemp(t) \/ CloseTemp(t) PROVE OneInside'
  BY <1>2, <1>6 DEF CreateTemp, WriteTemp, CloseTemp, Holding
<1>7. CASE Restart
  BY <1>7, FreshTypes DEF Restart, Holding
<1>8. CASE UNCHANGED <<pc, mu>>
  BY <1>8
<1>9. \A t \in Thread : MergeName(t) \/ SkipName(t) => UNCHANGED <<pc, mu>>
  BY DEF MergeName, SkipName
<1>10. UNCHANGED vars => UNCHANGED <<pc, mu>>
  BY DEF vars
<1>11. \A t \in Thread :
         RefuseMalformed(t) \/ SeeCancelled(t) \/ NothingParsed(t) \/ LoadRead(t) \/ NothingNew(t)
         \/ CreateFails(t) \/ PersistFails(t) \/ Rename(t) => \E s : Answer(t, s)
  BY DEF RefuseMalformed, SeeCancelled, NothingParsed, LoadRead, NothingNew, CreateFails,
         PersistFails, Rename
<1> QED
  BY <1>1, <1>3, <1>4, <1>5, <1>6, <1>7, <1>8, <1>9, <1>10, <1>11 DEF Next, Step, Crash, Panic

\* A temporary file has one writer, and is complete once it is written.
LEMMA TempStep ==
  ASSUME Inv, [Next]_vars
  PROVE  OwnTemp'
<1>0. OneInside /\ OwnTemp /\ TypeOK
  BY DEF Inv
<1> USE DEF Filing
<1>1. ASSUME NEW t \in Thread, NEW s, Answer(t, s), UNCHANGED temps PROVE OwnTemp'
  BY <1>0, <1>1 DEF Answer, Goto, TypeOK, OwnTemp
<1>2. ASSUME NEW t \in Thread, NEW l, Goto(t, l), UNCHANGED <<temp, temps>>, l \notin Filing,
             pc[t] \notin Filing, \A u \in Thread : u # t => doc'[u] = doc[u]
      PROVE  OwnTemp'
  BY <1>0, <1>2 DEF Goto, TypeOK, OwnTemp
<1>3. ASSUME NEW t \in Thread,
             CallStore(t) \/ Acquire(t) \/ Finish(t) \/ MergeDone(t) \/ \E q \in Requests : Begin(t, q)
      PROVE  OwnTemp'
  BY <1>2, <1>3 DEF CallStore, Acquire, Finish, MergeDone, Begin, localVars, recordVars
<1>4. ASSUME NEW t \in Thread, RecordRead(t) PROVE OwnTemp'
  <2>1. \A u \in Thread : u # t => doc'[u] = doc[u]
    BY <1>0, <1>4 DEF RecordRead, TypeOK
  <2> QED
    BY <1>2, <1>4, <2>1 DEF RecordRead
<1>5. ASSUME NEW t \in Thread, MergeName(t) \/ SkipName(t) PROVE OwnTemp'
  <2>1. /\ pc[t] = "merge" /\ UNCHANGED <<pc, temp, temps>>
        /\ \A u \in Thread : u # t => doc'[u] = doc[u]
    BY <1>0, <1>5 DEF MergeName, SkipName, TypeOK
  <2> QED
    BY <1>0, <2>1 DEF OwnTemp
<1>6. ASSUME NEW t \in Thread, CreateTemp(t) PROVE OwnTemp'
  <2>1. \A u \in Thread : u # t => pc[u] \notin Filing
    BY <1>0, <1>6 DEF CreateTemp, OneInside, Holding
  <2> QED
    BY <1>0, <1>6, <2>1 DEF CreateTemp, Goto, TypeOK, OwnTemp
<1>7. ASSUME NEW t \in Thread, WriteTemp(t) PROVE OwnTemp'
  <2>1. \A u \in Thread : u # t => pc[u] \notin Filing
    BY <1>0, <1>7 DEF WriteTemp, OneInside, Holding
  <2>2. temp[t] \in Temp
    BY <1>0, <1>7 DEF WriteTemp, OwnTemp
  <2> QED
    BY <1>0, <1>7, <2>1, <2>2 DEF WriteTemp, Goto, TypeOK, OwnTemp, localVars, recordVars
<1>8. ASSUME NEW t \in Thread, CloseTemp(t) PROVE OwnTemp'
  BY <1>0, <1>8 DEF CloseTemp, Goto, TypeOK, OwnTemp, localVars, recordVars
<1>9. ASSUME NEW t \in Thread, PersistFails(t) \/ Rename(t) PROVE OwnTemp'
  <2>1. \A u \in Thread : u # t => pc[u] \notin Filing
    BY <1>0, <1>9 DEF PersistFails, Rename, OneInside, Holding
  <2>2. \E s : Answer(t, s)
    BY <1>9 DEF PersistFails, Rename
  <2> QED
    BY <1>0, <2>1, <2>2 DEF Answer, Goto, TypeOK, OwnTemp
<1>10. CASE Restart
  BY <1>10, FreshTypes DEF Restart, OwnTemp
<1>11. CASE UNCHANGED vars
  BY <1>0, <1>11 DEF vars, OwnTemp
<1>12. \A t \in Thread :
         RefuseMalformed(t) \/ SeeCancelled(t) \/ NothingParsed(t) \/ LoadRead(t) \/ NothingNew(t)
         \/ CreateFails(t) => \E s : Answer(t, s) /\ UNCHANGED temps
  BY DEF RefuseMalformed, SeeCancelled, NothingParsed, LoadRead, NothingNew, CreateFails
<1> QED
  BY <1>1, <1>3, <1>4, <1>5, <1>6, <1>7, <1>8, <1>9, <1>10, <1>11, <1>12
     DEF Next, Step, Crash, Panic

\* A document is itself with nothing added.
LEMMA GrownNothing ==
  ASSUME NEW d \in Doc, NEW r \in Root
  PROVE  Grown(d, d, r, 0)
<1>1. Len(d[r]) \in Nat
  BY DEF Doc
<1> QED
  BY <1>1 DEF Grown

\* One round of Record's loop that appends: the name is new and there is room.
LEMMA GrownAppend ==
  ASSUME NEW base \in Doc, NEW d \in Doc, NEW r \in Root, NEW k \in Nat, Grown(d, base, r, k),
         NEW n \in Name, n \in Valid, Len(d[r]) < LearnMax, n \notin Elements(d[r])
  PROVE  Grown([d EXCEPT ![r] = Append(@, n)], base, r, k + 1)
<1> DEFINE e == [d EXCEPT ![r] = Append(@, n)]
<1>1. d[r] \in Seq(Name) /\ base[r] \in Seq(Name) /\ LearnMax \in Nat
  BY StoreAssumption DEF Doc
<1>2. /\ e[r] = Append(d[r], n) /\ Len(e[r]) = Len(d[r]) + 1 /\ e[r][Len(d[r]) + 1] = n
      /\ \A i \in 1..Len(d[r]) : e[r][i] = d[r][i]
  BY <1>1 DEF Doc
<1>3. \A q \in Root : q # r => e[q] = base[q]
  BY DEF Grown, Doc
<1>4. Len(e[r]) = Len(base[r]) + (k + 1) /\ Len(d[r]) >= Len(base[r]) /\ Len(d[r]) \in Nat
      /\ Len(base[r]) \in Nat
  <2>1. Len(d[r]) = Len(base[r]) + k
    BY DEF Grown
  <2>2. Len(d[r]) \in Nat /\ Len(base[r]) \in Nat
    BY <1>1
  <2>3. Len(e[r]) = Len(d[r]) + 1
    BY <1>2
  <2> HIDE DEF e
  <2> QED
    <3>1. \A x, y, z \in Nat : x = y + k /\ z = x + 1 => z = y + (k + 1) /\ x >= y
      OBVIOUS
    <3>2. Len(e[r]) \in Nat
      BY <2>2, <2>3
    <3> QED
      BY <2>1, <2>2, <2>3, <3>1, <3>2
<1>5. \A i \in 1..Len(base[r]) : e[r][i] = base[r][i]
  BY <1>2, <1>4 DEF Grown
<1>6. \A i \in 1..Len(d[r]) : d[r][i] # n
  BY <1>1 DEF Elements
<1>7. ASSUME NEW j \in 1..Len(e[r]), j > Len(base[r])
      PROVE  e[r][j] \in Valid /\ \A i \in 1..Len(e[r]) : i < j => e[r][i] # e[r][j]
  <2>1. CASE j = Len(d[r]) + 1
    BY <1>2, <1>4, <1>6, <2>1
  <2>2. CASE j # Len(d[r]) + 1
    <3>1. j \in 1..Len(d[r])
      BY <1>2, <1>4, <2>2
    <3>2. d[r][j] \in Valid /\ \A i \in 1..Len(d[r]) : i < j => d[r][i] # d[r][j]
      BY <1>7, <3>1 DEF Grown
    <3> QED
      BY <1>2, <1>4, <3>1, <3>2
  <2> QED
    BY <2>1, <2>2
<1>8. Len(e[r]) <= LearnMax
  BY <1>1, <1>2, <1>4
<1> QED
  BY <1>3, <1>4, <1>5, <1>7, <1>8 DEF Grown

\* What a merge leaves alone, and what it adds.
LEMMA GrownElements ==
  ASSUME NEW base \in Doc, NEW d \in Doc, NEW r \in Root, NEW k \in Nat, Grown(d, base, r, k)
  PROVE  /\ \A q \in Root : Elements(base[q]) \subseteq Elements(d[q])
         /\ k = 0 => d[r] = base[r]
         /\ k > 0 => \E names \in (SUBSET Valid) \ {{}} : Elements(d[r]) = Elements(base[r]) \cup names
<1>1. d[r] \in Seq(Name) /\ base[r] \in Seq(Name)
  BY DEF Doc
<1>2. Len(d[r]) \in Nat /\ Len(base[r]) \in Nat /\ Len(d[r]) = Len(base[r]) + k
  BY <1>1 DEF Grown
<1>3. DOMAIN d[r] = 1..Len(d[r]) /\ DOMAIN base[r] = 1..Len(base[r])
  BY <1>1
<1>4. \A i \in 1..Len(base[r]) : i \in 1..Len(d[r]) /\ d[r][i] = base[r][i]
  BY <1>2 DEF Grown
<1>5. Elements(base[r]) \subseteq Elements(d[r])
  BY <1>3, <1>4 DEF Elements
<1>6. \A q \in Root : Elements(base[q]) \subseteq Elements(d[q])
  BY <1>5 DEF Grown
<1>7. k = 0 => d[r] = base[r]
  <2> SUFFICES ASSUME k = 0 PROVE d[r] = base[r]
    OBVIOUS
  <2>1. Len(d[r]) = Len(base[r])
    BY <1>2
  <2> QED
    BY <1>1, <1>4, <2>1, SeqEqual
<1>8. ASSUME k > 0
      PROVE  \E names \in (SUBSET Valid) \ {{}} : Elements(d[r]) = Elements(base[r]) \cup names
  <2> DEFINE new == {j \in 1..Len(d[r]) : j > Len(base[r])}
             names == {d[r][j] : j \in new}
  <2>1. names \subseteq Valid
    BY DEF Grown
  <2>2. Len(d[r]) \in new
    BY <1>2, <1>8
  <2>3. names # {}
    BY <2>2
  <2>4. \A j \in 1..Len(d[r]) : j \in new \/ j \in 1..Len(base[r])
    BY <1>2
  <2>5. Elements(d[r]) \subseteq Elements(base[r]) \cup names
    BY <1>3, <1>4, <2>4 DEF Elements
  <2>6. names \subseteq Elements(d[r])
    BY <1>3 DEF Elements
  <2>7. Elements(d[r]) = Elements(base[r]) \cup names
    BY <1>5, <2>5, <2>6
  <2>8. names \in (SUBSET Valid) \ {{}}
    BY <2>1, <2>3
  <2> HIDE DEF names
  <2> QED
    BY <2>7, <2>8
<1> QED
  BY <1>6, <1>7, <1>8

\* A goroutine nobody disturbs keeps its copy of the file as good as it was.
LEMMA CopyKept ==
  ASSUME NEW u \in Thread, CopyOf(u), file' = file, pc'[u] = pc[u], doc'[u] = doc[u],
         blind'[u] = blind[u], req'[u] = req[u], added'[u] = added[u]
  PROVE  CopyOf(u)'
<1>1. Base(u)' = Base(u)
  BY DEF Base, View
<1> QED
  BY <1>1 DEF CopyOf, Grown

\* The goroutines outside the store have no copy.
LEMMA CopyOutside ==
  ASSUME NEW u \in Thread, pc'[u] \notin Merging
  PROVE  CopyOf(u)'
  BY DEF CopyOf

\* Between read() and Rename, the copy in Record is the file and what was merged into it.
LEMMA CopyStep ==
  ASSUME Inv, [Next]_vars
  PROVE  CopyGrown'
<1>0. OneInside /\ CopyGrown /\ TypeOK /\ View \in Doc /\ \A t \in Thread : CopyOf(t)
  BY ViewIsDoc DEF Inv, CopyGrown
<1> SUFFICES ASSUME NEW u \in Thread PROVE CopyOf(u)'
  BY DEF CopyGrown
<1>a. ASSUME NEW t \in Thread, NEW s, Answer(t, s), UNCHANGED <<file, req>>,
             u # t => blind'[u] = blind[u]
      PROVE  CopyOf(u)'
  <2>1. CASE u = t
    <3>1. pc'[u] = "done"
      BY <1>0, <1>a, <2>1 DEF Answer, Goto, TypeOK
    <3> QED
      BY <3>1, CopyOutside DEF Merging
  <2>2. CASE u # t
    <3>1. pc'[u] = pc[u] /\ doc'[u] = doc[u] /\ added'[u] = added[u]
      BY <1>0, <1>a, <2>2 DEF Answer, Goto, TypeOK
    <3> QED
      BY <1>0, <1>a, <2>2, <3>1, CopyKept
  <2> QED
    BY <2>1, <2>2
<1>1. ASSUME NEW t \in Thread,
             RefuseMalformed(t) \/ SeeCancelled(t) \/ NothingParsed(t) \/ NothingNew(t)
             \/ CreateFails(t) \/ PersistFails(t)
      PROVE  CopyOf(u)'
  <2>1. UNCHANGED <<file, req, blind>> /\ \E s : Answer(t, s)
    BY <1>1 DEF RefuseMalformed, SeeCancelled, NothingParsed, NothingNew, CreateFails, PersistFails
  <2> QED
    BY <1>a, <2>1
<1>2. ASSUME NEW t \in Thread, LoadRead(t) PROVE CopyOf(u)'
  <2>1. u # t => blind'[u] = blind[u]
    BY <1>0, <1>2 DEF LoadRead, TypeOK
  <2> QED
    BY <1>2, <1>a, <2>1 DEF LoadRead
<1>3. ASSUME NEW t \in Thread, Rename(t) PROVE CopyOf(u)'
  <2>1. pc'[u] \notin Merging
    <3>1. u # t => pc[u] \notin Holding
      BY <1>0, <1>3 DEF Rename, OneInside, Holding
    <3> QED
      BY <1>0, <1>3, <3>1 DEF Rename, Answer, Goto, TypeOK, Merging, Holding
  <2> QED
    BY <2>1, CopyOutside
<1>b. ASSUME NEW t \in Thread, NEW l, Goto(t, l), UNCHANGED file, l \notin Merging,
             u # t => /\ doc'[u] = doc[u] /\ blind'[u] = blind[u]
                      /\ req'[u] = req[u] /\ added'[u] = added[u]
      PROVE  CopyOf(u)'
  <2>1. CASE u = t
    <3>1. pc'[u] = l
      BY <1>0, <1>b, <2>1 DEF Goto, TypeOK
    <3> QED
      BY <1>b, <3>1, CopyOutside
  <2>2. CASE u # t
    <3>1. pc'[u] = pc[u]
      BY <1>0, <1>b, <2>2 DEF Goto, TypeOK
    <3> QED
      BY <1>0, <1>b, <2>2, <3>1, CopyKept
  <2> QED
    BY <2>1, <2>2
<1>4. ASSUME NEW t \in Thread, CallStore(t) \/ Acquire(t) PROVE CopyOf(u)'
  BY <1>4, <1>b DEF CallStore, Acquire, Merging, localVars, recordVars
<1>5. ASSUME NEW t \in Thread, Finish(t) \/ \E q \in Requests : Begin(t, q) PROVE CopyOf(u)'
  <2>1. u # t => req'[u] = req[u] /\ blind'[u] = blind[u]
    BY <1>0, <1>5 DEF Finish, Begin, TypeOK, localVars
  <2> QED
    BY <1>5, <1>b, <2>1 DEF Finish, Begin, Merging, localVars, recordVars
<1>6. ASSUME NEW t \in Thread, RecordRead(t) PROVE CopyOf(u)'
  <2>1. PICK o \in ReadOutcomes :
          doc' = [doc EXCEPT ![t] = o.doc] /\ blind' = [blind EXCEPT ![t] = o.blind]
    BY <1>6 DEF RecordRead
  <2>2. CASE u = t
    <3>1. /\ pc'[t] = "merge" /\ added'[t] = 0 /\ req'[t] = req[t] /\ file' = file
          /\ doc'[t] = o.doc /\ blind'[t] = o.blind
      BY <1>0, <1>6, <2>1 DEF RecordRead, Goto, TypeOK
    <3>2. o.doc \in Doc /\ o.doc = Base(t)'
      BY <1>0, <3>1, OutcomeShape DEF Base, View
    <3>3. req[t].root \in Root
      BY <1>0 DEF TypeOK, Request
    <3>4. Grown(o.doc, o.doc, req[t].root, 0)
      BY <3>2, <3>3, GrownNothing
    <3>5. Grown(doc[t], Base(t), req[t].root, added[t])'
      <4>1. Grown(doc'[t], Base(t)', req'[t].root, added'[t])
        BY <3>1, <3>2, <3>4
      <4> QED
        BY <4>1 DEF Grown
    <3> QED
      BY <2>2, <3>1, <3>5 DEF CopyOf
  <2>3. CASE u # t
    <3>1. /\ pc'[u] = pc[u] /\ added'[u] = added[u] /\ req'[u] = req[u] /\ file' = file
          /\ doc'[u] = doc[u] /\ blind'[u] = blind[u]
      BY <1>0, <1>6, <2>1, <2>3 DEF RecordRead, Goto, TypeOK
    <3> QED
      BY <1>0, <3>1, CopyKept
  <2> QED
    BY <2>2, <2>3
<1>7. ASSUME NEW t \in Thread, MergeName(t) PROVE CopyOf(u)'
  <2>1. CASE u = t
    <3> DEFINE r == req[t].root
               n == Head(todo[t])
    <3>1. r \in Root /\ doc[t] \in Doc /\ added[t] \in Nat /\ todo[t] \in Seq(Name) /\ todo[t] # <<>>
      BY <1>0, <1>7 DEF MergeName, TypeOK, Request
    <3>2. n \in Name /\ n \in Valid /\ n \notin Elements(doc[t][r]) /\ ~(Len(doc[t][r]) >= LearnMax)
      BY <1>7, <3>1 DEF MergeName, Existing, Full
    <3>3. Len(doc[t][r]) < LearnMax
      BY <3>1, <3>2, StoreAssumption DEF Doc
    <3>4. Base(t) \in Doc
      BY <1>0, EmptyIsDoc DEF Base
    <3>5. Grown(doc[t], Base(t), r, added[t])
      BY <1>0, <1>7 DEF MergeName, CopyOf, Merging
    <3>6. Grown([doc[t] EXCEPT ![r] = Append(@, n)], Base(t), r, added[t] + 1)
      BY <3>1, <3>2, <3>3, <3>4, <3>5, GrownAppend
    <3>7. /\ pc'[t] = "merge" /\ added'[t] = added[t] + 1 /\ req'[t] = req[t] /\ file' = file
          /\ doc'[t] = [doc[t] EXCEPT ![r] = Append(@, n)] /\ blind'[t] = blind[t]
      BY <1>0, <1>7 DEF MergeName, TypeOK
    <3>8. Base(t)' = Base(t)
      BY <3>7 DEF Base, View
    <3>9. Grown(doc'[t], Base(t)', req'[t].root, added'[t])
      BY <3>6, <3>7, <3>8
    <3>10. Grown(doc[t], Base(t), req[t].root, added[t])'
      BY <3>9 DEF Grown
    <3> QED
      BY <2>1, <3>7, <3>10 DEF CopyOf
  <2>2. CASE u # t
    <3>1. /\ pc'[u] = pc[u] /\ added'[u] = added[u] /\ req'[u] = req[u] /\ file' = file
          /\ doc'[u] = doc[u] /\ blind'[u] = blind[u]
      BY <1>0, <1>7, <2>2 DEF MergeName, TypeOK
    <3> QED
      BY <1>0, <3>1, CopyKept
  <2> QED
    BY <2>1, <2>2
<1>c. ASSUME NEW t \in Thread, NEW l, pc[t] \in Merging, added[t] > 0, Goto(t, l),
             UNCHANGED <<file, req, doc, blind, added>>
      PROVE  CopyOf(u)'
  <2>1. CASE u = t
    <3>1. Grown(doc[t], Base(t), req[t].root, added[t])
      BY <1>0, <1>c DEF CopyOf
    <3>2. Base(t)' = Base(t)
      BY <1>c DEF Base, View
    <3>3. Grown(doc[t], Base(t), req[t].root, added[t])'
      BY <1>c, <3>1, <3>2 DEF Grown
    <3> QED
      BY <1>c, <2>1, <3>3 DEF CopyOf
  <2>2. CASE u # t
    <3>1. pc'[u] = pc[u]
      BY <1>0, <1>c, <2>2 DEF Goto, TypeOK
    <3> QED
      BY <1>0, <1>c, <2>2, <3>1, CopyKept
  <2> QED
    BY <2>1, <2>2
<1>8. ASSUME NEW t \in Thread, MergeDone(t) \/ CreateTemp(t) \/ WriteTemp(t) \/ CloseTemp(t)
      PROVE  CopyOf(u)'
  <2>1. pc[t] \in Merging /\ added[t] > 0
    BY <1>0, <1>8 DEF MergeDone, CreateTemp, WriteTemp, CloseTemp, Merging, CopyOf
  <2> QED
    BY <1>8, <1>c, <2>1 DEF MergeDone, CreateTemp, WriteTemp, CloseTemp, localVars, recordVars
<1>9. ASSUME NEW t \in Thread, SkipName(t) PROVE CopyOf(u)'
  BY <1>0, <1>9, CopyKept DEF SkipName
<1>10. CASE Restart
  <2>1. pc'[u] = "idle"
    BY <1>10, FreshTypes DEF Restart
  <2> QED
    BY <2>1, CopyOutside DEF Merging
<1>11. CASE UNCHANGED vars
  BY <1>0, <1>11, CopyKept DEF vars
<1> QED
  BY <1>1, <1>2, <1>3, <1>4, <1>5, <1>6, <1>7, <1>8, <1>9, <1>10, <1>11 DEF Next, Step, Crash, Panic

\* After Rename the file holds the copy that was written.
LEMMA RenameView ==
  ASSUME Inv, NEW t \in Thread, Rename(t)
  PROVE  /\ View' = doc[t] /\ doc[t] \in Doc /\ View \in Doc /\ Base(t) \in Doc
         /\ req[t].root \in Root /\ added[t] \in Nat /\ added[t] > 0
         /\ Grown(doc[t], Base(t), req[t].root, added[t])
<1>0. TypeOK /\ OwnTemp /\ CopyOf(t)
  BY DEF Inv, CopyGrown
<1>1. doc[t] \in Doc /\ req[t].root \in Root /\ added[t] \in Nat
  BY <1>0 DEF TypeOK, Request
<1>2. file' = doc[t]
  BY <1>0 DEF Rename, OwnTemp
<1>3. View' = doc[t]
  BY <1>1, <1>2 DEF View
<1>4. View \in Doc /\ Base(t) \in Doc
  BY <1>0, ViewIsDoc, EmptyIsDoc DEF Base
<1> QED
  BY <1>0, <1>1, <1>3, <1>4 DEF Rename, CopyOf, Merging

\* Only Rename changes what the file holds.
LEMMA OnlyRenameWrites ==
  ASSUME [Next]_vars, ~\E t \in Thread : Rename(t)
  PROVE  file' = file
<1>1. \A t \in Thread : Step(t) => file' = file
  BY DEF Step, RefuseMalformed, SeeCancelled, NothingParsed, CallStore, Acquire, LoadRead,
         RecordRead, MergeName, SkipName, NothingNew, MergeDone, Panic, Restart, CreateTemp,
         CreateFails, WriteTemp, CloseTemp, PersistFails, Finish
<1>2. \A t \in Thread, q \in Requests : Begin(t, q) => file' = file
  BY DEF Begin
<1>3. Crash => file' = file
  BY DEF Crash, Restart
<1> QED
  BY <1>1, <1>2, <1>3 DEF Next, vars

\* Only the two returns of Record that answer OK report anything.
LEMMA OnlyRecordReports ==
  ASSUME [Next]_vars, ~\E t \in Thread : Rename(t) \/ NothingNew(t)
  PROVE  acked' = acked
<1>1. \A t \in Thread : Step(t) => acked' = acked
  BY DEF Step, RefuseMalformed, SeeCancelled, NothingParsed, CallStore, Acquire, LoadRead,
         RecordRead, MergeName, SkipName, MergeDone, Panic, Restart, CreateTemp,
         CreateFails, WriteTemp, CloseTemp, PersistFails, Finish
<1>2. \A t \in Thread, q \in Requests : Begin(t, q) => acked' = acked
  BY DEF Begin
<1>3. Crash => acked' = acked
  BY DEF Crash, Restart
<1> QED
  BY <1>1, <1>2, <1>3 DEF Next, vars

\* What observers were told of stays in the file, within the cap.
LEMMA ReportedStep ==
  ASSUME Inv, [Next]_vars
  PROVE  ReportedIsPersisted' /\ ReportedWithinCap'
<1>0. TypeOK /\ ReportedIsPersisted /\ ReportedWithinCap /\ View \in Doc /\ LearnMax \in Nat
  BY ViewIsDoc, StoreAssumption DEF Inv
<1>1. ASSUME NEW t \in Thread, Rename(t) PROVE ReportedIsPersisted' /\ ReportedWithinCap'
  <2> DEFINE d == doc[t]
             root == req[t].root
  <2>1. /\ View' = d /\ d \in Doc /\ Base(t) \in Doc /\ root \in Root
        /\ added[t] \in Nat /\ added[t] > 0 /\ Grown(d, Base(t), root, added[t])
    BY <1>1, RenameView
  <2>2. \A q \in Root : Elements(Base(t)[q]) \subseteq Elements(d[q])
    BY <2>1, GrownElements
  <2>3. Told(t) \subseteq Elements(d[root])
    BY DEF Told, Existing
  <2>4. \A r \in Root : acked'[r] = (IF blind[t] THEN {} ELSE acked[r])
                                    \cup (IF r = root THEN Told(t) ELSE {})
    BY <1>1 DEF Rename
  <2>5. ~blind[t] => Base(t) = View
    BY DEF Base
  <2>6. ASSUME NEW r \in Root PROVE acked'[r] \subseteq Elements(d[r])
    <3>1. ~blind[t] => acked[r] \subseteq Elements(d[r])
      BY <1>0, <2>2, <2>5 DEF ReportedIsPersisted
    <3> HIDE DEF d, root
    <3> QED
      BY <2>3, <2>4, <3>1
  <2>7. ASSUME NEW r \in Root, acked'[r] # {} PROVE Len(d[r]) <= LearnMax
    <3>1. CASE r = root
      BY <2>1, <3>1 DEF Grown
    <3>2. CASE r # root
      <4>1. ~blind[t] /\ acked[r] # {}
        BY <2>4, <2>7, <3>2
      <4>2. d[r] = View[r]
        BY <2>1, <2>5, <3>2, <4>1 DEF Grown
      <4> QED
        BY <1>0, <4>1, <4>2 DEF ReportedWithinCap
    <3> QED
      BY <3>1, <3>2
  <2> QED
    BY <2>1, <2>6, <2>7 DEF ReportedIsPersisted, ReportedWithinCap
<1>2. ASSUME NEW t \in Thread, NothingNew(t) PROVE ReportedIsPersisted' /\ ReportedWithinCap'
  <2> DEFINE root == req[t].root
  <2>1. View' = View
    BY <1>2 DEF NothingNew, View
  <2>2. root \in Root /\ doc[t] \in Doc /\ added[t] = 0 /\ Base(t) \in Doc
    BY <1>0, <1>2, EmptyIsDoc DEF NothingNew, TypeOK, Request, Base
  <2>3. Grown(doc[t], Base(t), root, 0)
    BY <1>2, <2>2 DEF NothingNew, Inv, CopyGrown, CopyOf, Merging
  <2>4. doc[t][root] = Base(t)[root]
    BY <2>2, <2>3, GrownElements
  <2>5. \A r \in Root : acked'[r] = acked[r] \cup (IF r = root THEN Told(t) ELSE {})
    BY <1>0, <1>2 DEF NothingNew, TypeOK
  <2>6. Told(t) \subseteq Elements(Base(t)[root])
    BY <2>4 DEF Told, Existing
  <2>7. Told(t) # {} => Len(Base(t)[root]) <= LearnMax
    <3>1. Base(t)[root] \in Seq(Name)
      BY <2>2 DEF Doc
    <3> QED
      BY <1>0, <2>4, <3>1 DEF Told, Existing
  <2>8. Base(t) # View => Elements(Base(t)[root]) = {}
    BY <2>2 DEF Base, Empty, Elements
  <2>9. ASSUME NEW r \in Root
        PROVE  acked'[r] \subseteq Elements(View[r]) /\ (acked'[r] # {} => Len(View[r]) <= LearnMax)
    <3>1. acked[r] \subseteq Elements(View[r]) /\ (acked[r] # {} => Len(View[r]) <= LearnMax)
      BY <1>0 DEF ReportedIsPersisted, ReportedWithinCap
    <3>2. CASE Told(t) = {}
      BY <2>5, <3>1, <3>2
    <3>3. CASE Told(t) # {}
      <4>1. Base(t) = View
        BY <2>6, <2>8, <3>3
      <4>2. Told(t) \subseteq Elements(View[root]) /\ Len(View[root]) <= LearnMax
        BY <2>6, <2>7, <3>3, <4>1
      <4> QED
        BY <2>5, <3>1, <4>2
    <3> QED
      BY <3>2, <3>3
  <2> QED
    BY <2>1, <2>9 DEF ReportedIsPersisted, ReportedWithinCap
<1>3. CASE ~\E t \in Thread : Rename(t) \/ NothingNew(t)
  <2>1. file' = file /\ acked' = acked
    BY <1>3, OnlyRenameWrites, OnlyRecordReports
  <2> QED
    BY <1>0, <2>1 DEF ReportedIsPersisted, ReportedWithinCap, View
<1> QED
  BY <1>1, <1>2, <1>3

\* Inv is inductive.
LEMMA InvStep ==
  ASSUME Inv, [Next]_vars
  PROVE  Inv'
  BY TypeStep, InsideStep, TempStep, CopyStep, ReportedStep DEF Inv

\* Inv holds in every reachable state.
LEMMA InvAlways == Spec => []Inv
  BY InitInv, InvStep, PTL DEF Spec

\* Load's own cap drops nothing of a list that is within it.
LEMMA LoadReturnsAll ==
  ASSUME NEW names \in Seq(Name), Len(names) <= LearnMax
  PROVE  Elements(names) \cap Valid \subseteq LoadResult(names)
<1>1. ASSUME NEW j \in DOMAIN names PROVE ValidUpTo(names, j) <= LearnMax
  <2> DEFINE S == {i \in 1..j : names[i] \in Valid}
  <2>1. j \in Nat /\ j <= Len(names) /\ Len(names) \in Nat /\ LearnMax \in Nat
    BY StoreAssumption
  <2>2. IsFiniteSet(1..j) /\ Cardinality(1..j) = j
    BY <2>1, FS_Interval
  <2>3. Cardinality(S) \in Nat /\ Cardinality(S) <= j
    BY <2>2, FS_Subset, FS_CardinalityType
  <2> HIDE DEF S
  <2>4. Cardinality(S) <= LearnMax
    BY <2>1, <2>3
  <2> QED
    BY <2>4 DEF S, ValidUpTo
<1> QED
  BY <1>1 DEF Elements, LoadResult

\* The types are kept; in particular the sidecar is a whole document or what was found at the
\* start, never the torn file a crash can leave behind (Store.Record, sandbox.go).
THEOREM TypeCorrect == Spec => []TypeOK
<1>1. Inv => TypeOK
  BY DEF Inv
<1> QED
  BY InvAlways, <1>1, PTL

\* A name Record reported stays in the sidecar whatever handlers, failures and crashes do, until
\* a write that could not read the sidecar starts it over.
THEOREM ReportedIsPersistedAlways == Spec => []ReportedIsPersisted
<1>1. Inv => ReportedIsPersisted
  BY DEF Inv
<1> QED
  BY InvAlways, <1>1, PTL

\* A Load that could read the file returns every name Record reported for the project.
THEOREM LoadReturnsReportedAlways == Spec => LoadReturnsReported
<1>1. ASSUME Inv, NEW t \in Thread, LoadRead(t), ~blind'[t]
      PROVE  acked[req[t].root] \subseteq got'[t]
  <2> DEFINE root == req[t].root
  <2>1. TypeOK /\ ReportedIsPersisted /\ ReportedWithinCap /\ View \in Doc /\ root \in Root
    BY <1>1, ViewIsDoc DEF Inv, TypeOK, Request
  <2>2. PICK o \in ReadOutcomes :
          /\ got' = [got EXCEPT ![t] = LoadResult(o.doc[req[t].root])]
          /\ blind' = [blind EXCEPT ![t] = o.blind]
    BY <1>1 DEF LoadRead
  <2>3. got'[t] = LoadResult(o.doc[root]) /\ blind'[t] = o.blind
    BY <2>1, <2>2 DEF TypeOK
  <2>4. o.doc = View
    BY <1>1, <2>1, <2>3, OutcomeShape
  <2>5. View[root] \in Seq(Name) /\ acked[root] \subseteq Elements(View[root]) \cap Valid
    BY <2>1 DEF Doc, ReportedIsPersisted, TypeOK
  <2>6. CASE acked[root] = {}
    BY <2>6
  <2>7. CASE acked[root] # {}
    <3>1. Len(View[root]) <= LearnMax
      BY <2>1, <2>7 DEF ReportedWithinCap
    <3>2. Elements(View[root]) \cap Valid \subseteq LoadResult(View[root])
      BY <2>5, <3>1, LoadReturnsAll
    <3> QED
      BY <2>3, <2>4, <2>5, <3>2
  <2> QED
    BY <2>6, <2>7
<1>2. Inv => [\A t \in Thread : LoadRead(t) /\ ~blind'[t] => acked[req[t].root] \subseteq got'[t]]_vars
  BY <1>1
<1> QED
  BY InvAlways, <1>2, PTL DEF LoadReturnsReported

\* Every write of the sidecar appends valid names, each new, behind the list of one project and
\* never past LearnMax, to what the sidecar held when the write began; it starts from nothing
\* only after a read() that gave up (Store.Record, sandbox.go).
THEOREM GrowsSoundlyAlways == Spec => GrowsSoundly
<1> DEFINE Blindly == \E t \in Thread : pc[t] = "rename" /\ blind[t]
           Sound == \E r \in Root : \/ Appends(View', View, r)
                                    \/ Appends(View', Empty, r) /\ Blindly
<1>1. ASSUME Inv, NEW t \in Thread, Rename(t) PROVE Sound
  <2> DEFINE d == doc[t]
             root == req[t].root
  <2>1. /\ View' = d /\ d \in Doc /\ Base(t) \in Doc /\ root \in Root
        /\ added[t] \in Nat /\ added[t] > 0 /\ Grown(d, Base(t), root, added[t])
    BY <1>1, RenameView
  <2>2. d[root] \in Seq(Name) /\ Base(t)[root] \in Seq(Name)
    BY <2>1 DEF Doc
  <2>3. Appends(d, Base(t), root)
    <3> DEFINE old == Len(Base(t)[root])
               len == Len(d[root])
    <3>1. old \in Nat /\ len \in Nat
      BY <2>2
    <3>2. len = old + added[t] /\ len <= LearnMax /\ \A q \in Root \ {root} : d[q] = Base(t)[q]
      BY <2>1 DEF Grown
    <3>3. \A i \in 1..old : d[root][i] = Base(t)[root][i]
      BY <2>1 DEF Grown
    <3>4. ASSUME NEW j \in (old + 1)..len
          PROVE  d[root][j] \in Valid /\ \A i \in 1..(j - 1) : d[root][i] # d[root][j]
      <4>1. j \in 1..len /\ j > old /\ \A i \in 1..(j - 1) : i \in 1..len /\ i < j
        <5> HIDE DEF old, len
        <5> QED
          BY <3>1, <3>4
      <4> QED
        BY <2>1, <4>1 DEF Grown
    <3>5. old < len
      <4> HIDE DEF old, len
      <4> QED
        BY <2>1, <3>1, <3>2
    <3> QED
      BY <3>2, <3>3, <3>4, <3>5 DEF Appends
  <2>4. Appends(View', Base(t), root)
    BY <2>1, <2>3
  <2>5. CASE blind[t]
    <3>1. Base(t) = Empty /\ Blindly
      BY <1>1, <2>5 DEF Base, Rename
    <3> QED
      BY <2>1, <2>4, <3>1
  <2>6. CASE ~blind[t]
    <3>1. Base(t) = View
      BY <2>6 DEF Base
    <3> QED
      BY <2>1, <2>4, <3>1
  <2> QED
    BY <2>5, <2>6
<1>2. ASSUME Inv, [Next]_vars, file' # file PROVE Sound
  <2>1. PICK t \in Thread : Rename(t)
    BY <1>2, OnlyRenameWrites
  <2> QED
    BY <1>1, <1>2, <2>1
<1>3. Inv /\ [Next]_vars => [file' # file => Sound]_vars
  BY <1>2
<1> QED
  BY InvAlways, <1>3, PTL DEF Spec, GrowsSoundly

\* A temporary file nobody owns comes only from the end of the process inside Record, or from a
\* Record that failed and answers so.
THEOREM OnlyFailureLeavesTempsAlways == Spec => OnlyFailureLeavesTemps
<1> DEFINE Excused(x) == \/ \E t \in Thread : temp[t] = x /\ reply'[t] = "Internal"
                         \/ \A t \in Thread : pc'[t] = "idle"
<1>1. ASSUME Inv, [Next]_vars, NEW x \in Orphans' \ Orphans PROVE Excused(x)
  <2>0. TypeOK /\ OwnTemp /\ NoFile \notin Temp
    BY <1>1, StoreAssumption DEF Inv
  <2>1. /\ x \in Temp /\ temps'[x] # NoFile /\ \A u \in Thread : temp'[u] # x
        /\ temps[x] = NoFile \/ \E u \in Thread : temp[u] = x
    BY <1>1 DEF Orphans
  <2>2. CASE Restart
    BY <2>2, FreshTypes DEF Restart
  <2>3. ~(UNCHANGED <<temps, temp>>)
    BY <2>1
  <2>4. ASSUME NEW t \in Thread, NEW s, Answer(t, s), UNCHANGED temps, pc[t] \notin Filing
        PROVE  FALSE
    <3>1. temp' = temp
      BY <2>0, <2>4 DEF Answer, OwnTemp, TypeOK
    <3> QED
      BY <2>3, <2>4, <3>1
  <2>5. ASSUME NEW t \in Thread,
               RefuseMalformed(t) \/ SeeCancelled(t) \/ NothingParsed(t) \/ LoadRead(t)
               \/ NothingNew(t) \/ CreateFails(t)
        PROVE  FALSE
    BY <2>4, <2>5 DEF RefuseMalformed, SeeCancelled, NothingParsed, LoadRead, NothingNew,
                      CreateFails, Filing
  <2>6. ASSUME NEW t \in Thread,
               CallStore(t) \/ Acquire(t) \/ RecordRead(t) \/ MergeName(t) \/ SkipName(t)
               \/ MergeDone(t) \/ CloseTemp(t) \/ Finish(t) \/ \E q \in Requests : Begin(t, q)
        PROVE  FALSE
    BY <2>3, <2>6 DEF CallStore, Acquire, RecordRead, MergeName, SkipName, MergeDone, CloseTemp,
                      Finish, Begin, localVars, recordVars
  <2>7. ASSUME NEW t \in Thread, CreateTemp(t) PROVE FALSE
    <3>1. PICK y \in Temp : /\ temps[y] = NoFile
                            /\ temps' = [temps EXCEPT ![y] = Torn]
                            /\ temp' = [temp EXCEPT ![t] = y]
      BY <2>7 DEF CreateTemp
    <3>2. temp'[t] = y /\ temp[t] = NoFile /\ \A u \in Thread : u # t => temp'[u] = temp[u]
      BY <2>0, <2>7, <3>1 DEF TypeOK, OwnTemp, CreateTemp, Filing
    <3>3. x # y /\ temps'[x] = temps[x]
      BY <2>0, <2>1, <3>1, <3>2 DEF TypeOK
    <3> QED
      BY <2>0, <2>1, <3>2, <3>3
  <2>8. ASSUME NEW t \in Thread, WriteTemp(t) PROVE FALSE
    <3>1. temp' = temp /\ x # temp[t]
      BY <2>1, <2>8 DEF WriteTemp, localVars, recordVars
    <3>2. temps'[x] = temps[x]
      BY <2>0, <2>1, <2>8, <3>1 DEF WriteTemp, TypeOK
    <3> QED
      BY <2>1, <3>1, <3>2
  <2>9. ASSUME NEW t \in Thread, PersistFails(t) \/ Rename(t), x # temp[t] PROVE FALSE
    <3>1. temps'[x] = temps[x]
      BY <2>0, <2>1, <2>9 DEF PersistFails, Rename, TypeOK
    <3>2. \A u \in Thread : u # t => temp'[u] = temp[u]
      BY <2>0, <2>9 DEF PersistFails, Rename, Answer, TypeOK
    <3> QED
      BY <2>1, <2>9, <3>1, <3>2
  <2>10. ASSUME NEW t \in Thread, Rename(t) PROVE FALSE
    <3>1. x = temp[t]
      BY <2>9, <2>10
    <3> QED
      BY <2>0, <2>1, <2>10, <3>1 DEF Rename, TypeOK
  <2>11. ASSUME NEW t \in Thread, PersistFails(t) PROVE Excused(x)
    <3>1. x = temp[t]
      BY <2>9, <2>11
    <3>2. reply'[t] = "Internal"
      BY <2>0, <2>11 DEF PersistFails, Answer, TypeOK
    <3> QED
      BY <3>1, <3>2
  <2>12. CASE UNCHANGED vars
    BY <2>3, <2>12 DEF vars
  <2> HIDE DEF Excused
  <2> QED
    BY <1>1, <2>2, <2>5, <2>6, <2>7, <2>8, <2>10, <2>11, <2>12 DEF Next, Step, Crash, Panic
<1>2. Inv /\ [Next]_vars => [\A x \in Orphans' \ Orphans : Excused(x)]_vars
  BY <1>1
<1> QED
  BY InvAlways, <1>2, PTL DEF Spec, OnlyFailureLeavesTemps

\* The store refines LearnedSet: to a reader of the file, each run of handlers, failures and
\* crashes is a sequence of writes that each add names to one project or start over.
THEOREM StoreRefinesLearnedSet == Spec => RefinesLearnedSet
<1> DEFINE L == [r \in Root |-> Elements(View[r]) \cap Valid]
<1>1. Init => Learned!Init
  BY DEF Learned!Init
<1>2. ASSUME Inv, NEW t \in Thread, Rename(t) PROVE Learned!Next
  <2> DEFINE d == doc[t]
             root == req[t].root
  <2>1. /\ View' = d /\ d \in Doc /\ View \in Doc /\ Base(t) \in Doc /\ root \in Root
        /\ added[t] \in Nat /\ added[t] > 0 /\ Grown(d, Base(t), root, added[t])
    BY <1>2, RenameView
  <2>a. added[t] > 0 => \E names \in (SUBSET Valid) \ {{}} :
                         Elements(d[root]) = Elements(Base(t)[root]) \cup names
    <3> HIDE DEF d, root
    <3> QED
      BY <2>1, GrownElements
  <2>2. PICK names \in (SUBSET Valid) \ {{}} : Elements(d[root]) = Elements(Base(t)[root]) \cup names
    BY <2>1, <2>a
  <2>3. L' = [r \in Root |-> Elements(d[r]) \cap Valid]
    BY <2>1
  <2>4. \A r \in Root : r # root => d[r] = Base(t)[r]
    BY <2>1 DEF Grown
  <2>5. CASE Base(t) = View
    <3>1. \A r \in Root : Elements(d[r]) \cap Valid = IF r = root THEN L[r] \cup names ELSE L[r]
      BY <2>2, <2>4, <2>5
    <3>2. L' = [L EXCEPT ![root] = @ \cup names]
      BY <2>1, <2>3, <3>1
    <3> QED
      BY <2>1, <2>2, <3>2 DEF Learned!Next, Learned!Learn
  <2>6. CASE Base(t) = Empty
    <3>1. \A r \in Root : Elements(Empty[r]) = {}
      BY DEF Empty, Elements
    <3>2. \A r \in Root : Elements(d[r]) \cap Valid = IF r = root THEN names ELSE {}
      BY <2>2, <2>4, <2>6, <3>1
    <3>3. L' = [q \in Root |-> IF q = root THEN names ELSE {}]
      BY <2>3, <3>2
    <3> QED
      BY <2>1, <2>2, <3>3 DEF Learned!Next, Learned!StartOver
  <2> QED
    BY <2>5, <2>6 DEF Base
<1>3. ASSUME Inv, [Next]_vars PROVE [Learned!Next]_L
  <2>1. CASE \E t \in Thread : Rename(t)
    BY <1>2, <1>3, <2>1
  <2>2. CASE ~\E t \in Thread : Rename(t)
    <3>1. View' = View
      BY <1>3, <2>2, OnlyRenameWrites DEF View
    <3> QED
      BY <3>1
  <2> QED
    BY <2>1, <2>2
<1> QED
  BY InvAlways, <1>1, <1>3, PTL DEF Spec, RefinesLearnedSet, Learned!Spec

=============================================================================

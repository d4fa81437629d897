---------------------------- MODULE LearnedStore ----------------------------
(***************************************************************************)
(* The learned-toolchain store (Store in server-go/modules/sandbox/        *)
(* sandbox.go) under the handlers that use it (handleObserve, handleLoad   *)
(* in module.go).  The runtime runs each handler on a goroutine of its     *)
(* own, so several are inside the store at once; between two steps of one  *)
(* another may run, a file operation may fail, and the process may die.    *)
(*                                                                         *)
(* The JSON document is a function from project to the sequence of names   *)
(* stored for it; its size is counted in names.  The files are all that    *)
(* survives a crash.                                                       *)
(***************************************************************************)
EXTENDS Integers, Sequences, FiniteSets

CONSTANTS
  Thread,     \* handler goroutines
  Root,       \* projects, by git root
  Name,       \* strings that may stand in the file or in a command
  Valid,      \* the names packageValid accepts
  Requests,   \* the requests that may arrive
  InitFiles,  \* what may be on disk when the module first starts
  Temp,       \* names CreateTemp may choose; bounds the files left behind
  LearnMax,   \* LearnMax
  MaxStore,   \* maxStoreBytes, in names
  ReadErrors, \* whether Stat and ReadFile may fail on a file that is there
  Free,       \* nobody holds the mutex
  NoFile,     \* no such file
  Garbage,    \* a file that is empty or does not parse
  Null,       \* the JSON document null: it parses, into a nil map
  Torn        \* a temporary file that is not completely written

Doc     == [Root -> Seq(Name)]
Empty   == [r \in Root |-> <<>>]
Request == [op: {"observe", "load", "malformed"}, root: Root, names: Seq(Name)]
Status  == {"none", "OK", "InvalidRequest", "Cancelled", "Internal"}

\* Where a goroutine is; from "read" on it holds the mutex.
Holding == {"read", "merge", "create", "write", "close", "rename"}
Pc      == {"idle", "handle", "lock", "done"} \cup Holding

ASSUME StoreAssumption ==
  /\ Root # {} /\ Valid \subseteq Name
  /\ \A q \in Requests : q \in Request
  /\ \A f \in InitFiles : f \in Doc \cup {NoFile, Garbage, Null}
  /\ LearnMax \in Nat /\ MaxStore \in Nat /\ ReadErrors \in BOOLEAN
  /\ Free \notin Thread /\ NoFile \notin Temp
  /\ {NoFile, Garbage, Null, Torn} \cap Doc = {}
  /\ Cardinality({NoFile, Garbage, Null, Torn}) = 4

VARIABLES
  file,     \* the sidecar
  temps,    \* the temporary files
  mu,       \* the goroutine that holds Store.mu
  pc,       \* where each goroutine is
  req,      \* the request it serves
  doc,      \* its copy of the document, the names merged so far included
  nilDoc,   \* that copy is a nil map
  blind,    \* read() took a file that holds a document for an empty one
  todo,     \* names still to be merged
  added,    \* names new so far
  temp,     \* its temporary file
  got,      \* the names Load returns
  reply,    \* the status the goroutine answers with
  acked     \* history: names an observer was told are in the store

recordVars == <<doc, nilDoc, todo, added, temp>>
localVars == <<recordVars, blind, got>>
vars == <<file, temps, mu, pc, req, doc, nilDoc, blind, todo, added, temp, got, reply, acked>>

Idle == [op |-> "malformed", root |-> CHOOSE r \in Root : TRUE, names |-> <<>>]

\* A process that has just started: nobody is in the store.
Fresh ==
  [mu |-> Free, pc |-> [t \in Thread |-> "idle"], req |-> [t \in Thread |-> Idle],
   doc |-> [t \in Thread |-> Empty], flag |-> [t \in Thread |-> FALSE],
   todo |-> [t \in Thread |-> <<>>], added |-> [t \in Thread |-> 0],
   temp |-> [t \in Thread |-> NoFile], got |-> [t \in Thread |-> {}],
   reply |-> [t \in Thread |-> "none"]]

Init ==
  /\ file \in InitFiles
  /\ temps = [x \in Temp |-> NoFile]
  /\ mu = Free
  /\ pc = Fresh.pc /\ req = Fresh.req /\ doc = Fresh.doc
  /\ nilDoc = Fresh.flag /\ blind = Fresh.flag
  /\ todo = Fresh.todo /\ added = Fresh.added /\ temp = Fresh.temp
  /\ got = Fresh.got /\ reply = Fresh.reply
  /\ acked = [r \in Root |-> {}]

Elements(q) == {q[i] : i \in DOMAIN q}

\* The length of the encoded document, counted in names.
Size(d) == Cardinality(UNION {{r} \X DOMAIN d[r] : r \in Root})

Goto(t, label) == pc' = [pc EXCEPT ![t] = label]

\* The handler returns: Record's variables are gone, and a return from inside Record or
\* Load has unlocked the store.
Answer(t, status) ==
  /\ Goto(t, "done")
  /\ reply' = [reply EXCEPT ![t] = status]
  /\ mu' = IF mu = t THEN Free ELSE mu
  /\ doc' = [doc EXCEPT ![t] = Empty] /\ nilDoc' = [nilDoc EXCEPT ![t] = FALSE]
  /\ todo' = [todo EXCEPT ![t] = <<>>] /\ added' = [added EXCEPT ![t] = 0]
  /\ temp' = [temp EXCEPT ![t] = NoFile]

(***************************************************************************)
(* The handlers up to the store.                                           *)
(***************************************************************************)
Begin(t, q) ==
  /\ pc[t] = "idle"
  /\ Goto(t, "handle")
  /\ req' = [req EXCEPT ![t] = q]
  /\ UNCHANGED <<file, temps, mu, localVars, reply, acked>>

RefuseMalformed(t) ==
  /\ pc[t] = "handle" /\ req[t].op = "malformed"
  /\ Answer(t, "InvalidRequest")
  /\ UNCHANGED <<file, temps, req, blind, got, acked>>

\* The invocation's flag may have been raised by now.
SeeCancelled(t) ==
  /\ pc[t] = "handle" /\ req[t].op # "malformed"
  /\ Answer(t, "Cancelled")
  /\ UNCHANGED <<file, temps, req, blind, got, acked>>

NothingParsed(t) ==
  /\ pc[t] = "handle" /\ req[t].op = "observe" /\ req[t].names = <<>>
  /\ Answer(t, "OK")
  /\ UNCHANGED <<file, temps, req, blind, got, acked>>

CallStore(t) ==
  /\ pc[t] = "handle"
  /\ req[t].op \in {"load", "observe"} /\ (req[t].op = "observe" => req[t].names # <<>>)
  /\ Goto(t, "lock")
  /\ UNCHANGED <<file, temps, mu, req, localVars, reply, acked>>

\* Mutant: the store has no mutex.
AcquireAnyway(t) ==
  /\ pc[t] = "lock"
  /\ mu' = t
  /\ Goto(t, "read")
  /\ UNCHANGED <<file, temps, req, localVars, reply, acked>>

Acquire(t) ==
  /\ pc[t] = "lock" /\ mu = Free
  /\ mu' = t
  /\ Goto(t, "read")
  /\ UNCHANGED <<file, temps, req, localVars, reply, acked>>

(***************************************************************************)
(* read(): Stat or ReadFile may fail, the document may be too large; all   *)
(* of that counts as an empty store, like a file that does not parse.      *)
(***************************************************************************)
Oversized == file \in Doc /\ Size(file) > MaxStore

\* What read() may return: what the file holds, or nothing after giving up on it.
ReadOutcomes ==
  (IF Oversized THEN {}
   ELSE {[doc |-> IF file \in Doc THEN file ELSE Empty, nil |-> file = Null, blind |-> FALSE]})
  \cup
  (IF Oversized \/ (ReadErrors /\ file # NoFile)
   THEN {[doc |-> Empty, nil |-> FALSE, blind |-> file \in Doc]} ELSE {})

\* How many valid names a list has up to position i.
ValidUpTo(names, i) == Cardinality({j \in 1..i : names[j] \in Valid})

\* Mutant: Load stops one name early.
LoadResultOffByOne(names) ==
  {names[i] : i \in {j \in DOMAIN names : names[j] \in Valid /\ ValidUpTo(names, j) < LearnMax}}

\* The first LearnMax valid names of a project; the order is lost in the sort.
LoadResult(names) ==
  {names[i] : i \in {j \in DOMAIN names : names[j] \in Valid /\ ValidUpTo(names, j) <= LearnMax}}

\* Load holds the mutex for the read alone; what follows is the goroutine's own.
LoadRead(t) ==
  /\ pc[t] = "read" /\ req[t].op = "load"
  /\ \E o \in ReadOutcomes :
       /\ got' = [got EXCEPT ![t] = LoadResult(o.doc[req[t].root])]
       /\ blind' = [blind EXCEPT ![t] = o.blind]
  /\ Answer(t, "OK")
  /\ UNCHANGED <<file, temps, req, acked>>

(***************************************************************************)
(* Record.                                                                 *)
(***************************************************************************)
\* Mutant: the project's list starts from nothing at every write.
RecordReadForgets(t) ==
  /\ pc[t] = "read" /\ req[t].op = "observe"
  /\ \E o \in ReadOutcomes :
       /\ doc' = [doc EXCEPT ![t] = [o.doc EXCEPT ![req[t].root] = <<>>]]
       /\ nilDoc' = [nilDoc EXCEPT ![t] = o.nil]
       /\ blind' = [blind EXCEPT ![t] = o.blind]
  /\ todo' = [todo EXCEPT ![t] = req[t].names]
  /\ added' = [added EXCEPT ![t] = 0]
  /\ Goto(t, "merge")
  /\ UNCHANGED <<file, temps, mu, req, temp, got, reply, acked>>

RecordRead(t) ==
  /\ pc[t] = "read" /\ req[t].op = "observe"
  /\ \E o \in ReadOutcomes :
       /\ doc' = [doc EXCEPT ![t] = o.doc]
       /\ nilDoc' = [nilDoc EXCEPT ![t] = o.nil]
       /\ blind' = [blind EXCEPT ![t] = o.blind]
  /\ todo' = [todo EXCEPT ![t] = req[t].names]
  /\ added' = [added EXCEPT ![t] = 0]
  /\ Goto(t, "merge")
  /\ UNCHANGED <<file, temps, mu, req, temp, got, reply, acked>>

Existing(t) == doc[t][req[t].root]

Full(t) == Len(Existing(t)) >= LearnMax

\* Mutant: Record trusts its caller and does not ask packageValid.
MergeNameUnchecked(t) ==
  /\ pc[t] = "merge" /\ todo[t] # <<>>
  /\ LET n == Head(todo[t]) IN
       /\ ~Full(t) /\ n \notin Elements(Existing(t))
       /\ doc' = [doc EXCEPT ![t][req[t].root] = Append(@, n)]
  /\ added' = [added EXCEPT ![t] = @ + 1]
  /\ todo' = [todo EXCEPT ![t] = Tail(@)]
  /\ UNCHANGED <<file, temps, mu, pc, req, nilDoc, blind, temp, got, reply, acked>>

\* One round of the merge loop over a valid name that is new.
MergeName(t) ==
  /\ pc[t] = "merge" /\ todo[t] # <<>>
  /\ LET n == Head(todo[t]) IN
       /\ n \in Valid /\ ~Full(t) /\ n \notin Elements(Existing(t))
       /\ doc' = [doc EXCEPT ![t][req[t].root] = Append(@, n)]
  /\ added' = [added EXCEPT ![t] = @ + 1]
  /\ todo' = [todo EXCEPT ![t] = Tail(@)]
  /\ UNCHANGED <<file, temps, mu, pc, req, nilDoc, blind, temp, got, reply, acked>>

\* A round that adds nothing; a full project ends the loop.
SkipName(t) ==
  /\ pc[t] = "merge" /\ todo[t] # <<>>
  /\ LET n == Head(todo[t]) IN
       \/ /\ n \notin Valid \/ (~Full(t) /\ n \in Elements(Existing(t)))
          /\ todo' = [todo EXCEPT ![t] = Tail(@)]
       \/ /\ n \in Valid /\ Full(t)
          /\ todo' = [todo EXCEPT ![t] = <<>>]
  /\ UNCHANGED <<file, temps, mu, pc, req, doc, nilDoc, blind, added, temp, got, reply, acked>>

\* What the answer OK tells the observer of t: its names that are in the document.  A project
\* hand-edited beyond LearnMax ends the loop before it looks at any.
Told(t) ==
  IF Len(Existing(t)) > LearnMax THEN {}
  ELSE Elements(req[t].names) \cap Elements(Existing(t)) \cap Valid

NothingNew(t) ==
  /\ pc[t] = "merge" /\ todo[t] = <<>> /\ added[t] = 0
  /\ Answer(t, "OK")
  /\ acked' = [acked EXCEPT ![req[t].root] = @ \cup Told(t)]
  /\ UNCHANGED <<file, temps, req, blind, got>>

MergeDone(t) ==
  /\ pc[t] = "merge" /\ todo[t] = <<>> /\ added[t] > 0 /\ ~nilDoc[t]
  /\ Goto(t, "create")
  /\ UNCHANGED <<file, temps, mu, req, localVars, reply, acked>>

CreateTemp(t) ==
  /\ pc[t] = "create"
  /\ \E x \in Temp : /\ temps[x] = NoFile
                     /\ temps' = [temps EXCEPT ![x] = Torn]
                     /\ temp' = [temp EXCEPT ![t] = x]
  /\ Goto(t, "write")
  /\ UNCHANGED <<file, mu, req, doc, nilDoc, blind, todo, added, got, reply, acked>>

\* Mutant: an early return that does not unlock.
CreateFailsLocked(t) ==
  /\ pc[t] = "create"
  /\ Goto(t, "done") /\ reply' = [reply EXCEPT ![t] = "Internal"]
  /\ UNCHANGED <<file, temps, mu, req, localVars, acked>>

CreateFails(t) ==
  /\ pc[t] = "create"
  /\ Answer(t, "Internal")
  /\ UNCHANGED <<file, temps, req, blind, got, acked>>

WriteTemp(t) ==
  /\ pc[t] = "write"
  /\ temps' = [temps EXCEPT ![temp[t]] = doc[t]]
  /\ Goto(t, "close")
  /\ UNCHANGED <<file, mu, req, localVars, reply, acked>>

CloseTemp(t) ==
  /\ pc[t] = "close"
  /\ Goto(t, "rename")
  /\ UNCHANGED <<file, temps, mu, req, localVars, reply, acked>>

\* Mutant: the result of Write is not looked at.
FailsUnnoticed(t) ==
  /\ pc[t] = "write"
  /\ Goto(t, "close")
  /\ UNCHANGED <<file, temps, mu, req, localVars, reply, acked>>

\* Write, Close or Rename fails: the temporary file is removed, if that succeeds.
PersistFails(t) ==
  /\ pc[t] \in {"write", "close", "rename"}
  /\ \E left \in {temps[temp[t]], NoFile} : temps' = [temps EXCEPT ![temp[t]] = left]
  /\ Answer(t, "Internal")
  /\ UNCHANGED <<file, req, blind, got, acked>>

\* Mutant: the document is copied over the sidecar instead of renamed.
RenameCopies(t) ==
  /\ pc[t] = "rename"
  /\ file' = temps[temp[t]]
  /\ acked' = [acked EXCEPT ![req[t].root] = @ \cup Told(t)]
  /\ Answer(t, "OK")
  /\ UNCHANGED <<temps, req, blind, got>>

Rename(t) ==
  /\ pc[t] = "rename"
  /\ file' = temps[temp[t]]
  /\ temps' = [temps EXCEPT ![temp[t]] = NoFile]
  /\ acked' = [r \in Root |-> (IF blind[t] THEN {} ELSE acked[r])
                              \cup (IF r = req[t].root THEN Told(t) ELSE {})]
  /\ Answer(t, "OK")
  /\ UNCHANGED <<req, blind, got>>

\* The runtime takes the answer; the goroutine ends.
Finish(t) ==
  /\ pc[t] = "done"
  /\ Goto(t, "idle")
  /\ req' = [req EXCEPT ![t] = Idle] /\ reply' = [reply EXCEPT ![t] = "none"]
  /\ blind' = [blind EXCEPT ![t] = FALSE] /\ got' = [got EXCEPT ![t] = {}]
  /\ UNCHANGED <<file, temps, mu, recordVars, acked>>

(***************************************************************************)
(* The end of the process and its restart by the supervisor.               *)
(***************************************************************************)
Restart ==
  /\ mu' = Free /\ pc' = Fresh.pc /\ req' = Fresh.req /\ doc' = Fresh.doc
  /\ nilDoc' = Fresh.flag /\ blind' = Fresh.flag
  /\ todo' = Fresh.todo /\ added' = Fresh.added /\ temp' = Fresh.temp
  /\ got' = Fresh.got /\ reply' = Fresh.reply
  /\ UNCHANGED <<file, temps, acked>>

Crash == (\E t \in Thread : pc[t] # "idle") /\ Restart

\* doc[gitRoot] = existing on a nil map panics, and a panic ends the process.
Panic(t) ==
  /\ pc[t] = "merge" /\ todo[t] = <<>> /\ added[t] > 0 /\ nilDoc[t]
  /\ Restart

Step(t) ==
  \/ RefuseMalformed(t) \/ SeeCancelled(t) \/ NothingParsed(t) \/ CallStore(t)
  \/ Acquire(t) \/ LoadRead(t) \/ RecordRead(t) \/ MergeName(t) \/ SkipName(t)
  \/ NothingNew(t) \/ MergeDone(t) \/ Panic(t) \/ CreateTemp(t) \/ CreateFails(t)
  \/ WriteTemp(t) \/ CloseTemp(t) \/ PersistFails(t) \/ Rename(t) \/ Finish(t)

Next ==
  \/ \E t \in Thread : Step(t) \/ \E q \in Requests : Begin(t, q)
  \/ Crash

Spec == Init /\ [][Next]_vars

\* A goroutine keeps running, and sync.Mutex lets no waiter starve.
FairSpec == Spec /\ \A t \in Thread : WF_vars(Step(t)) /\ SF_vars(Acquire(t))

(***************************************************************************)
(* Properties.                                                             *)
(***************************************************************************)
\* Among others: the sidecar is a whole document or what it was before, never a torn one.
TypeOK ==
  /\ file \in Doc \cup {NoFile, Garbage, Null}
  /\ temps \in [Temp -> Doc \cup {NoFile, Torn}]
  /\ mu \in Thread \cup {Free}
  /\ pc \in [Thread -> Pc]
  /\ req \in [Thread -> Request]
  /\ doc \in [Thread -> Doc]
  /\ nilDoc \in [Thread -> BOOLEAN] /\ blind \in [Thread -> BOOLEAN]
  /\ todo \in [Thread -> Seq(Name)]
  /\ added \in [Thread -> Nat]
  /\ temp \in [Thread -> Temp \cup {NoFile}]
  /\ got \in [Thread -> SUBSET Valid]
  /\ reply \in [Thread -> Status]
  /\ acked \in [Root -> SUBSET Valid]

\* What the file holds for each project.
View == IF file \in Doc THEN file ELSE Empty

\* A name an observer was told is recorded is in the file, whatever other handlers wrote,
\* whichever file operation failed and wherever the process died since; only a write whose
\* read() took the file for an empty one ends that (Rename empties the history then).
ReportedIsPersisted == \A r \in Root : acked[r] \subseteq Elements(View[r])

\* A Load that could read the file returns every name reported as recorded: the cap Record
\* applies to what is stored and the one Load applies to what is valid never conflict.
LoadReturnsReported ==
  [][\A t \in Thread : LoadRead(t) /\ ~blind'[t] => acked[req[t].root] \subseteq got'[t]]_vars

\* Document d is base with names added behind the list of project r: at least one, each valid
\* and new to the list, up to LearnMax; what the list held and every other project stay.
Appends(d, base, r) ==
  /\ \A q \in Root \ {r} : d[q] = base[q]
  /\ Len(base[r]) < Len(d[r]) /\ Len(d[r]) <= LearnMax
  /\ \A i \in 1..Len(base[r]) : d[r][i] = base[r][i]
  /\ \A j \in (Len(base[r]) + 1)..Len(d[r]) :
       d[r][j] \in Valid /\ \A i \in 1..(j - 1) : d[r][i] # d[r][j]

\* A write of the sidecar adds valid names, each once, to one project, up to LearnMax, and
\* leaves all else as it was when the write began; only a Record whose own read() gave up on
\* the file starts from nothing.
GrowsSoundly ==
  [][file' # file =>
       \E r \in Root :
         \/ Appends(View', View, r)
         \/ Appends(View', Empty, r) /\ \E t \in Thread : pc[t] = "rename" /\ blind[t]]_vars

\* Temporary files whose Record is over.
Orphans == {x \in Temp : temps[x] # NoFile /\ \A t \in Thread : temp[t] # x}

\* Nothing ever collects an orphan, so how one comes about matters: only a process that ends
\* inside Record leaves one, or a Record that failed, could not remove it either, and says so.
OnlyFailureLeavesTemps ==
  [][\A x \in Orphans' \ Orphans :
       \/ \E t \in Thread : temp[t] = x /\ reply'[t] = "Internal"
       \/ \A t \in Thread : pc'[t] = "idle"]_vars

\* The store implements a set that only grows or starts over.
Learned == INSTANCE LearnedSet WITH learned <- [r \in Root |-> Elements(View[r]) \cap Valid]
RefinesLearnedSet == Learned!Spec

\* Every request the module takes is answered, or the process ends.
EveryRequestReturns ==
  \A t \in Thread : pc[t] = "handle" ~> pc[t] \in {"done", "idle"}

\* What the comment on read says: a broken sidecar never fails a delegate turn.
BrokenSidecarIsHarmless ==
  \A t \in Thread : ~(pc[t] = "merge" /\ todo[t] = <<>> /\ added[t] > 0 /\ nilDoc[t])

\* What docs/modules/sandbox.md says of the file: "an absent key for a git root means
\* nothing was ever captured for that project".  So a captured project stays.
CapturedStays ==
  [][\A r \in Root : Elements(View[r]) \cap Valid # {} => Elements(View'[r]) # {}]_vars

=============================================================================

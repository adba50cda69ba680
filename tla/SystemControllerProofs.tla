------------------------ MODULE SystemControllerProofs ------------------------
(***************************************************************************)
(* Proofs about the controller of System sites, for any namespaces and any *)
(* number of handlers, VanForms, directories and files made: the types,    *)
(* that everything that runs can be stopped, and what holds when all that  *)
(* was reported has been dealt with.                                       *)
(***************************************************************************)
EXTENDS SystemController, CommonLemmas, SequenceTheorems, TLAPS

------------------------------------------------------------------------------
(* The types, by component. *)

Triggers == [op : {"create", "remove"}, ns : Namespace]
Closings == [op : {"close"}, handler : Handler]
Events == {"create", "remove", "gone"}

\* The second half of OnRemove.
Closing(h) == [op |-> "close", handler |-> h]

FileTypes ==
    /\ dir \in [Namespace -> BOOLEAN]
    /\ site \in [Namespace -> BOOLEAN] /\ cm \in [Namespace -> BOOLEAN]
    /\ \A n \in Namespace : (cm[n] => site[n]) /\ (site[n] => dir[n])
    /\ made \in 0..MaxMade

WatchTypes ==
    /\ watch \in {"start", "added", "on", "ended"}
    /\ scan \subseteq Namespace /\ found \in Namespace \cup {None}
    /\ queue \in Seq(Triggers) /\ event \in Triggers \cup {None}
    /\ job \in Triggers \cup Closings \cup {None}

\* The map, and the handlers: only one that has a namespace is stopped.
MapTypes ==
    /\ namespaces \in [Namespace -> Handler \cup {None}]
    /\ ns \in [Handler -> Namespace \cup {None}] /\ stop \in [Handler -> BOOLEAN]
    /\ \A n \in Namespace : namespaces[n] # None => ns[namespaces[n]] = n
    /\ \A h \in Handler : stop[h] \/ closing = h \/ job = Closing(h) => ns[h] # None

ProcessTypes ==
    /\ main \in {"run", "shutdown", "done", "exited", "panicked", "fatal"}
    /\ stopCh \in BOOLEAN /\ doneCh \in BOOLEAN /\ (main = "done" => doneCh)
    /\ toClose \subseteq {n \in Namespace : namespaces[n] # None}
    /\ closing \in Handler \cup {None}

HTypes ==
    /\ hwatch \in [Handler -> {"none", "wait", "on", "lost", "ended"}]
    /\ hscan \in [Handler -> {"no", "read", "send"}] /\ hqueue \in [Handler -> Seq(Events)]
    /\ hevent \in [Handler -> {"create", "remove", None}]
    /\ \A h \in Handler :
        /\ hwatch[h] = "none" <=> ns[h] = None
        /\ hwatch[h] \in {"none", "ended"} =>
               hqueue[h] = << >> /\ hscan[h] = "no" /\ hevent[h] = None

\* The VanForm in a handler's field is the one of that handler that still runs
\* without having been told to stop, and there is no other.
FormInv ==
    /\ field \in [Handler -> VanForm \cup {None}]
    /\ home \in [VanForm -> Handler \cup {None}] /\ closed \in [VanForm -> BOOLEAN]
    /\ loop \in [VanForm -> {"none", "run", "ended"}]
    /\ \A v \in VanForm :
        /\ loop[v] = "none" <=> home[v] = None
        /\ home[v] # None => ns[home[v]] # None
        /\ loop[v] = "none" => ~closed[v]
        /\ loop[v] = "run" => closed[v] \/ field[home[v]] = v
    /\ \A h \in Handler : field[h] # None =>
        home[field[h]] = h /\ ~closed[field[h]] /\ loop[field[h]] = "run"

Types == FileTypes /\ WatchTypes /\ MapTypes /\ ProcessTypes /\ HTypes /\ FormInv

\* A callback's namespace, and what the records of events are.
LEMMA TriggerTypes ==
    /\ \A n \in Namespace, op \in {"create", "remove"} : Trigger(op, n) \in Triggers
    /\ \A t \in Triggers : t.ns \in Namespace /\ t = Trigger(t.op, t.ns)
    /\ \A c \in Closings : c.op = "close" /\ c.handler \in Handler
    /\ \A h \in Handler : Closing(h) \in Closings /\ Closing(h).handler = h
    /\ \A t \in Triggers, h \in Handler : Closing(h) # t
    /\ None \notin Triggers /\ None \notin Closings
    /\ \A n : Trigger("create", n) # Trigger("remove", n)
BY NoneAssumption DEF Trigger, Triggers, Closing, Closings

LEMMA TypesSuffice == Types => TypeOK
<1> SUFFICES ASSUME Types PROVE TypeOK
  OBVIOUS
<1>1. event # None => event.ns \in Namespace
  BY DEF Types, WatchTypes, Triggers
<1>2. \A h \in Handler :
        /\ hwatch[h] = "none" <=> h \notin Used
        /\ hwatch[h] \in {"none", "ended"} => hqueue[h] = << >> /\ hscan[h] = "no"
  BY DEF Types, HTypes, Used
<1>3. \A v \in VanForm :
        /\ loop[v] = "none" <=> home[v] = None
        /\ home[v] # None => home[v] \in Used
  BY DEF Types, FormInv, Used
<1> QED
  BY <1>1, <1>2, <1>3
  DEF Types, TypeOK, FileTypes, WatchTypes, MapTypes, ProcessTypes, HTypes, FormInv

LEMMA InitTypes == Init => Types
<1> SUFFICES ASSUME Init PROVE Types
  OBVIOUS
<1>1. FileTypes
  BY BoundAssumption DEF Init, FileTypes
<1>2. WatchTypes
  BY DEF Init, WatchTypes
<1>3. MapTypes
  BY NoneAssumption DEF Init, MapTypes, Closing, Closings
<1>4. ProcessTypes
  BY DEF Init, ProcessTypes
<1>5. HTypes /\ FormInv
  BY NoneAssumption DEF Init, HTypes, FormInv
<1> QED BY <1>1, <1>2, <1>3, <1>4, <1>5 DEF Types

\* Nothing is left of a process that has died.
LEMMA DeadTypes ==
    ASSUME Types, NEW how \in {"exited", "panicked", "fatal"}, Dies(how)
    PROVE  Types'
<1>1. FileTypes' /\ WatchTypes' /\ MapTypes' /\ ProcessTypes'
  BY TriggerTypes, NoneAssumption
  DEF Dies, Vanish, fileSystem, Types, FileTypes, WatchTypes, MapTypes, ProcessTypes
<1>2. HTypes' /\ FormInv'
  BY NoneAssumption DEF Dies, Vanish, HTypes, FormInv
<1> QED BY <1>1, <1>2 DEF Types

------------------------------------------------------------------------------
(* The steps, by what they leave alone. *)

WatchStep ==
    \/ NoWatcher \/ WatchAdded \/ WatchRead \/ (\E n \in Namespace : FilterFound(n))
    \/ FilterEvent \/ Dispatch \/ WatchEnds

HandlerStep(h) == HMonitor(h) \/ HTake(h) \/ HDispatcher(h)

ShutdownStep ==
    \/ Signal \/ ShutdownBegins \/ (\E n \in Namespace : ShutdownTakes(n))
    \/ ShutdownCloses \/ ShutdownDone

Death == \E how \in {"exited", "panicked", "fatal"} : Dies(how)

LEMMA Steps ==
    ASSUME [Next]_vars
    PROVE  \/ FileSystem \/ WatchStep \/ OnCreate \/ OnRemove \/ OnRemoveCloses
           \/ (\E h \in Used : HandlerStep(h)) \/ (\E v \in VanForm : LoopEnds(v))
           \/ ShutdownStep
           \/ Death /\ (main' = "panicked" => OnRemovePanics \/ ShutdownPanics)
           \/ UNCHANGED vars
<1> DEFINE Dead == Death /\ (main' = "panicked" => OnRemovePanics \/ ShutdownPanics)
<1>1. FilterRaces \/ CallbackRaces \/ OnRemovePanics \/ ShutdownPanics \/ Exit \/ ExitAnyway => Dead
  BY DEF FilterRaces, CallbackRaces, OnRemovePanics, ShutdownPanics, Exit, ExitAnyway, Death, Dies
<1> HIDE DEF Dead
<1>2. Next => \/ FileSystem \/ Goroutines \/ NoWatcher \/ Signal \/ Dead
  BY <1>1 DEF Next
<1>3. Goroutines => \/ Monitor \/ FilterEvent \/ Dispatcher \/ (\E h \in Used : HandlerStep(h))
                    \/ (\E v \in VanForm : LoopEnds(v)) \/ Shutdown \/ Dead
  BY <1>1 DEF Goroutines, HandlerStep
<1>4. Monitor \/ NoWatcher \/ FilterEvent \/ Signal => WatchStep \/ ShutdownStep
  BY DEF Monitor, WatchStep, ShutdownStep
<1>5. Dispatcher => WatchStep \/ OnCreate \/ OnRemove \/ OnRemoveCloses \/ Dead
  BY <1>1 DEF Dispatcher, WatchStep
<1>6. Shutdown => ShutdownStep \/ Dead
  BY <1>1 DEF Shutdown, ShutdownStep
<1> QED BY <1>2, <1>3, <1>4, <1>5, <1>6 DEF Dead

\* A change to the file system, in one namespace.
FileStepIn(n) ==
    \/ MakeNamespace(n) \/ RemoveNamespace(n)
    \/ MakeRuntime(n) \/ RemoveRuntime(n)
    \/ CreateConfigMap(n) \/ RemoveConfigMap(n)

LEMMA FileSystemLeaves ==
    ASSUME FileSystem
    PROVE  /\ UNCHANGED <<job, namespaces, ns, stop, forms, process>>
           /\ UNCHANGED <<watch, scan, found, event, hscan, hevent, overwritten, unnoticed>>
<1> PICK n \in Namespace : FileStepIn(n)
  BY DEF FileSystem, FileStepIn
<1>1. UNCHANGED Untold /\ UNCHANGED <<watch, scan, found, event>>
  BY DEF FileStepIn, MakeNamespace, RemoveNamespace, MakeRuntime, RemoveRuntime,
         CreateConfigMap, RemoveConfigMap, watching
<1> QED BY <1>1 DEF Untold, handlers

LEMMA WatchLeaves ==
    ASSUME WatchStep
    PROVE  /\ UNCHANGED <<fileSystem, ns, stop, hwatching, forms, namespaces, history>>
           /\ UNCHANGED <<stopCh, toClose, closing>>
BY DEF WatchStep, NoWatcher, WatchAdded, WatchRead, FilterFound, FilterEvent, Dispatch, WatchEnds,
       Still, handlers, process

LEMMA HandlerLeaves ==
    ASSUME NEW h, HandlerStep(h)
    PROVE  UNCHANGED <<fileSystem, watching, job, namespaces, ns, stop, process,
                       overwritten, unnoticed>>
BY DEF HandlerStep, HMonitor, HDispatcher, HAttach, HRead, HForget, HDrop, HTake, HEnd, HDeliver,
       HScan, Apart, handlers, history

LEMMA ShutdownLeaves ==
    ASSUME ShutdownStep
    PROVE  UNCHANGED <<fileSystem, watching, job, namespaces, ns, hwatching, forms, history>>
BY DEF ShutdownStep, Signal, ShutdownBegins, ShutdownTakes, ShutdownCloses, ShutdownDone, Aside

\* The handler that OnCreate makes is a new one.
LEMMA NewHandler ==
    ASSUME MapTypes, OnCreate
    PROVE  /\ job \notin {None} /\ job.op = "create" /\ job' = None
           /\ \E h \in Handler :
                /\ ns[h] = None /\ ns' = [ns EXCEPT ![h] = job.ns]
                /\ namespaces' = [namespaces EXCEPT ![job.ns] = h]
                /\ hwatch' = [hwatch EXCEPT ![h] = "wait"]
                   \/ hwatch' = [hwatch EXCEPT ![h] = "ended"]
           /\ overwritten' = overwritten \cup ({namespaces[job.ns]} \ {None})
           /\ UNCHANGED <<fileSystem, watching, stop, hscan, hqueue, hevent, forms,
                          main, stopCh, doneCh, closing, misled>>
<1> DEFINE h == CHOOSE x \in Handler : x \notin Used
<1>1. h \in Handler /\ h \notin Used
  BY DEF OnCreate, Used
<1>2. ns[h] = None
  BY <1>1 DEF Used
<1>3. /\ ns' = [ns EXCEPT ![h] = job.ns] /\ namespaces' = [namespaces EXCEPT ![job.ns] = h]
      /\ \E at \in {"wait", "ended"} : hwatch' = [hwatch EXCEPT ![h] = at]
  BY DEF OnCreate
<1> HIDE DEF h
<1> QED BY <1>1, <1>2, <1>3 DEF OnCreate

------------------------------------------------------------------------------
(* The types are kept. *)

LEMMA FileStep ==
    ASSUME FileTypes, [Next]_vars
    PROVE  FileTypes'
<1>1. CASE FileSystem
  <2> PICK n \in Namespace : FileStepIn(n)
    BY <1>1 DEF FileSystem, FileStepIn
  <2>1. Make \/ Remove
    BY DEF FileStepIn, MakeNamespace, RemoveNamespace, MakeRuntime, RemoveRuntime,
           CreateConfigMap, RemoveConfigMap
  <2>2. made' \in 0..MaxMade
    BY <2>1, BoundAssumption DEF Make, Remove, FileTypes
  <2>3. \/ dir' = [dir EXCEPT ![n] = TRUE] /\ UNCHANGED <<site, cm>>
        \/ dir' = [dir EXCEPT ![n] = FALSE] /\ ~site[n] /\ UNCHANGED <<site, cm>>
        \/ site' = [site EXCEPT ![n] = TRUE] /\ dir[n] /\ UNCHANGED <<dir, cm>>
        \/ site' = [site EXCEPT ![n] = FALSE] /\ ~cm[n] /\ UNCHANGED <<dir, cm>>
        \/ cm' = [cm EXCEPT ![n] = TRUE] /\ site[n] /\ UNCHANGED <<dir, site>>
        \/ cm' = [cm EXCEPT ![n] = FALSE] /\ UNCHANGED <<dir, site>>
    BY DEF FileStepIn, MakeNamespace, RemoveNamespace, MakeRuntime, RemoveRuntime,
           CreateConfigMap, RemoveConfigMap
  <2> QED BY <2>2, <2>3 DEF FileTypes
<1>2. CASE OnCreate \/ OnRemove \/ OnRemoveCloses \/ (\E v \in VanForm : LoopEnds(v)) \/ Death
           \/ UNCHANGED vars
  BY <1>2 DEF OnCreate, OnRemove, OnRemoveCloses, LoopEnds, Apart, Death, Dies, vars,
              fileSystem, FileTypes
<1>3. CASE WatchStep \/ (\E h \in Used : HandlerStep(h)) \/ ShutdownStep
  BY <1>3, WatchLeaves, HandlerLeaves, ShutdownLeaves DEF fileSystem, FileTypes
<1> QED BY <1>1, <1>2, <1>3, Steps

LEMMA JobTypes ==
    ASSUME WatchTypes, job # None, job.op \in {"create", "remove"}
    PROVE  job \in Triggers /\ job.ns \in Namespace /\ job = Trigger(job.op, job.ns)
BY TriggerTypes DEF WatchTypes

LEMMA ReportTypes ==
    ASSUME WatchTypes, NEW n \in Namespace, NEW op \in {"create", "remove"}, Report(op, n)
    PROVE  queue' \in Seq(Triggers)
BY TriggerTypes, AddLast DEF Report, WatchTypes

LEMMA WatchTypesStep ==
    ASSUME Types, [Next]_vars
    PROVE  WatchTypes'
<1>a. WatchTypes /\ MapTypes
  BY DEF Types
<1>1. CASE FileSystem
  <2>1. UNCHANGED <<watch, scan, found, event, job>>
    BY <1>1, FileSystemLeaves
  <2>2. queue' \in Seq(Triggers)
    BY <1>a, <1>1, ReportTypes
    DEF FileSystem, MakeNamespace, RemoveNamespace, MakeRuntime, RemoveRuntime, CreateConfigMap,
        RemoveConfigMap, WatchTypes, watching
  <2> QED BY <1>a, <2>1, <2>2 DEF WatchTypes
<1>2. CASE NoWatcher \/ WatchAdded \/ WatchRead \/ WatchEnds \/ Dispatch
           \/ \E n \in Namespace : FilterFound(n)
  BY <1>a, <1>2, TriggerTypes, EmptySeq DEF NoWatcher, WatchAdded, WatchRead, WatchEnds,
       Dispatch, FilterFound, WatchTypes
<1>3. CASE FilterEvent
  <2>1. Head(queue) \in Triggers /\ Tail(queue) \in Seq(Triggers)
    BY <1>a, <1>3, TakeFirst DEF FilterEvent, WatchTypes
  <2> QED BY <1>a, <1>3, <2>1 DEF FilterEvent, WatchTypes
<1>4. CASE OnRemove
  <2>1. job.ns \in Namespace
    BY <1>a, <1>4, JobTypes DEF OnRemove
  <2>2. job' \in Closings \cup {None}
    BY <1>a, <1>4, <2>1 DEF OnRemove, MapTypes, Closings
  <2> QED BY <1>a, <1>4, <2>2 DEF OnRemove, WatchTypes, watching
<1>5. CASE OnCreate \/ OnRemoveCloses
  BY <1>a, <1>5 DEF OnCreate, OnRemoveCloses, WatchTypes, watching
<1>6. CASE Death
  BY <1>6 DEF Death, Dies, Vanish, WatchTypes
<1>7. CASE (\E h \in Used : HandlerStep(h)) \/ ShutdownStep
  BY <1>a, <1>7, HandlerLeaves, ShutdownLeaves DEF watching, WatchTypes
<1>8. CASE (\E v \in VanForm : LoopEnds(v)) \/ UNCHANGED vars
  BY <1>a, <1>8 DEF LoopEnds, Apart, vars, watching, WatchTypes
<1> QED BY <1>1, <1>2, <1>3, <1>4, <1>5, <1>6, <1>7, <1>8, Steps DEF WatchStep

LEMMA CloseEffect ==
    ASSUME MapTypes, NEW h \in Handler, Close(h)
    PROVE  stop' \in [Handler -> BOOLEAN] /\ \A x \in Handler : stop'[x] <=> stop[x] \/ x = h
BY DEF Close, MapTypes

LEMMA MapStep ==
    ASSUME Types, [Next]_vars
    PROVE  MapTypes'
<1>a. WatchTypes /\ MapTypes /\ ProcessTypes
  BY DEF Types
<1>1. CASE FileSystem \/ \E h \in Used : HandlerStep(h)
  BY <1>a, <1>1, FileSystemLeaves, HandlerLeaves DEF MapTypes, process
<1>2. CASE WatchStep
  <2>1. job' = job \/ job' \in Triggers
    BY <1>a, <1>2, TriggerTypes
    DEF WatchStep, NoWatcher, WatchAdded, WatchRead, FilterFound, FilterEvent, Dispatch,
        WatchEnds, WatchTypes
  <2> QED BY <1>a, <1>2, <2>1, WatchLeaves, TriggerTypes DEF MapTypes
<1>3. CASE OnCreate
  <2>1. job.ns \in Namespace
    BY <1>a, <1>3, JobTypes DEF OnCreate
  <2>2. PICK h \in Handler : /\ ns[h] = None /\ ns' = [ns EXCEPT ![h] = job.ns]
                             /\ namespaces' = [namespaces EXCEPT ![job.ns] = h]
    BY <1>a, <1>3, NewHandler
  <2>3. stop' = stop /\ closing' = closing /\ job' = None
    BY <1>3 DEF OnCreate
  <2> QED BY <1>a, <2>1, <2>2, <2>3, NoneAssumption, TriggerTypes DEF MapTypes
<1>4. CASE OnRemove
  <2>1. job.ns \in Namespace
    BY <1>a, <1>4, JobTypes DEF OnRemove
  <2>2. job' = None \/ (namespaces[job.ns] # None /\ job' = Closing(namespaces[job.ns]))
    BY <1>4 DEF OnRemove, Closing
  <2>3. \A h \in Handler : job' = Closing(h) => ns[h] # None
    BY <1>a, <2>1, <2>2, TriggerTypes, NoneAssumption DEF MapTypes
  <2>4. UNCHANGED <<ns, stop, closing>>
    BY <1>4 DEF OnRemove, handlers
  <2>5. namespaces' = [namespaces EXCEPT ![job.ns] = None]
    BY <1>4 DEF OnRemove
  <2> QED BY <1>a, <2>1, <2>3, <2>4, <2>5 DEF MapTypes
<1>5. CASE OnRemoveCloses
  <2>1. job \in Closings /\ job = Closing(job.handler)
    BY <1>a, <1>5 DEF OnRemoveCloses, WatchTypes, Triggers, Closings, Closing
  <2>2. job' = None /\ Close(job.handler) /\ UNCHANGED <<namespaces, ns, closing>>
    BY <1>5 DEF OnRemoveCloses, process
  <2> QED BY <1>a, <2>1, <2>2, TriggerTypes, CloseEffect DEF MapTypes
<1>6. CASE ShutdownStep
  <2>1. UNCHANGED <<namespaces, ns, job>>
    BY <1>6, ShutdownLeaves
  <2>2. CASE ShutdownCloses
    BY <1>a, <2>1, <2>2, CloseEffect, NoneAssumption DEF ShutdownCloses, MapTypes, ProcessTypes
  <2>3. ASSUME NEW n \in Namespace, ShutdownTakes(n)
        PROVE  MapTypes'
    <3>1. namespaces[n] \in Handler /\ ns[namespaces[n]] # None
      BY <1>a, <2>3, NoneAssumption DEF ShutdownTakes, MapTypes, ProcessTypes
    <3> QED BY <1>a, <2>1, <2>3, <3>1 DEF ShutdownTakes, MapTypes
  <2>4. CASE Signal \/ ShutdownBegins \/ ShutdownDone
    BY <1>a, <2>1, <2>4 DEF Signal, ShutdownBegins, ShutdownDone, MapTypes
  <2> QED BY <1>6, <2>2, <2>3, <2>4 DEF ShutdownStep
<1>7. CASE Death
  BY <1>7, TriggerTypes, NoneAssumption DEF Death, Dies, Vanish, MapTypes
<1>8. CASE (\E v \in VanForm : LoopEnds(v)) \/ UNCHANGED vars
  BY <1>a, <1>8 DEF LoopEnds, Apart, vars, handlers, process, MapTypes
<1> QED BY <1>1, <1>2, <1>3, <1>4, <1>5, <1>6, <1>7, <1>8, Steps

LEMMA ProcessStep ==
    ASSUME Types, [Next]_vars
    PROVE  ProcessTypes'
<1>a. WatchTypes /\ MapTypes /\ ProcessTypes
  BY DEF Types
<1>1. CASE FileSystem \/ \E h \in Used : HandlerStep(h)
  BY <1>a, <1>1, FileSystemLeaves, HandlerLeaves DEF ProcessTypes, process
<1>2. CASE WatchStep
  <2>1. \/ main' = main /\ doneCh' = doneCh
        \/ main' = "done" /\ doneCh' = TRUE
    BY <1>2 DEF WatchStep, NoWatcher, WatchAdded, WatchRead, FilterFound, FilterEvent, Dispatch,
        WatchEnds, Still, process
  <2> QED BY <1>a, <1>2, <2>1, WatchLeaves DEF ProcessTypes
<1>3. CASE OnCreate
  <2>1. job.ns \in Namespace
    BY <1>a, <1>3, JobTypes DEF OnCreate
  <2>2. PICK h \in Handler : namespaces' = [namespaces EXCEPT ![job.ns] = h]
    BY <1>a, <1>3, NewHandler
  <2>3. /\ toClose' = toClose \/ toClose' = toClose \cup {job.ns}
        /\ UNCHANGED <<main, stopCh, doneCh, closing>>
    BY <1>3 DEF OnCreate
  <2> QED BY <1>a, <2>1, <2>2, <2>3, NoneAssumption DEF MapTypes, ProcessTypes
<1>4. CASE OnRemove
  <2>1. /\ namespaces' = [namespaces EXCEPT ![job.ns] = None] /\ toClose' = toClose \ {job.ns}
        /\ UNCHANGED <<main, stopCh, doneCh, closing>>
    BY <1>4 DEF OnRemove
  <2> QED BY <1>a, <2>1 DEF MapTypes, ProcessTypes
<1>5. CASE OnRemoveCloses
  BY <1>a, <1>5 DEF OnRemoveCloses, ProcessTypes, process
<1>6. CASE ShutdownStep
  <2>1. namespaces' = namespaces
    BY <1>6, ShutdownLeaves
  <2>2. \A n \in toClose : namespaces[n] \in Handler
    BY <1>a DEF MapTypes, ProcessTypes
  <2> QED
    BY <1>a, <1>6, <2>1, <2>2
    DEF ShutdownStep, Signal, ShutdownBegins, ShutdownTakes, ShutdownCloses, ShutdownDone,
        ProcessTypes
<1>7. CASE Death
  BY <1>a, <1>7 DEF Death, Dies, Vanish, ProcessTypes
<1>8. CASE (\E v \in VanForm : LoopEnds(v)) \/ UNCHANGED vars
  BY <1>a, <1>8 DEF LoopEnds, Apart, vars, handlers, process, ProcessTypes
<1> QED BY <1>1, <1>2, <1>3, <1>4, <1>5, <1>6, <1>7, <1>8, Steps

LEMMA TellEffect ==
    ASSUME HTypes, NEW n \in Namespace, NEW op \in Events, Tell(n, op)
    PROVE  /\ hqueue' \in [Handler -> Seq(Events)]
           /\ \A h \in Handler :
                IF Watches(h, n)
                THEN hqueue'[h] = Append(hqueue[h], op) ELSE hqueue'[h] = hqueue[h]
BY AddLast DEF Tell, HTypes

\* What the file system does to the handlers' watchers.
LEMMA FileSystemTells ==
    ASSUME HTypes, FileSystem
    PROVE  \E n \in Namespace :
             \/ UNCHANGED <<hwatch, hqueue>>
             \/ RemoveRuntime(n) /\ Tell(n, "gone")
             \/ CreateConfigMap(n) /\ Tell(n, "create") /\ UNCHANGED hwatch
             \/ RemoveConfigMap(n) /\ Tell(n, "remove") /\ UNCHANGED hwatch
BY DEF FileSystem, MakeNamespace, RemoveNamespace, MakeRuntime, RemoveRuntime, CreateConfigMap,
       RemoveConfigMap

\* The event that fsnotify holds is the first of the queue.
LEMMA Kept ==
    ASSUME NEW q \in Seq(Events), NEW kept \in {0} \cup {k \in {1} : q # << >> /\ q[k] # "gone"}
    PROVE  /\ SubSeq(q, 1, kept) \in Seq(Events)
           /\ DOMAIN SubSeq(q, 1, kept) = 1..kept /\ 1..kept \subseteq DOMAIN q
           /\ \A i \in 1..kept : SubSeq(q, 1, kept)[i] = q[i]
<1>1. Len(q) \in Nat /\ DOMAIN q = 1..Len(q) /\ \A i \in 1..Len(q) : q[i] \in Events
  OBVIOUS
<1>2. kept \in Nat /\ kept <= Len(q)
  BY <1>1, EmptySeq
<1> QED BY <1>1, <1>2, SubSeqProperties

\* A step of one handler's watcher or callbacks is none of another's.
LEMMA HandlerAlone ==
    ASSUME Types, NEW h \in Used, HandlerStep(h)
    PROVE  /\ hwatch' \in [Handler -> {"none", "wait", "on", "lost", "ended"}]
           /\ hscan' \in [Handler -> {"no", "read", "send"}] /\ hqueue' \in [Handler -> Seq(Events)]
           /\ hevent' \in [Handler -> {"create", "remove", None}]
           /\ \A x \in Handler \ {h} :
                /\ hwatch'[x] = hwatch[x] /\ hscan'[x] = hscan[x]
                /\ hqueue'[x] = hqueue[x] /\ hevent'[x] = hevent[x]
                /\ field'[x] = field[x] /\ (x \in misled' <=> x \in misled)
                /\ (x \in outrun' <=> x \in outrun)
<1>a. /\ h \in Handler /\ hqueue[h] \in Seq(Events) /\ HTypes
      /\ field \in [Handler -> VanForm \cup {None}]
  BY DEF Used, Types, HTypes, FormInv
<1>1. CASE HAttach(h)
  BY <1>a, <1>1 DEF HAttach, forms, history, HTypes
<1>9. CASE HEnd(h)
  <2>1. /\ hwatch' = [hwatch EXCEPT ![h] = "ended"] /\ hscan' = [hscan EXCEPT ![h] = "no"]
        /\ hqueue' = [hqueue EXCEPT ![h] = << >>] /\ hevent' = [hevent EXCEPT ![h] = None]
        /\ UNCHANGED <<field, misled, outrun>>
    BY <1>9 DEF HEnd, forms, history
  <2>2. << >> \in Seq(Events)
    OBVIOUS
  <2> QED BY <1>a, <2>1, <2>2 DEF HTypes
<1>7. CASE HDrop(h)
  <2>1. /\ \A x \in Handler \ {h} : x \in misled' <=> x \in misled
        /\ UNCHANGED <<hscan, hevent, field, outrun>>
        /\ hwatch' = [hwatch EXCEPT ![h] = "wait"]
    BY <1>7 DEF HDrop, forms
  <2>2. PICK q \in Seq(Events) : hqueue' = [hqueue EXCEPT ![h] = q]
    BY <1>a, <1>7, Kept DEF HDrop
  <2> QED BY <1>a, <2>1, <2>2 DEF HTypes
<1>8. CASE HForget(h)
  <2>1. Tail(hqueue[h]) \in Seq(Events)
    BY <1>a, <1>8, TakeFirst DEF HForget
  <2> QED BY <1>a, <1>8, <2>1 DEF HForget, forms, history, HTypes
<1>2. CASE HRead(h)
  BY <1>a, <1>2 DEF HRead, forms, history, HTypes
<1>3. CASE HTake(h)
  <2>1. /\ Tail(hqueue[h]) \in Seq(Events) /\ Head(hqueue[h]) \in Events
        /\ Head(hqueue[h]) # "gone"
    BY <1>a, <1>3, TakeFirst DEF HTake
  <2>2. Head(hqueue[h]) \in {"create", "remove"}
    BY <2>1 DEF Events
  <2> QED BY <1>a, <1>3, <2>1, <2>2 DEF HTake, forms, history, HTypes
<1>4. HOnCreate(h) \/ HOnRemove(h) => \A x \in Handler \ {h} : field'[x] = field[x]
  BY <1>a DEF HOnCreate, HOnRemove, StartVanForm, forms
<1>5. CASE HDeliver(h)
  BY <1>a, <1>4, <1>5 DEF HDeliver, HTypes
<1>6. CASE HScan(h)
  BY <1>a, <1>4, <1>6 DEF HScan, HTypes
<1> QED
  BY <1>1, <1>2, <1>3, <1>5, <1>6, <1>7, <1>8, <1>9 DEF HandlerStep, HMonitor, HDispatcher

LEMMA HandlerTypesStep ==
    ASSUME Types, [Next]_vars
    PROVE  HTypes'
<1>a. WatchTypes /\ MapTypes /\ HTypes /\ FormInv
  BY DEF Types
<1>1. CASE FileSystem
  <2>1. UNCHANGED ns
    BY <1>1, FileSystemLeaves
  <2>2. PICK n \in Namespace :
             \/ UNCHANGED <<hwatch, hqueue>>
             \/ RemoveRuntime(n) /\ Tell(n, "gone")
             \/ CreateConfigMap(n) /\ Tell(n, "create") /\ UNCHANGED hwatch
             \/ RemoveConfigMap(n) /\ Tell(n, "remove") /\ UNCHANGED hwatch
    BY <1>a, <1>1, FileSystemTells
  <2>a. UNCHANGED <<hscan, hevent>>
    BY <1>1, FileSystemLeaves
  <2>3. CASE UNCHANGED <<hwatch, hqueue>>
    BY <1>a, <2>1, <2>a, <2>3 DEF HTypes
  <2>4. CASE RemoveRuntime(n) /\ Tell(n, "gone")
    <3>1. /\ hqueue' \in [Handler -> Seq(Events)]
          /\ \A h \in Handler : hwatch[h] # "on" => hqueue'[h] = hqueue[h]
      BY <1>a, <2>4, TellEffect DEF Events, Watches
    <3>2. hwatch' = [h \in Handler |-> IF Watches(h, n) THEN "lost" ELSE hwatch[h]]
      BY <2>4 DEF RemoveRuntime
    <3> QED BY <1>a, <2>1, <2>a, <3>1, <3>2 DEF HTypes, Watches
  <2>5. ASSUME NEW op \in Events, Tell(n, op), UNCHANGED hwatch
        PROVE  HTypes'
    <3>1. /\ hqueue' \in [Handler -> Seq(Events)]
          /\ \A h \in Handler : hwatch[h] # "on" => hqueue'[h] = hqueue[h]
      BY <1>a, <2>5, TellEffect DEF Watches
    <3> QED BY <1>a, <2>1, <2>a, <2>5, <3>1 DEF HTypes
  <2>6. "create" \in Events /\ "remove" \in Events
    BY DEF Events
  <2> QED BY <2>2, <2>3, <2>4, <2>5, <2>6
<1>2. CASE OnCreate
  <2>1. job.ns \in Namespace
    BY <1>a, <1>2, JobTypes DEF OnCreate
  <2>2. PICK h \in Handler : /\ ns[h] = None /\ ns' = [ns EXCEPT ![h] = job.ns]
                             /\ hwatch' = [hwatch EXCEPT ![h] = "wait"]
                                \/ hwatch' = [hwatch EXCEPT ![h] = "ended"]
    BY <1>a, <1>2, NewHandler
  <2>3. UNCHANGED <<hscan, hqueue, hevent>>
    BY <1>2 DEF OnCreate
  <2>4. hwatch[h] = "none" /\ hwatch \in [Handler -> {"none", "wait", "on", "lost", "ended"}]
    BY <1>a, <2>2 DEF HTypes
  <2>6. /\ hwatch' \in [Handler -> {"none", "wait", "on", "lost", "ended"}]
        /\ hwatch'[h] \in {"wait", "ended"}
    BY <2>2, <2>4
  <2>7. ns'[h] # None
    BY <1>a, <2>1, <2>2, NoneAssumption DEF MapTypes
  <2>5. \A x \in Handler \ {h} : hwatch'[x] = hwatch[x] /\ ns'[x] = ns[x]
    BY <1>a, <2>2 DEF MapTypes, HTypes
  <2> QED BY <1>a, <2>3, <2>4, <2>5, <2>6, <2>7 DEF HTypes
<1>3. CASE \E h \in Used : HandlerStep(h)
  <2> PICK h \in Used : HandlerStep(h)
    BY <1>3
  <2>1. h \in Handler /\ ns[h] # None /\ hwatch[h] # "none" /\ UNCHANGED ns
    BY <1>a, HandlerLeaves DEF Used, HTypes
  <2>2. hwatch'[h] \in {"wait", "on", "lost", "ended"}
    BY <1>a, <2>1 DEF HandlerStep, HMonitor, HDispatcher, HAttach, HRead, HForget, HDrop, HTake,
                      HEnd, HDeliver, HScan, HTypes
  <2>3. hwatch'[h] = "ended" =>
           \/ hqueue'[h] = << >> /\ hscan'[h] = "no" /\ hevent'[h] = None
           \/ UNCHANGED <<hwatch, hscan, hqueue, hevent>>
    BY <1>a, <2>1 DEF HandlerStep, HMonitor, HDispatcher, HAttach, HRead, HForget, HDrop, HTake,
                      HEnd, HDeliver, HScan, HTypes
  <2> QED BY <1>a, <2>1, <2>2, <2>3, HandlerAlone DEF HTypes
<1>4. CASE WatchStep \/ ShutdownStep \/ OnRemove \/ OnRemoveCloses
           \/ (\E v \in VanForm : LoopEnds(v)) \/ UNCHANGED vars
  <2>1. UNCHANGED <<ns, hwatching>>
    BY <1>4, WatchLeaves, ShutdownLeaves
    DEF OnRemove, OnRemoveCloses, LoopEnds, Apart, vars, handlers
  <2> QED BY <1>a, <2>1 DEF hwatching, HTypes
<1>5. CASE Death
  BY <1>5, EmptySeq DEF Death, Dies, Vanish, HTypes
<1> QED BY <1>1, <1>2, <1>3, <1>4, <1>5, Steps

LEMMA StartsVanForm ==
    ASSUME MapTypes, FormInv, NEW h \in Used, UNCHANGED ns, HOnCreate(h)
    PROVE  FormInv' /\ field'[h] # None /\ (field[h] # None => UNCHANGED forms)
<1>1. CASE field[h] # None
  BY <1>1 DEF HOnCreate, forms, FormInv
<1>2. CASE field[h] = None
  <2> DEFINE v == CHOOSE x \in VanForm : loop[x] = "none"
  <2>1. v \in VanForm /\ loop[v] = "none"
    BY <1>2 DEF HOnCreate, StartVanForm
  <2>2. /\ field' = [field EXCEPT ![h] = v] /\ home' = [home EXCEPT ![v] = h]
        /\ loop' = [loop EXCEPT ![v] = "run"] /\ closed' = closed
    BY <1>2 DEF HOnCreate, StartVanForm
  <2>3. h \in Handler /\ ns[h] # None
    BY DEF Used
  <2> HIDE DEF v
  <2>4. \A x \in Handler : field[x] # v
    BY <2>1, NoneAssumption DEF FormInv
  <2> QED BY <1>2, <2>1, <2>2, <2>3, <2>4, NoneAssumption DEF FormInv
<1> QED BY <1>1, <1>2

LEMMA StopsVanForm ==
    ASSUME MapTypes, FormInv, NEW h \in Used, UNCHANGED ns, HOnRemove(h)
    PROVE  FormInv' /\ field'[h] = None
<1>1. CASE field[h] = None
  BY <1>1 DEF HOnRemove, forms, FormInv
<1>2. CASE field[h] # None
  <2>1. /\ closed' = [closed EXCEPT ![field[h]] = TRUE]
        /\ field' = [field EXCEPT ![h] = None] /\ UNCHANGED <<home, loop>>
    BY <1>2 DEF HOnRemove
  <2>2. h \in Handler /\ field[h] \in VanForm
    BY <1>2 DEF Used, FormInv
  <2> QED BY <1>2, <2>1, <2>2 DEF FormInv
<1> QED BY <1>1, <1>2

LEMMA FormStep ==
    ASSUME Types, [Next]_vars
    PROVE  FormInv'
<1>a. WatchTypes /\ MapTypes /\ FormInv
  BY DEF Types
<1>1. CASE \/ FileSystem \/ WatchStep \/ OnRemove \/ OnRemoveCloses \/ ShutdownStep
           \/ UNCHANGED vars
  <2>1. UNCHANGED <<ns, forms>>
    BY <1>1, FileSystemLeaves, WatchLeaves, ShutdownLeaves
    DEF OnRemove, OnRemoveCloses, vars, handlers
  <2> QED BY <1>a, <2>1 DEF forms, FormInv
<1>2. CASE OnCreate
  <2>1. PICK h \in Handler : ns[h] = None /\ ns' = [ns EXCEPT ![h] = job.ns]
    BY <1>a, <1>2, NewHandler
  <2>2. UNCHANGED forms
    BY <1>2 DEF OnCreate
  <2> QED BY <1>a, <2>1, <2>2 DEF forms, MapTypes, FormInv
<1>3. ASSUME NEW h \in Used, HandlerStep(h)
      PROVE  FormInv'
  <2>1. UNCHANGED ns
    BY <1>3, HandlerLeaves
  <2>2. UNCHANGED forms \/ HOnCreate(h) \/ HOnRemove(h)
    BY <1>3 DEF HandlerStep, HMonitor, HDispatcher, HAttach, HRead, HForget, HDrop, HTake,
                HEnd, HDeliver, HScan
  <2> QED BY <1>a, <2>1, <2>2, StartsVanForm, StopsVanForm DEF forms, FormInv
<1>4. ASSUME NEW v \in VanForm, LoopEnds(v)
      PROVE  FormInv'
  BY <1>a, <1>4 DEF LoopEnds, Apart, handlers, FormInv
<1>5. CASE Death
  BY <1>5, NoneAssumption DEF Death, Dies, Vanish, FormInv
<1> QED BY <1>1, <1>2, <1>3, <1>4, <1>5, Steps

LEMMA StepTypes == Types /\ [Next]_vars => Types'
BY FileStep, WatchTypesStep, MapStep, ProcessStep, HandlerTypesStep, FormStep DEF Types

\* The variables have their types, and stay within the bounds: a VanForm has a handler,
\* a handler in the map the namespace it is entered under, and what is not watched
\* has nothing to tell (controller.go:20-186).
THEOREM TypeCorrect == Spec => []TypeOK
BY InitTypes, StepTypes, TypesSuffice, PTL DEF Spec

------------------------------------------------------------------------------
(* Everything that runs can be stopped, and a channel is closed twice only   *)
(* in a shutdown.                                                            *)

\* A handler that was not replaced is in the map until it is stopped, for OnRemove
\* closes the channel of the one it took out before there is another callback.
KnownInv ==
    /\ \A h \in Used \ overwritten :
        stop[h] \/ namespaces[ns[h]] = h \/ job = Closing(h)
    /\ \A h \in Handler : job = Closing(h) => namespaces[ns[h]] = None

\* The walk of handleShutdown holds a handler that was not stopped, or that OnRemove
\* has taken out of the map.
CloseInv ==
    /\ main \in {"shutdown", "panicked"} => stopCh
    /\ closing # None =>
        main = "shutdown" /\ (stop[closing] => namespaces[ns[closing]] # closing)
    /\ \A h \in Handler : stop[h] /\ (namespaces[ns[h]] = h \/ job = Closing(h)) =>
        main # "run" /\ stopCh
    /\ \A n \in toClose : ~stop[namespaces[n]] /\ namespaces[n] # closing

\* What a step of the watcher does to the dispatcher, and to the process.
LEMMA WatchDoes ==
    ASSUME WatchTypes, WatchStep
    PROVE  /\ job' = job \/ (job = None /\ job' \in Triggers)
           /\ main' = main \/ (main = "run" /\ main' = "done")
<1>1. CASE Dispatch
  BY <1>1, TriggerTypes DEF Dispatch, Still, process, WatchTypes
<1>2. CASE NoWatcher
  BY <1>2 DEF NoWatcher
<1>3. CASE WatchAdded \/ WatchRead \/ (\E n \in Namespace : FilterFound(n)) \/ FilterEvent
           \/ WatchEnds
  BY <1>3 DEF WatchAdded, WatchRead, FilterFound, FilterEvent, WatchEnds, Still, process
<1> QED BY <1>1, <1>2, <1>3 DEF WatchStep

\* OnRemove takes the handler out of the map.
LEMMA Removes ==
    ASSUME Types, OnRemove
    PROVE  /\ job.ns \in Namespace /\ job = Trigger("remove", job.ns)
           /\ namespaces' = [namespaces EXCEPT ![job.ns] = None]
           /\ toClose' = toClose \ {job.ns}
           /\ \/ namespaces[job.ns] = None /\ job' = None
              \/ namespaces[job.ns] \in Handler /\ job' = Closing(namespaces[job.ns])
           /\ UNCHANGED <<fileSystem, watching, ns, stop, hwatching, forms, main, stopCh,
                          doneCh, closing, overwritten, misled>>
<1>1. job.ns \in Namespace /\ job = Trigger("remove", job.ns)
  BY JobTypes DEF Types, OnRemove
<1>2. namespaces[job.ns] = None \/ namespaces[job.ns] \in Handler
  BY <1>1 DEF Types, MapTypes
<1> QED BY <1>1, <1>2 DEF OnRemove, Closing, handlers

\* And closes its channel.
LEMMA RemoveCloses ==
    ASSUME Types, OnRemoveCloses
    PROVE  \E h \in Handler :
             /\ job = Closing(h) /\ job' = None
             /\ stop' \in [Handler -> BOOLEAN] /\ ~stop[h]
             /\ \A x \in Handler : stop'[x] <=> stop[x] \/ x = h
             /\ UNCHANGED <<fileSystem, watching, namespaces, ns, hwatching, forms, process,
                            history>>
<1>1. job.handler \in Handler /\ job = Closing(job.handler)
  BY DEF OnRemoveCloses, Types, WatchTypes, Triggers, Closings, Closing
<1>2. job' = None /\ Close(job.handler) /\ ~stop[job.handler]
  BY DEF OnRemoveCloses, Close
<1>3. UNCHANGED <<fileSystem, watching, namespaces, ns, hwatching, forms, process, history>>
  BY DEF OnRemoveCloses
<1> QED BY <1>1, <1>2, <1>3, CloseEffect DEF Types

LEMMA KnownStep ==
    ASSUME Types, KnownInv, [Next]_vars
    PROVE  KnownInv'
<1>a. WatchTypes /\ MapTypes /\ ProcessTypes
  BY DEF Types
<1>b. \A h \in Used : h \in Handler /\ ns[h] \in Namespace
  BY <1>a DEF Used, MapTypes
<1>1. CASE \/ FileSystem \/ (\E h \in Used : HandlerStep(h)) \/ (\E v \in VanForm : LoopEnds(v))
           \/ UNCHANGED vars
  <2>1. UNCHANGED <<job, namespaces, ns, stop, overwritten>>
    BY <1>1, FileSystemLeaves, HandlerLeaves DEF LoopEnds, Apart, vars, handlers, history
  <2> QED BY <2>1 DEF KnownInv, Used
<1>2. CASE WatchStep
  <2>1. UNCHANGED <<namespaces, ns, stop, overwritten>>
    BY <1>2, WatchLeaves DEF history
  <2>2. \A h \in Handler : (job' = Closing(h) <=> job = Closing(h))
    BY <1>a, <1>2, WatchDoes, TriggerTypes
  <2> QED BY <2>1, <2>2 DEF KnownInv, Used
<1>3. CASE OnCreate
  <2>1. /\ job.ns \in Namespace /\ job \in Triggers /\ job' = None /\ stop' = stop
        /\ overwritten' = overwritten \cup ({namespaces[job.ns]} \ {None})
    BY <1>a, <1>3, JobTypes, NewHandler DEF OnCreate
  <2>2. PICK h \in Handler : /\ ns[h] = None /\ ns' = [ns EXCEPT ![h] = job.ns]
                             /\ namespaces' = [namespaces EXCEPT ![job.ns] = h]
    BY <1>a, <1>3, NewHandler
  <2>3. ASSUME NEW x \in Used', x \notin overwritten'
        PROVE  stop'[x] \/ namespaces'[ns'[x]] = x
    <3>1. CASE x = h
      BY <1>a, <2>1, <2>2, <3>1 DEF MapTypes
    <3>2. CASE x # h
      <4>a. x \in Handler /\ ns'[x] # None
        BY <2>3 DEF Used
      <4>b. ns'[x] = ns[x]
        BY <1>a, <2>2, <3>2, <4>a DEF MapTypes
      <4>c. x \in Used
        BY <4>a, <4>b DEF Used
      <4>1. x \in Used /\ x \notin overwritten /\ ns'[x] = ns[x] /\ ns[x] \in Namespace
        BY <1>b, <2>1, <2>3, <4>b, <4>c
      <4>2. stop[x] \/ namespaces[ns[x]] = x
        BY <2>1, <4>1, TriggerTypes DEF KnownInv, Used
      <4>3. namespaces[ns[x]] = x => ns[x] # job.ns
        BY <2>1, <2>3, NoneAssumption DEF Used
      <4> QED BY <1>a, <2>1, <2>2, <4>1, <4>2, <4>3 DEF MapTypes
    <3> QED BY <3>1, <3>2
  <2> QED BY <2>1, <2>3, TriggerTypes DEF KnownInv
<1>4. CASE OnRemove
  <2>1. /\ job.ns \in Namespace /\ job = Trigger("remove", job.ns)
        /\ namespaces' = [namespaces EXCEPT ![job.ns] = None]
        /\ \/ namespaces[job.ns] = None /\ job' = None
           \/ namespaces[job.ns] \in Handler /\ job' = Closing(namespaces[job.ns])
        /\ UNCHANGED <<ns, stop, overwritten>>
    BY <1>4, Removes
  <2>2. job \in Triggers
    BY <2>1, TriggerTypes
  <2>3. ASSUME NEW x \in Used', x \notin overwritten'
        PROVE  stop'[x] \/ namespaces'[ns'[x]] = x \/ job' = Closing(x)
    <3>1. x \in Used \ overwritten /\ ns[x] \in Namespace /\ x \in Handler
      BY <1>b, <2>1, <2>3 DEF Used
    <3>2. stop[x] \/ namespaces[ns[x]] = x
      BY <2>2, <3>1, TriggerTypes DEF KnownInv
    <3> QED BY <1>a, <2>1, <3>1, <3>2, NoneAssumption DEF MapTypes
  <2>4. ASSUME NEW x \in Handler, job' = Closing(x)
        PROVE  namespaces'[ns'[x]] = None
    <3>1. x = namespaces[job.ns] /\ namespaces[job.ns] # None
      BY <2>1, <2>4, TriggerTypes, NoneAssumption
    <3>2. ns[x] = job.ns
      BY <1>a, <2>1, <3>1 DEF MapTypes
    <3> QED BY <1>a, <2>1, <3>2 DEF MapTypes
  <2> QED BY <2>3, <2>4 DEF KnownInv
<1>5. CASE OnRemoveCloses
  <2>1. PICK h \in Handler :
             /\ job = Closing(h) /\ job' = None
             /\ \A x \in Handler : stop'[x] <=> stop[x] \/ x = h
             /\ UNCHANGED <<namespaces, ns, history>>
    BY <1>5, RemoveCloses
  <2>2. \A x \in Handler : job = Closing(x) => x = h
    BY <2>1, TriggerTypes
  <2>3. UNCHANGED overwritten
    BY <2>1 DEF history
  <2> QED BY <2>1, <2>2, <2>3, TriggerTypes DEF KnownInv, Used
<1>6. CASE ShutdownStep
  <2>1. UNCHANGED <<namespaces, ns, job, overwritten>>
    BY <1>6, ShutdownLeaves DEF history
  <2>2. \A x \in Handler : stop[x] => stop'[x]
    BY <1>a, <1>6, CloseEffect, NoneAssumption
    DEF ShutdownStep, Signal, ShutdownBegins, ShutdownTakes, ShutdownCloses, ShutdownDone,
        ProcessTypes
  <2> QED BY <2>1, <2>2 DEF KnownInv, Used
<1>7. CASE Death
  BY <1>7, TriggerTypes DEF Death, Dies, Vanish, KnownInv, Used
<1> QED BY <1>1, <1>2, <1>3, <1>4, <1>5, <1>6, <1>7, Steps

LEMMA CloseStep ==
    ASSUME Types, KnownInv, CloseInv, [Next]_vars
    PROVE  CloseInv'
<1>a. WatchTypes /\ MapTypes /\ ProcessTypes
  BY DEF Types
<1>b. \A n \in toClose : /\ n \in Namespace /\ namespaces[n] \in Handler
                         /\ ns[namespaces[n]] = n
  BY <1>a DEF MapTypes, ProcessTypes
<1>1. CASE \/ FileSystem \/ (\E h \in Used : HandlerStep(h)) \/ (\E v \in VanForm : LoopEnds(v))
           \/ UNCHANGED vars
  <2>1. UNCHANGED <<job, namespaces, ns, stop, process>>
    BY <1>1, FileSystemLeaves, HandlerLeaves DEF LoopEnds, Apart, vars, handlers
  <2> QED BY <2>1 DEF process, CloseInv
<1>2. CASE WatchStep
  <2>1. UNCHANGED <<namespaces, ns, stop, stopCh, toClose, closing>>
    BY <1>2, WatchLeaves
  <2>2. \A h \in Handler : (job' = Closing(h) <=> job = Closing(h))
    BY <1>a, <1>2, WatchDoes, TriggerTypes
  <2>3. main' = main \/ (main = "run" /\ main' = "done")
    BY <1>a, <1>2, WatchDoes
  <2> QED BY <2>1, <2>2, <2>3 DEF CloseInv
<1>3. CASE OnCreate
  <2>1. /\ job.ns \in Namespace /\ job' = None
        /\ UNCHANGED <<stop, main, stopCh, closing>>
    BY <1>a, <1>3, JobTypes, NewHandler DEF OnCreate
  <2>2. PICK h \in Handler : /\ ns[h] = None /\ ns' = [ns EXCEPT ![h] = job.ns]
                             /\ namespaces' = [namespaces EXCEPT ![job.ns] = h]
    BY <1>a, <1>3, NewHandler
  <2>3. toClose' = toClose \/ toClose' = toClose \cup {job.ns}
    BY <1>3 DEF OnCreate
  <2>4. ~stop[h] /\ closing # h
    BY <1>a, <2>2 DEF MapTypes
  <2>5. \A x \in Handler \ {h} : /\ ns'[x] = ns[x]
                                 /\ ns[x] # None /\ namespaces'[ns[x]] = x =>
                                        namespaces[ns[x]] = x
    BY <1>a, <2>1, <2>2 DEF MapTypes
  <2>6. \A x \in Handler : stop[x] \/ closing = x => ns[x] # None
    BY <1>a DEF MapTypes
  <2>7. \A n \in toClose' : ~stop'[namespaces'[n]] /\ namespaces'[n] # closing'
    BY <1>a, <1>b, <2>1, <2>2, <2>3, <2>4 DEF MapTypes, CloseInv
  <2>8. closing' # None => main' = "shutdown"
                           /\ (stop'[closing'] => namespaces'[ns'[closing']] # closing')
    BY <1>a, <2>1, <2>4, <2>5, <2>6 DEF ProcessTypes, CloseInv
  <2>9. \A x \in Handler : stop'[x] /\ (namespaces'[ns'[x]] = x \/ job' = Closing(x)) =>
            main' # "run" /\ stopCh'
    BY <2>1, <2>4, <2>5, <2>6, TriggerTypes DEF CloseInv
  <2> QED BY <2>1, <2>7, <2>8, <2>9 DEF CloseInv
<1>4. CASE OnRemove
  <2>1. /\ job.ns \in Namespace
        /\ namespaces' = [namespaces EXCEPT ![job.ns] = None]
        /\ toClose' = toClose \ {job.ns}
        /\ \/ namespaces[job.ns] = None /\ job' = None
           \/ namespaces[job.ns] \in Handler /\ job' = Closing(namespaces[job.ns])
        /\ UNCHANGED <<ns, stop, main, stopCh, closing>>
    BY <1>4, Removes
  <2>2. ASSUME NEW x \in Handler, stop[x],
               namespaces'[ns[x]] = x \/ job' = Closing(x)
        PROVE  namespaces[ns[x]] = x
    <3>1. CASE job' = Closing(x)
      <4>1. x = namespaces[job.ns] /\ namespaces[job.ns] # None
        BY <2>1, <3>1, TriggerTypes, NoneAssumption
      <4> QED BY <1>a, <2>1, <4>1 DEF MapTypes
    <3>2. CASE namespaces'[ns[x]] = x
      <4>1. ns[x] \in Namespace
        BY <1>a, <2>2 DEF MapTypes
      <4> QED BY <1>a, <2>1, <3>2, <4>1, NoneAssumption DEF MapTypes
    <3> QED BY <2>2, <3>1, <3>2
  <2>3. \A n \in toClose' : ~stop'[namespaces'[n]] /\ namespaces'[n] # closing'
    BY <1>a, <1>b, <2>1 DEF MapTypes, CloseInv
  <2>4. closing' # None => main' = "shutdown"
                           /\ (stop'[closing'] => namespaces'[ns'[closing']] # closing')
    BY <1>a, <2>1, <2>2 DEF ProcessTypes, CloseInv
  <2>5. \A x \in Handler : stop'[x] /\ (namespaces'[ns'[x]] = x \/ job' = Closing(x)) =>
            main' # "run" /\ stopCh'
    BY <2>1, <2>2 DEF CloseInv
  <2> QED BY <2>1, <2>3, <2>4, <2>5 DEF CloseInv
<1>5. CASE OnRemoveCloses
  <2>1. PICK h \in Handler :
             /\ job = Closing(h) /\ job' = None
             /\ \A x \in Handler : stop'[x] <=> stop[x] \/ x = h
             /\ UNCHANGED <<namespaces, ns, process>>
    BY <1>5, RemoveCloses
  <2>2. namespaces[ns[h]] = None
    BY <2>1 DEF KnownInv
  <2>3. \A n \in toClose : namespaces[n] # h
    BY <1>b, <2>2, NoneAssumption
  <2>4. UNCHANGED <<main, stopCh, toClose, closing>>
    BY <2>1 DEF process
  <2>5. \A n \in toClose' : ~stop'[namespaces'[n]] /\ namespaces'[n] # closing'
    BY <1>b, <2>1, <2>3, <2>4 DEF CloseInv
  <2>6. closing' # None => main' = "shutdown"
                           /\ (stop'[closing'] => namespaces'[ns'[closing']] # closing')
    BY <1>a, <2>1, <2>2, <2>4, NoneAssumption DEF ProcessTypes, CloseInv
  <2>7. \A x \in Handler : stop'[x] /\ (namespaces'[ns'[x]] = x \/ job' = Closing(x)) =>
            main' # "run" /\ stopCh'
    BY <2>1, <2>2, <2>4, TriggerTypes, NoneAssumption DEF CloseInv
  <2> QED BY <2>4, <2>5, <2>6, <2>7 DEF CloseInv
<1>6. CASE ShutdownStep
  <2>1. UNCHANGED <<namespaces, ns, job>>
    BY <1>6, ShutdownLeaves
  <2>2. CASE ShutdownCloses
    <3>1. /\ closing \in Handler /\ closing' = None
          /\ UNCHANGED <<main, stopCh, toClose>>
      BY <1>a, <2>2 DEF ShutdownCloses, ProcessTypes
    <3>2. \A x \in Handler : stop'[x] <=> stop[x] \/ x = closing
      BY <1>a, <2>2, <3>1, CloseEffect DEF ShutdownCloses
    <3>3. main = "shutdown" /\ stopCh
      BY <3>1, NoneAssumption DEF CloseInv
    <3>4. \A n \in toClose' : ~stop'[namespaces'[n]] /\ namespaces'[n] # closing'
      BY <1>b, <2>1, <3>1, <3>2, NoneAssumption DEF CloseInv
    <3> QED BY <3>1, <3>3, <3>4 DEF CloseInv
  <2>3. ASSUME NEW n \in Namespace, ShutdownTakes(n)
        PROVE  CloseInv'
    <3>1. /\ n \in toClose /\ toClose' = toClose \ {n} /\ closing' = namespaces[n]
          /\ main = "shutdown" /\ UNCHANGED <<stop, main, stopCh>>
      BY <2>3 DEF ShutdownTakes, Walking
    <3>2. ~stop[namespaces[n]]
      BY <3>1 DEF CloseInv
    <3>3. \A m \in toClose' : namespaces[m] # namespaces[n] /\ ~stop[namespaces[m]]
      BY <1>b, <3>1 DEF CloseInv
    <3> QED BY <2>1, <3>1, <3>2, <3>3 DEF CloseInv
  <2>4. CASE ShutdownBegins
    <3>1. /\ main = "run" /\ stopCh /\ main' = "shutdown" /\ UNCHANGED <<stop, stopCh, closing>>
          /\ toClose' = {n \in Namespace : namespaces[n] # None}
      BY <2>4 DEF ShutdownBegins
    <3>2. closing = None
      BY <3>1 DEF CloseInv
    <3>3. \A n \in toClose' : ~stop[namespaces[n]] /\ namespaces[n] # None
      BY <1>a, <3>1 DEF MapTypes, CloseInv
    <3> QED BY <2>1, <3>1, <3>2, <3>3 DEF CloseInv
  <2>5. CASE Signal \/ ShutdownDone
    BY <2>1, <2>5 DEF Signal, ShutdownDone, CloseInv
  <2> QED BY <1>6, <2>2, <2>3, <2>4, <2>5 DEF ShutdownStep
<1>7. CASE Death /\ (main' = "panicked" => OnRemovePanics \/ ShutdownPanics)
  <2>1. OnRemovePanics => stopCh
    <3> SUFFICES ASSUME OnRemovePanics PROVE stopCh
      OBVIOUS
    <3>1. job.handler \in Handler /\ job = Closing(job.handler) /\ stop[job.handler]
      BY <1>a DEF OnRemovePanics, WatchTypes, Triggers, Closings, Closing
    <3> QED BY <3>1 DEF CloseInv
  <2>2. ShutdownPanics => stopCh
    BY DEF ShutdownPanics, CloseInv
  <2>3. main' = "panicked" => stopCh'
    BY <1>7, <2>1, <2>2 DEF Death, Dies
  <2>4. /\ main' \in {"exited", "panicked", "fatal"} /\ closing' = None /\ toClose' = {}
        /\ \A h \in Handler : ~stop'[h]
    BY <1>7 DEF Death, Dies, Vanish
  <2> QED BY <2>3, <2>4 DEF CloseInv
<1> QED BY <1>1, <1>2, <1>3, <1>4, <1>5, <1>6, <1>7, Steps

Known == Types /\ KnownInv /\ CloseInv

LEMMA InitKnown == Init => Known
<1> SUFFICES ASSUME Init PROVE Known
  OBVIOUS
<1>1. Types
  BY InitTypes
<1>2. KnownInv /\ CloseInv
  BY TriggerTypes DEF Init, KnownInv, CloseInv, Used
<1> QED BY <1>1, <1>2 DEF Known

LEMMA StepKnown == Known /\ [Next]_vars => Known'
BY StepTypes, KnownStep, CloseStep DEF Known

\* What is running can still be stopped: the channel of a VanForm that has not been
\* stopped is in its handler's field, and a handler that was not replaced is in the
\* map or has been stopped, or is about to be (controller.go:91-116, 157-186).
THEOREM NothingIsForgotten == Spec => []NoneForgotten
<1>1. Known => NoneForgotten
  <2> SUFFICES ASSUME Known PROVE NoneForgotten
    OBVIOUS
  <2>1. \A v \in Live : closed[v] \/ field[home[v]] = v
    BY DEF Known, Types, FormInv, Live
  <2>2. \A h \in Handler : field[h] # None => ~closed[field[h]]
    BY DEF Known, Types, FormInv
  <2>3. \A h \in Used \ overwritten :
          \/ stop[h] \/ namespaces[ns[h]] = h
          \/ job # None /\ job = [op |-> "close", handler |-> h]
    BY TriggerTypes DEF Known, KnownInv, Closing, Used
  <2> QED BY <2>1, <2>2, <2>3 DEF NoneForgotten
<1> QED BY <1>1, InitKnown, StepKnown, PTL DEF Spec

\* Two VanForms of a namespace that are not being stopped have two handlers, and one
\* of these was replaced in the map or has been stopped (controller.go:91-116).
THEOREM AtMostOneServes == Spec => []OneServes
<1>1. Known => OneServes
  <2> SUFFICES ASSUME Known, NEW v \in Live, NEW w \in Live,
                      v # w, ~closed[v], ~closed[w], ns[home[v]] = ns[home[w]],
                      home[v] \notin overwritten, home[w] \notin overwritten,
                      ~stop[home[v]], ~stop[home[w]]
               PROVE  FALSE
    BY DEF OneServes
  <2>1. /\ field[home[v]] = v /\ field[home[w]] = w
        /\ home[v] \in Used /\ home[w] \in Used
    BY DEF Known, Types, FormInv, Live, Used
  <2>2. home[v] # home[w]
    BY <2>1
  <2>3. /\ namespaces[ns[home[v]]] = home[v] \/ job = Closing(home[v])
        /\ namespaces[ns[home[w]]] = home[w] \/ job = Closing(home[w])
    BY <2>1 DEF Known, KnownInv
  <2>4. /\ job = Closing(home[v]) => namespaces[ns[home[v]]] = None
        /\ job = Closing(home[w]) => namespaces[ns[home[w]]] = None
    BY <2>1 DEF Known, KnownInv, Used
  <2>5. job = Closing(home[v]) /\ job = Closing(home[w])
    BY <2>1, <2>2, <2>3, <2>4, NoneAssumption DEF Used
  <2>6. \A h \in Handler : Closing(h).handler = h
    BY TriggerTypes
  <2>7. home[v] = job.handler /\ home[w] = job.handler
    BY <2>1, <2>5, <2>6 DEF Used
  <2> QED BY <2>2, <2>7
<1> QED BY <1>1, InitKnown, StepKnown, PTL DEF Spec

\* The channel of a handler is closed twice, which panics, only in a shutdown whose
\* walk holds a handler that OnRemove has taken out of the map (controller.go:74-79,
\* 107-116).
THEOREM ClosedTwiceOnlyInShutdown == Spec => []ClosedOnce
<1>1. Known => ClosedOnce
  BY DEF Known, CloseInv, ClosedOnce
<1> QED BY <1>1, InitKnown, StepKnown, PTL DEF Spec

------------------------------------------------------------------------------
(* A namespace that has gone leaves the map. *)

\* The removal of n is still to come to OnRemove.
RemovalDue(n) == Trigger("remove", n) \in {job, event} \cup Held(queue)

\* Nothing has happened before the watch is added.  Then the removal of a namespace
\* in the map is queued, passes Filter for it is in the map, and waits for OnRemove.
ReleasedInv ==
    /\ watch = "start" =>
        /\ job = None /\ event = None /\ queue = << >> /\ found = None /\ scan = {}
        /\ \A n \in Namespace : namespaces[n] = None
    /\ \A n \in Namespace :
        watch # "ended" /\ namespaces[n] # None /\ ~dir[n] => n \in unnoticed \/ RemovalDue(n)

\* What is due stays due through what only adds to the queue.
LEMMA ReportAdds ==
    ASSUME WatchTypes, NEW n \in Namespace, NEW op \in {"create", "remove"}, Report(op, n)
    PROVE  /\ watch \in {"added", "on"} => Held(queue') = Held(queue) \cup {Trigger(op, n)}
           /\ watch \notin {"added", "on"} => queue' = queue
           /\ Held(queue) \subseteq Held(queue')
BY TriggerTypes, AddLast DEF Report, WatchTypes

\* What the file system does to the controller's queue.
LEMMA FileSystemReports ==
    ASSUME FileTypes, FileSystem
    PROVE  \E n \in Namespace :
             \/ ~dir[n] /\ dir' = [dir EXCEPT ![n] = TRUE] /\ Report("create", n)
             \/ dir[n] /\ dir' = [dir EXCEPT ![n] = FALSE] /\ Report("remove", n)
             \/ UNCHANGED <<dir, queue>>
BY DEF FileSystem, MakeNamespace, RemoveNamespace, MakeRuntime, RemoveRuntime, CreateConfigMap,
       RemoveConfigMap, watching

LEMMA EndedStays == [Next]_vars /\ watch = "ended" => watch' = "ended"
<1> SUFFICES ASSUME [Next]_vars, watch = "ended" PROVE watch' = "ended"
  OBVIOUS
<1>1. CASE \/ FileSystem \/ (\E h \in Used : HandlerStep(h)) \/ ShutdownStep
  BY <1>1, FileSystemLeaves, HandlerLeaves, ShutdownLeaves DEF watching
<1>2. CASE WatchStep
  BY <1>2 DEF WatchStep, NoWatcher, WatchAdded, WatchRead, FilterFound, FilterEvent, Dispatch,
              WatchEnds
<1>3. CASE \/ OnCreate \/ OnRemove \/ OnRemoveCloses \/ (\E v \in VanForm : LoopEnds(v)) \/ Death
           \/ UNCHANGED vars
  BY <1>3 DEF OnCreate, OnRemove, OnRemoveCloses, LoopEnds, Apart, Death, Dies, Vanish, vars,
              watching
<1> QED BY <1>1, <1>2, <1>3, Steps

\* What is due stays due until OnRemove takes the namespace out of the map, for what is
\* in the map passes Filter.
LEMMA DueStays ==
    ASSUME Types, [Next]_vars, watch' # "ended",
           NEW n \in Namespace, namespaces[n] # None, RemovalDue(n)
    PROVE  RemovalDue(n)' \/ (OnRemove /\ namespaces'[n] = None)
<1> DEFINE r == Trigger("remove", n)
<1>a. /\ WatchTypes /\ MapTypes /\ r \in Triggers /\ r # None /\ r.ns = n
      /\ r \in {job, event} \cup Held(queue) /\ watch # "ended"
  BY TriggerTypes, EndedStays DEF Types, RemovalDue, Trigger
<1>b. SUFFICES r \in {job', event'} \cup Held(queue') \/ (OnRemove /\ namespaces'[n] = None)
  BY DEF RemovalDue, Trigger
<1>c. \A x \in Namespace : r # Trigger("create", x)
  BY DEF Trigger
<1>d. \A x \in Namespace : r = Trigger("remove", x) => n = x
  BY DEF Trigger
<1>e. \A h \in Handler : r # Closing(h)
  BY <1>a, TriggerTypes
<1> HIDE DEF r
<1>1. CASE FileSystem
  <2>1. UNCHANGED <<event, job>>
    BY <1>1, FileSystemLeaves
  <2>2. Held(queue) \subseteq Held(queue')
    BY <1>a, <1>1, FileSystemReports, ReportAdds DEF Types
  <2> QED BY <1>a, <2>1, <2>2
<1>2. CASE FilterEvent
  <2>1. /\ event = None /\ queue # << >> /\ queue' = Tail(queue) /\ job' = job
        /\ event' = IF Filter(Head(queue).ns) THEN Head(queue) ELSE None
    BY <1>2 DEF FilterEvent
  <2>2. Held(queue) = {Head(queue)} \cup Held(queue')
    BY <1>a, <2>1, TakeFirst DEF WatchTypes
  <2>3. Head(queue) = r => event' = r
    BY <1>a, <2>1 DEF Filter
  <2> QED BY <1>a, <2>1, <2>2, <2>3
<1>3. CASE Dispatch
  BY <1>a, <1>3 DEF Dispatch
<1>4. CASE NoWatcher \/ WatchAdded \/ WatchRead \/ WatchEnds
           \/ (\E x \in Namespace : FilterFound(x))
  BY <1>a, <1>4 DEF NoWatcher, WatchAdded, WatchRead, WatchEnds, FilterFound
<1>5. CASE OnCreate
  <2>1. job.ns \in Namespace /\ job = Trigger("create", job.ns) /\ UNCHANGED <<queue, event>>
    BY <1>a, <1>5, JobTypes DEF OnCreate, watching
  <2> QED BY <1>a, <1>c, <2>1
<1>6. CASE OnRemove
  <2>1. /\ job.ns \in Namespace /\ job = Trigger("remove", job.ns)
        /\ namespaces' = [namespaces EXCEPT ![job.ns] = None] /\ UNCHANGED <<queue, event>>
    BY <1>6, Removes DEF watching
  <2>2. CASE job = r
    BY <1>a, <1>d, <1>6, <2>1, <2>2 DEF MapTypes
  <2> QED BY <1>a, <2>1, <2>2
<1>7. CASE OnRemoveCloses
  <2>1. (\E h \in Handler : job = Closing(h)) /\ UNCHANGED <<queue, event>>
    BY <1>7, RemoveCloses DEF watching
  <2> QED BY <1>a, <1>e, <2>1
<1>8. CASE \/ (\E h \in Used : HandlerStep(h)) \/ (\E v \in VanForm : LoopEnds(v))
           \/ ShutdownStep \/ UNCHANGED vars
  <2>1. UNCHANGED <<queue, event, job>>
    BY <1>8, HandlerLeaves, ShutdownLeaves DEF LoopEnds, Apart, vars, watching
  <2> QED BY <1>a, <2>1
<1>9. CASE Death
  BY <1>9 DEF Death, Dies, Vanish
<1> QED BY <1>1, <1>2, <1>3, <1>4, <1>5, <1>6, <1>7, <1>8, <1>9, Steps DEF WatchStep

LEMMA ReleasedStep ==
    ASSUME Types, ReleasedInv, [Next]_vars
    PROVE  ReleasedInv'
<1>a. WatchTypes /\ MapTypes /\ FileTypes
  BY DEF Types
<1> DEFINE Calm == /\ job = None /\ event = None /\ queue = << >> /\ found = None /\ scan = {}
                   /\ \A n \in Namespace : namespaces[n] = None
<1>1. CASE FileSystem
  <2>1. UNCHANGED <<watch, scan, found, event, job, namespaces, unnoticed>>
    BY <1>1, FileSystemLeaves
  <2>2. PICK n \in Namespace :
             \/ ~dir[n] /\ dir' = [dir EXCEPT ![n] = TRUE] /\ Report("create", n)
             \/ dir[n] /\ dir' = [dir EXCEPT ![n] = FALSE] /\ Report("remove", n)
             \/ UNCHANGED <<dir, queue>>
    BY <1>a, <1>1, FileSystemReports
  <2>3. watch \notin {"added", "on"} => queue' = queue
    BY <1>a, <2>2, ReportAdds
  <2>4. ASSUME NEW m \in Namespace, watch # "ended", namespaces[m] # None, ~dir'[m], dir[m]
        PROVE  RemovalDue(m)'
    <3>1. m = n /\ Report("remove", n)
      BY <1>a, <2>2, <2>4 DEF FileTypes
    <3>2. watch \in {"added", "on"}
      BY <1>a, <2>4 DEF WatchTypes, ReleasedInv
    <3>3. Trigger("remove", m) \in Held(queue')
      BY <1>a, <3>1, <3>2, ReportAdds
    <3> QED BY <3>3 DEF RemovalDue, Trigger
  <2> QED BY <2>1, <2>3, <2>4, DueStays DEF ReleasedInv
<1>2. CASE OnCreate
  <2> PICK m \in Namespace : m = job.ns
    BY <1>a, <1>2, JobTypes DEF OnCreate
  <2>1. /\ job # None /\ UNCHANGED <<dir, watch, queue, event>>
        /\ unnoticed' = IF ~dir[m] /\ Trigger("remove", m) \notin {event} \cup Held(queue)
                        THEN unnoticed \cup {m} ELSE unnoticed
    BY <1>2 DEF OnCreate, watching, fileSystem, Held
  <2>2. PICK h \in Handler : namespaces' = [namespaces EXCEPT ![m] = h]
    BY <1>a, <1>2, NewHandler
  <2>3. ~dir[m] => m \in unnoticed' \/ RemovalDue(m)'
    BY <2>1 DEF RemovalDue
  <2>4. \A n \in Namespace \ {m} : namespaces'[n] = namespaces[n]
    BY <1>a, <2>2 DEF MapTypes
  <2>5. ~OnRemove /\ watch # "start"
    BY <1>2, <2>1 DEF OnCreate, OnRemove, ReleasedInv
  <2> QED BY <2>1, <2>3, <2>4, <2>5, DueStays DEF ReleasedInv
<1>3. CASE OnRemove
  <2>1. /\ job.ns \in Namespace /\ namespaces' = [namespaces EXCEPT ![job.ns] = None]
        /\ UNCHANGED <<dir, watch>> /\ unnoticed' = unnoticed \ {job.ns} /\ job # None
    BY <1>3, Removes DEF OnRemove, watching, fileSystem
  <2>2. /\ namespaces'[job.ns] = None
        /\ \A n \in Namespace \ {job.ns} : namespaces'[n] = namespaces[n]
    BY <1>a, <2>1 DEF MapTypes
  <2>3. watch # "start"
    BY <2>1 DEF ReleasedInv
  <2> QED BY <2>1, <2>2, <2>3, DueStays DEF ReleasedInv
<1>4. CASE WatchStep
  <2>1. UNCHANGED <<dir, namespaces, unnoticed>>
    BY <1>4, WatchLeaves DEF fileSystem, history
  <2>2. watch' = "start" => watch = "start" /\ (Calm => Calm')
    BY <1>4 DEF WatchStep, NoWatcher, WatchAdded, WatchRead, FilterFound, FilterEvent, Dispatch,
                WatchEnds
  <2>3. ~OnRemove \/ namespaces' = namespaces
    BY <2>1
  <2> QED BY <2>1, <2>2, <2>3, DueStays, EndedStays DEF ReleasedInv
<1>5. CASE \/ (\E h \in Used : HandlerStep(h)) \/ (\E v \in VanForm : LoopEnds(v))
           \/ ShutdownStep \/ UNCHANGED vars
  <2>1. UNCHANGED <<dir, watch, scan, queue, found, event, job, namespaces, unnoticed>>
    BY <1>5, HandlerLeaves, ShutdownLeaves
    DEF LoopEnds, Apart, vars, fileSystem, watching, history
  <2> QED BY <2>1 DEF ReleasedInv, RemovalDue
<1>6. CASE OnRemoveCloses
  <2>1. UNCHANGED <<dir, watch, namespaces, unnoticed>> /\ job # None
    BY <1>6 DEF OnRemoveCloses, watching, fileSystem, history
  <2>2. watch # "start"
    BY <2>1 DEF ReleasedInv
  <2> QED BY <2>1, <2>2, DueStays DEF ReleasedInv
<1>7. CASE Death
  BY <1>7 DEF Death, Dies, Vanish, ReleasedInv
<1> QED BY <1>1, <1>2, <1>3, <1>4, <1>5, <1>6, <1>7, Steps

\* When all is quiet no namespace that has gone is in the map, unless its OnCreate came
\* after its removal, which Filter had rejected (controller.go:91-124).
THEOREM TheGoneAreReleased == Spec => []Released
<1>1. Init => ReleasedInv
  BY DEF Init, ReleasedInv
<1>2. Types /\ ReleasedInv /\ [Next]_vars => Types' /\ ReleasedInv'
  BY StepTypes, ReleasedStep
<1>3. ReleasedInv => Released
  <2> SUFFICES ASSUME ReleasedInv, Idle, NEW n \in Namespace, namespaces[n] # None
               PROVE  dir[n] \/ n \in unnoticed
    BY DEF Released
  <2>1. job = None /\ event = None /\ queue = << >> /\ watch = "on"
    BY DEF Idle
  <2>2. Trigger("remove", n) # None
    BY TriggerTypes
  <2>3. ~RemovalDue(n)
    BY <2>1, <2>2, EmptyQueue DEF RemovalDue
  <2> QED BY <2>1, <2>3 DEF ReleasedInv
<1> QED BY <1>1, <1>2, <1>3, InitTypes, PTL DEF Spec

------------------------------------------------------------------------------
(* What a handler's watcher reports reaches its VanForm. *)

\* The ConfigMap is there and watched.
Sure(h) == cm[ns[h]] /\ hwatch[h] = "on"

\* As long as the ConfigMap is there and watched its removal will be queued; otherwise
\* a removal is queued behind every creation.  So a VanForm whose ConfigMap has gone
\* has a removal to come, unless its handler was stopped or misled.
Told(h) ==
    /\ Sure(h) \/ h \in misled \/ Followed(hqueue[h], "create", "remove")
    /\ hevent[h] = "create" /\ h \notin misled => Sure(h) \/ "remove" \in Held(hqueue[h])
    /\ field[h] # None /\ ~cm[ns[h]] /\ ~stop[h] /\ h \notin misled =>
        "remove" \in {hevent[h]} \cup Held(hqueue[h])

ToldInv == \A h \in Used : Told(h)

LEMMA TellAdds ==
    ASSUME HTypes, NEW n \in Namespace, NEW op \in Events, Tell(n, op),
           NEW h \in Handler
    PROVE  \/ /\ Watches(h, n)
              /\ Held(hqueue'[h]) = Held(hqueue[h]) \cup {op}
              /\ \A x, y : x # op /\ (y = op \/ Followed(hqueue[h], x, y)) =>
                    Followed(hqueue'[h], x, y)
           \/ ~Watches(h, n) /\ hqueue'[h] = hqueue[h]
<1>1. CASE Watches(h, n)
  <2>1. hqueue'[h] = Append(hqueue[h], op) /\ hqueue[h] \in Seq(Events)
    BY <1>1, TellEffect DEF HTypes
  <2> QED BY <1>1, <2>1, AddLast
<1>2. CASE ~Watches(h, n)
  BY <1>2, TellEffect
<1> QED BY <1>1, <1>2

LEMMA ToldOfFiles ==
    ASSUME Types, ToldInv, FileSystem, NEW h \in Used
    PROVE  Told(h)'
<1>a. /\ h \in Handler /\ ns[h] \in Namespace /\ Told(h) /\ HTypes
      /\ cm \in [Namespace -> BOOLEAN]
  BY DEF Used, Types, MapTypes, FileTypes, ToldInv
<1>b. UNCHANGED <<ns, stop, field, hscan, hevent>>
  BY FileSystemLeaves DEF forms
<1>c. "create" \in Events /\ "remove" \in Events /\ "gone" \in Events
  BY DEF Events
<1> PICK n \in Namespace : FileStepIn(n)
  BY DEF FileSystem, FileStepIn
<1>1. CASE MakeNamespace(n) \/ RemoveNamespace(n) \/ MakeRuntime(n)
  <2>1. UNCHANGED <<cm, hwatch, hqueue, misled>>
    BY <1>1 DEF MakeNamespace, RemoveNamespace, MakeRuntime
  <2> QED BY <1>a, <1>b, <2>1 DEF Told, Sure
<1>2. CASE RemoveRuntime(n)
  <2>1. /\ ~cm[n] /\ cm' = cm /\ misled' = misled /\ Tell(n, "gone")
        /\ hwatch'[h] = IF Watches(h, n) THEN "lost" ELSE hwatch[h]
    BY <1>a, <1>2 DEF RemoveRuntime
  <2>2. Sure(h)' <=> Sure(h)
    BY <1>b, <2>1 DEF Sure, Watches
  <2> QED BY <1>a, <1>b, <1>c, <2>1, <2>2, TellAdds DEF Told
<1>3. CASE CreateConfigMap(n)
  <2>1. /\ cm' = [cm EXCEPT ![n] = TRUE] /\ misled' = misled /\ Tell(n, "create")
        /\ hwatch' = hwatch
    BY <1>a, <1>3 DEF CreateConfigMap
  <2>2. cm[ns[h]] \/ ns[h] = n => cm'[ns[h]]
    BY <1>a, <2>1
  <2>3. Sure(h) => Sure(h)'
    BY <1>b, <2>1, <2>2 DEF Sure
  <2>4. CASE Watches(h, n)
    <3>1. Sure(h)'
      BY <1>b, <2>1, <2>2, <2>4 DEF Sure, Watches
    <3> QED BY <1>b, <2>2, <2>4, <3>1 DEF Told, Watches
  <2>5. CASE ~Watches(h, n)
    <3>1. hqueue'[h] = hqueue[h]
      BY <1>a, <1>c, <2>1, <2>5, TellAdds
    <3> QED BY <1>a, <1>b, <2>1, <2>2, <2>3, <3>1 DEF Told
  <2> QED BY <2>4, <2>5
<1>4. CASE RemoveConfigMap(n)
  <2>1. /\ cm' = [cm EXCEPT ![n] = FALSE] /\ Tell(n, "remove") /\ hwatch' = hwatch
        /\ misled' = misled \cup {x \in Handler :
             ns[x] = n /\ field[x] # None /\ ~Watches(x, n)}
    BY <1>a, <1>4 DEF RemoveConfigMap
  <2>2. /\ cm'[ns[h]] = (cm[ns[h]] /\ ns[h] # n)
        /\ h \notin misled' => h \notin misled
    BY <1>a, <2>1
  <2>3. CASE Watches(h, n)
    <3>1. Followed(hqueue'[h], "create", "remove") /\ "remove" \in Held(hqueue'[h])
      BY <1>a, <1>c, <2>1, <2>3, TellAdds
    <3> QED BY <3>1 DEF Told
  <2>4. CASE ~Watches(h, n)
    <3>1. hqueue'[h] = hqueue[h]
      BY <1>a, <1>c, <2>1, <2>4, TellAdds
    <3>2. Sure(h)' <=> Sure(h)
      BY <1>b, <2>1, <2>2, <2>4 DEF Sure, Watches
    <3>3. ns[h] = n /\ field[h] # None => h \in misled'
      BY <1>a, <2>1, <2>4
    <3>4. h \in misled => h \in misled'
      BY <2>1
    <3> QED BY <1>a, <1>b, <2>2, <3>1, <3>2, <3>3, <3>4 DEF Told
  <2> QED BY <2>3, <2>4
<1> QED BY <1>1, <1>2, <1>3, <1>4 DEF FileStepIn

LEMMA ToldByWatcher ==
    ASSUME Types, ToldInv, NEW h \in Used, HandlerStep(h)
    PROVE  Told(h)'
<1>a. /\ h \in Handler /\ ns[h] \in Namespace /\ Told(h) /\ MapTypes /\ FormInv /\ HTypes
      /\ hqueue[h] \in Seq(Events) /\ cm \in [Namespace -> BOOLEAN]
  BY DEF Used, Types, MapTypes, FileTypes, HTypes, ToldInv
<1>b. UNCHANGED <<cm, ns, stop>>
  BY HandlerLeaves DEF fileSystem
<1>1. CASE HAttach(h) \/ HRead(h)
  <2>1. /\ UNCHANGED <<hqueue, hevent, field, misled>>
        /\ hwatch'[h] = "on" \/ hwatch'[h] = hwatch[h]
    BY <1>a, <1>1 DEF HAttach, HRead, forms, history, HTypes
  <2>2. Sure(h) => Sure(h)'
    BY <1>b, <2>1 DEF Sure
  <2> QED BY <1>a, <1>b, <2>1, <2>2 DEF Told
<1>2. CASE HForget(h)
  <2>1. /\ hwatch[h] = "lost" /\ hwatch'[h] = "wait" /\ Head(hqueue[h]) = "gone"
        /\ hqueue[h] # << >> /\ hqueue'[h] = Tail(hqueue[h])
        /\ UNCHANGED <<hevent, field, misled>>
    BY <1>a, <1>2 DEF HForget, forms, history, HTypes
  <2>2. ~Sure(h)
    BY <2>1 DEF Sure
  <2> QED BY <1>a, <1>b, <2>1, <2>2, TakeFirst DEF Told
<1>3. CASE HDrop(h)
  <2>1. /\ hwatch[h] = "lost" /\ hwatch'[h] = "wait" /\ UNCHANGED <<hevent, field>>
    BY <1>a, <1>3 DEF HDrop, forms, HTypes
  <2>2. PICK kept \in {0} \cup {k \in {1} : hqueue[h] # << >> /\ hqueue[h][k] # "gone"} :
            /\ hqueue'[h] = SubSeq(hqueue[h], 1, kept)
            /\ misled' = IF \E i \in DOMAIN hqueue[h] : i > kept /\ hqueue[h][i] = "remove"
                         THEN misled \cup {h} ELSE misled
    BY <1>a, <1>3 DEF HDrop, HTypes
  <2>3. /\ DOMAIN hqueue'[h] = 1..kept /\ 1..kept \subseteq DOMAIN hqueue[h]
        /\ \A i \in 1..kept : hqueue'[h][i] = hqueue[h][i]
        /\ \A i \in DOMAIN hqueue[h] : i \in Nat /\ i >= 1
    <3>1. \A i \in DOMAIN hqueue[h] : i \in Nat /\ i >= 1
      BY <1>a
    <3>2. hqueue[h] \in Seq(Events)
      BY <1>a
    <3>3. /\ DOMAIN SubSeq(hqueue[h], 1, kept) = 1..kept /\ 1..kept \subseteq DOMAIN hqueue[h]
          /\ \A i \in 1..kept : SubSeq(hqueue[h], 1, kept)[i] = hqueue[h][i]
      BY <3>2, Kept
    <3> QED BY <2>2, <3>1, <3>3
  <2>4. kept \in {0, 1}
    OBVIOUS
  <2>5. ~Sure(h) /\ (h \notin misled' => h \notin misled)
    BY <2>1, <2>2 DEF Sure
  <2>6. SUFFICES ASSUME h \notin misled'
                 PROVE  Told(h)'
    BY <1>a, <1>b, <2>1, <2>3 DEF Told
  <2>7. \A i \in DOMAIN hqueue[h] : hqueue[h][i] = "remove" => i \in 1..kept
    BY <2>2, <2>3, <2>4, <2>6
  <2>8. "remove" \in Held(hqueue[h]) => "remove" \in Held(hqueue'[h])
    BY <2>3, <2>7 DEF Held
  <2>9. Followed(hqueue[h], "create", "remove")
    BY <1>a, <2>5, <2>6 DEF Told
  <2>10. \A i \in DOMAIN hqueue'[h] : hqueue'[h][i] # "create"
    BY <2>3, <2>4, <2>7, <2>9 DEF Followed
  <2>11. Followed(hqueue'[h], "create", "remove")
    BY <2>10 DEF Followed
  <2> QED BY <1>a, <1>b, <2>1, <2>5, <2>6, <2>8, <2>11 DEF Told
<1>4. CASE HTake(h)
  <2>1. /\ hevent[h] = None /\ hqueue[h] # << >> /\ hqueue'[h] = Tail(hqueue[h])
        /\ hevent'[h] = Head(hqueue[h]) /\ UNCHANGED <<hwatch, field, misled>>
    BY <1>a, <1>4 DEF HTake, forms, history, HTypes
  <2>2. Sure(h)' <=> Sure(h)
    BY <1>b, <2>1 DEF Sure
  <2>3. /\ Held(hqueue[h]) = {hevent'[h]} \cup Held(hqueue'[h])
        /\ Followed(hqueue[h], "create", "remove") =>
             /\ Followed(hqueue'[h], "create", "remove")
             /\ hevent'[h] = "create" => "remove" \in Held(hqueue'[h])
    BY <1>a, <2>1, TakeFirst
  <2>4. "remove" # None
    BY NoneAssumption
  <2> QED BY <1>a, <1>b, <2>1, <2>2, <2>3, <2>4 DEF Told
<1>5. CASE HEnd(h)
  <2>1. stop[h] /\ hqueue'[h] = << >> /\ hevent'[h] = None
    BY <1>a, <1>5 DEF HEnd, HTypes
  <2> QED BY <1>b, <2>1, EmptyQueue, NoneAssumption DEF Told
<1>6. CASE HDeliver(h)
  <2>1. /\ UNCHANGED <<hwatch, hqueue>> /\ hevent'[h] = None /\ hevent[h] # None
        /\ \/ hevent[h] = "create" /\ HOnCreate(h) /\ misled' = misled
           \/ /\ hevent[h] # "create" /\ HOnRemove(h)
              /\ misled' = IF "create" \in Held(hqueue[h]) THEN misled ELSE misled \ {h}
    BY <1>a, <1>6 DEF HDeliver, HTypes, Queued, Held
  <2>2. Sure(h)' <=> Sure(h)
    BY <1>b, <2>1 DEF Sure
  <2>3. hevent[h] # "create" => field'[h] = None
    BY <1>a, <1>b, <2>1, StopsVanForm
  <2>4. "create" \notin Held(hqueue[h]) => Followed(hqueue[h], "create", "remove")
    BY DEF Held, Followed
  <2> QED BY <1>a, <1>b, <2>1, <2>2, <2>3, <2>4, NoneAssumption DEF Told, Sure
<1>7. CASE HScan(h)
  <2>1. /\ UNCHANGED <<hwatch, hqueue, hevent>> /\ (h \notin misled' => h \notin misled)
        /\ ~cm[ns[h]] /\ "remove" \notin {hevent[h]} \cup Held(hqueue[h]) => h \in misled'
    BY <1>a, <1>7 DEF HScan, Queued, Held
  <2>2. Sure(h)' <=> Sure(h)
    BY <1>b, <2>1 DEF Sure
  <2> QED BY <1>a, <1>b, <2>1, <2>2 DEF Told
<1> QED
  BY <1>1, <1>2, <1>3, <1>4, <1>5, <1>6, <1>7 DEF HandlerStep, HMonitor, HDispatcher

LEMMA ToldStep ==
    ASSUME Types, ToldInv, [Next]_vars
    PROVE  ToldInv'
<1>a. WatchTypes /\ MapTypes /\ HTypes /\ FormInv /\ ProcessTypes
  BY DEF Types
<1>1. CASE FileSystem
  <2>1. ns' = ns
    BY <1>1, FileSystemLeaves
  <2> QED BY <1>1, <2>1, ToldOfFiles DEF ToldInv, Used
<1>2. ASSUME NEW h \in Used, HandlerStep(h)
      PROVE  ToldInv'
  <2>1. UNCHANGED <<ns, stop, cm>>
    BY <1>2, HandlerLeaves DEF fileSystem
  <2>2. \A x \in Used \ {h} : /\ hwatch'[x] = hwatch[x] /\ hqueue'[x] = hqueue[x]
                              /\ hevent'[x] = hevent[x] /\ field'[x] = field[x]
                              /\ (x \in misled' <=> x \in misled)
    BY <1>2, HandlerAlone DEF Used
  <2>3. \A x \in Used \ {h} : Told(x)'
    BY <2>1, <2>2 DEF ToldInv, Told, Sure
  <2>4. Told(h)'
    BY <1>2, ToldByWatcher
  <2> QED BY <2>1, <2>3, <2>4 DEF ToldInv, Used
<1>3. CASE OnCreate
  <2>1. PICK h \in Handler : /\ ns[h] = None /\ ns' = [ns EXCEPT ![h] = job.ns]
                             /\ hwatch' = [hwatch EXCEPT ![h] = "wait"]
                                \/ hwatch' = [hwatch EXCEPT ![h] = "ended"]
    BY <1>a, <1>3, NewHandler
  <2>2. UNCHANGED <<cm, stop, hqueue, hevent, field, misled>>
    BY <1>3 DEF OnCreate, fileSystem, forms
  <2>3. \A x \in Used' \ {h} : x \in Used /\ ns'[x] = ns[x] /\ hwatch'[x] = hwatch[x]
    BY <1>a, <2>1 DEF Used, MapTypes, HTypes
  <2>4. \A x \in Used' \ {h} : Told(x)'
    BY <2>2, <2>3 DEF ToldInv, Told, Sure
  <2>5. hqueue[h] = << >> /\ hevent[h] = None /\ field[h] = None
    BY <1>a, <2>1 DEF HTypes, FormInv
  <2>6. Told(h)'
    BY <2>2, <2>5, EmptyQueue, NoneAssumption DEF Told
  <2> QED BY <2>4, <2>6 DEF ToldInv
<1>4. CASE \/ WatchStep \/ OnRemove \/ (\E v \in VanForm : LoopEnds(v)) \/ UNCHANGED vars
  <2>1. UNCHANGED <<cm, ns, stop, hwatch, hqueue, hevent, field, misled>>
    BY <1>4, WatchLeaves
    DEF OnRemove, LoopEnds, Apart, vars, fileSystem, handlers, hwatching, forms, history
  <2> QED BY <2>1 DEF ToldInv, Told, Sure, Used
<1>5. CASE OnRemoveCloses \/ ShutdownStep
  <2>1. UNCHANGED <<cm, ns, hwatch, hqueue, hevent, field, misled>>
    BY <1>5, ShutdownLeaves
    DEF OnRemoveCloses, fileSystem, handlers, hwatching, forms, history
  <2>2. \A x \in Handler : stop[x] => stop'[x]
    <3>1. CASE OnRemoveCloses
      BY <3>1, RemoveCloses
    <3>2. CASE ShutdownStep
      BY <1>a, <3>2, CloseEffect, NoneAssumption
      DEF ShutdownStep, Signal, ShutdownBegins, ShutdownTakes, ShutdownCloses, ShutdownDone,
          ProcessTypes
    <3> QED BY <1>5, <3>1, <3>2
  <2> QED BY <2>1, <2>2 DEF ToldInv, Told, Sure, Used
<1>6. CASE Death
  BY <1>6 DEF Death, Dies, Vanish, ToldInv, Used
<1> QED BY <1>1, <1>2, <1>3, <1>4, <1>5, <1>6, Steps

\* When all is quiet a VanForm runs without its ConfigMap only if its handler was stopped
\* or misled (controller.go:145-186, file_watcher.go:190-260).
THEOREM ARemovalStops == Spec => []RemovalStops
<1>1. Init => ToldInv
  BY DEF Init, ToldInv, Used
<1>2. Types /\ ToldInv /\ [Next]_vars => Types' /\ ToldInv'
  BY StepTypes, ToldStep
<1>3. Types /\ ToldInv => RemovalStops
  <2> SUFFICES ASSUME Types, ToldInv, Idle, NEW v \in Live
               PROVE  cm[ns[home[v]]] \/ stop[home[v]] \/ home[v] \in misled
    BY DEF RemovalStops
  <2> DEFINE h == home[v]
  <2>1. h \in Used /\ field[h] = v /\ v # None
    BY NoneAssumption DEF Types, FormInv, Live, Used, Idle
  <2>2. hqueue[h] = << >> /\ hevent[h] = None
    BY <2>1 DEF Idle
  <2>3. Told(h)
    BY <2>1 DEF ToldInv
  <2> QED BY <2>1, <2>2, <2>3, EmptyQueue, NoneAssumption DEF Told
<1> QED BY <1>1, <1>2, <1>3, InitTypes, PTL DEF Spec

------------------------------------------------------------------------------
(* Every namespace has a handler, and the handler starts its VanForm.      *)

\* A namespace that is there is in the map or on its way into it, and what takes it out
\* of the map is followed by what brings it back.
Arrives(n) ==
    dir[n] /\ watch \in {"added", "on"} =>
        /\ Followed(queue, Trigger("remove", n), Trigger("create", n))
        /\ event = Trigger("remove", n) => Trigger("create", n) \in Held(queue)
        /\ job = Trigger("remove", n) => Trigger("create", n) \in {event} \cup Held(queue)
        /\ watch = "on" =>
            \/ namespaces[n] # None \/ n \in scan \/ found = n
            \/ Trigger("create", n) \in {job, event} \cup Held(queue)

\* Once a handler's watcher has announced what is there, and not outrun a removal, any
\* removal of a ConfigMap that is there again is followed by its creation, and its VanForm
\* runs or is on its way.  Without a watch the next announcement sees to it.
Attends(h) ==
    hwatch[h] = "on" /\ hscan[h] = "no" /\ cm[ns[h]] /\ h \notin outrun =>
        /\ Followed(hqueue[h], "remove", "create")
        /\ hevent[h] = "remove" => "create" \in Held(hqueue[h])
        /\ field[h] # None \/ "create" \in {hevent[h]} \cup Held(hqueue[h])

ServedInv == (\A n \in Namespace : Arrives(n)) /\ (\A h \in Used : Attends(h))

LEMMA RemovalFollowed ==
    ASSUME NEW h, ~RemovalLast(h)
    PROVE  /\ Followed(hqueue[h], "remove", "create")
           /\ hevent[h] = "remove" => "create" \in Held(hqueue[h])
BY DEF RemovalLast, Queued, Held, Followed

LEMMA ArrivalStep ==
    ASSUME Types, ReleasedInv, [Next]_vars, NEW n \in Namespace, Arrives(n)
    PROVE  Arrives(n)'
<1> DEFINE r == Trigger("remove", n)
           c == Trigger("create", n)
<1>a. WatchTypes /\ MapTypes /\ FileTypes
  BY DEF Types
<1>b. /\ r \in Triggers /\ c \in Triggers /\ r # None /\ c # None /\ r # c
      /\ r.ns = n /\ c.ns = n
      /\ \A x \in Namespace : /\ r # Trigger("create", x) /\ c # Trigger("remove", x)
                              /\ (r = Trigger("remove", x) \/ c = Trigger("create", x) => x = n)
      /\ \A h \in Handler : r # Closing(h) /\ c # Closing(h)
  BY TriggerTypes DEF Trigger
<1>c. SUFFICES ASSUME dir'[n], watch' \in {"added", "on"}
               PROVE  /\ Followed(queue', r, c) /\ (event' = r => c \in Held(queue'))
                      /\ job' = r => c \in {event'} \cup Held(queue')
                      /\ watch' = "on" =>
                            \/ namespaces'[n] # None \/ n \in scan' \/ found' = n
                            \/ c \in {job', event'} \cup Held(queue')
  BY DEF Arrives, Trigger
<1>d. dir[n] /\ watch \in {"added", "on"} =>
        /\ Followed(queue, r, c) /\ (event = r => c \in Held(queue))
        /\ job = r => c \in {event} \cup Held(queue)
        /\ watch = "on" => \/ namespaces[n] # None \/ n \in scan \/ found = n
                           \/ c \in {job, event} \cup Held(queue)
  BY DEF Arrives
<1> HIDE DEF r, c
<1>1. CASE FileSystem
  <2>1. UNCHANGED <<watch, scan, found, event, job, namespaces>>
    BY <1>1, FileSystemLeaves
  <2>2. PICK m \in Namespace :
             \/ ~dir[m] /\ dir' = [dir EXCEPT ![m] = TRUE] /\ Report("create", m)
             \/ dir[m] /\ dir' = [dir EXCEPT ![m] = FALSE] /\ Report("remove", m)
             \/ UNCHANGED <<dir, queue>>
    BY <1>a, <1>1, FileSystemReports
  <2>3. CASE m = n /\ ~dir[n] /\ Report("create", n)
    <3>1. queue' = Append(queue, c)
      BY <1>c, <2>1, <2>3 DEF Report, c
    <3>2. Followed(queue', r, c) /\ c \in Held(queue')
      BY <1>a, <1>b, <3>1, AddLast DEF WatchTypes
    <3> QED BY <3>2
  <2>4. CASE dir[n] /\ m # n /\ \E op \in {"create", "remove"} : Report(op, m)
    <3>1. PICK op \in {"create", "remove"} : Report(op, m)
      BY <2>4
    <3>2. queue' = Append(queue, Trigger(op, m)) /\ Trigger(op, m) \in Triggers
      BY <1>c, <2>1, <3>1, TriggerTypes DEF Report
    <3>3. r # Trigger(op, m)
      BY <1>b, <2>4
    <3>4. Followed(queue', r, c) /\ Held(queue) \subseteq Held(queue')
      BY <1>a, <1>c, <1>d, <2>1, <2>4, <3>2, <3>3, AddLast DEF WatchTypes
    <3> QED BY <1>c, <1>d, <2>1, <2>4, <3>4
  <2>5. CASE UNCHANGED <<dir, queue>>
    BY <1>c, <1>d, <2>1, <2>5
  <2>6. CASE m = n /\ dir' = [dir EXCEPT ![n] = FALSE]
    BY <1>a, <1>c, <2>6 DEF FileTypes
  <2>7. dir[n] \/ (m = n /\ ~dir[n] /\ Report("create", n)) \/ UNCHANGED <<dir, queue>>
    BY <1>a, <1>c, <2>2 DEF FileTypes
  <2>8. CASE dir[n] /\ m = n /\ dir' = dir /\ queue' = queue
    BY <2>5, <2>8
  <2> QED BY <2>2, <2>3, <2>4, <2>5, <2>6, <2>7, <2>8
<1>2. CASE FilterEvent
  <2>1. /\ event = None /\ queue # << >> /\ queue' = Tail(queue)
        /\ event' = IF Filter(Head(queue).ns) THEN Head(queue) ELSE None
        /\ UNCHANGED <<dir, watch, scan, found, job, namespaces>>
    BY <1>2 DEF FilterEvent, Still, fileSystem
  <2>2. /\ Held(queue) = {Head(queue)} \cup Held(queue')
        /\ Followed(queue', r, c) /\ (Head(queue) = r => c \in Held(queue'))
    BY <1>a, <1>c, <1>d, <2>1, TakeFirst DEF WatchTypes
  <2>3. Head(queue) = c => event' = c
    BY <1>b, <1>c, <2>1 DEF Filter
  <2>4. c \in Held(queue) => c \in {event'} \cup Held(queue')
    BY <2>2, <2>3
  <2>5. event' = Head(queue) \/ event' = None
    BY <2>1
  <2> QED BY <1>b, <1>c, <1>d, <2>1, <2>2, <2>4, <2>5
<1>3. CASE Dispatch
  <2>1. /\ job = None /\ UNCHANGED <<dir, watch, scan, queue, namespaces>>
        /\ \/ event # None /\ job' = event /\ event' = None /\ UNCHANGED found
           \/ found # None /\ job' = Trigger("create", found) /\ found' = None /\ event' = event
    BY <1>3 DEF Dispatch, Still, fileSystem
  <2>2. found = n => Trigger("create", found) = c
    BY DEF c
  <2>3. found # None => Trigger("create", found) # r
    BY <1>a, <1>b DEF WatchTypes
  <2> QED BY <1>b, <1>c, <1>d, <2>1, <2>2, <2>3
<1>4. CASE WatchAdded
  <2>1. /\ watch = "start" /\ watch' = "added" /\ UNCHANGED <<queue, event, job>>
    BY <1>4 DEF WatchAdded
  <2>2. queue = << >> /\ event = None /\ job = None
    BY <2>1 DEF ReleasedInv
  <2> QED BY <1>b, <2>1, <2>2, EmptyQueue
<1>5. CASE WatchRead
  <2>1. /\ watch = "added" /\ UNCHANGED <<dir, queue, event, job>>
        /\ scan' = {x \in Namespace : dir[x]}
    BY <1>5 DEF WatchRead, Still, fileSystem
  <2> QED BY <1>c, <1>d, <2>1
<1>6. CASE NoWatcher \/ WatchEnds
  BY <1>c, <1>6 DEF NoWatcher, WatchEnds
<1>7. CASE \E x \in Namespace : FilterFound(x)
  <2> PICK x \in Namespace : FilterFound(x)
    BY <1>7
  <2>1. /\ found = None /\ scan' = scan \ {x} /\ found' = IF Filter(x) THEN x ELSE None
        /\ UNCHANGED <<dir, watch, queue, event, job, namespaces>>
    BY DEF FilterFound, Still, fileSystem
  <2>2. dir[x] => found' = x
    BY <2>1 DEF Filter
  <2>3. dir[n] /\ watch \in {"added", "on"}
    BY <1>c, <2>1
  <2>4. n \in scan \/ found = n => n \in scan' \/ found' = n
    BY <2>1, <2>2, <2>3, NoneAssumption
  <2> QED BY <1>d, <2>1, <2>3, <2>4
<1>8. CASE OnCreate
  <2> PICK m \in Namespace : m = job.ns /\ job = Trigger("create", m)
    BY <1>a, <1>8, JobTypes DEF OnCreate
  <2>1. job' = None /\ UNCHANGED <<dir, watch, scan, queue, found, event>>
    BY <1>8 DEF OnCreate, fileSystem, watching
  <2>2. PICK h \in Handler : namespaces' = [namespaces EXCEPT ![m] = h]
    BY <1>a, <1>8, NewHandler
  <2>3. namespaces[n] # None \/ m = n => namespaces'[n] # None
    BY <1>a, <2>2, NoneAssumption DEF MapTypes
  <2>4. job = c => m = n
    BY <1>b
  <2> QED BY <1>b, <1>c, <1>d, <2>1, <2>3, <2>4
<1>9. CASE OnRemove
  <2> PICK m \in Namespace : m = job.ns /\ job = Trigger("remove", m)
    BY <1>9, Removes
  <2>1. /\ namespaces' = [namespaces EXCEPT ![m] = None]
        /\ UNCHANGED <<dir, watch, scan, queue, found, event>>
        /\ job' = None \/ \E h \in Handler : job' = Closing(h)
    BY <1>9, Removes DEF watching, fileSystem
  <2>2. m # n => namespaces'[n] = namespaces[n]
    BY <1>a, <2>1 DEF MapTypes
  <2>3. job' # r /\ job # c /\ (m = n => job = r)
    BY <1>b, <2>1 DEF r
  <2> QED BY <1>c, <1>d, <2>1, <2>2, <2>3
<1>10. CASE OnRemoveCloses
  <2>1. /\ \E h \in Handler : job = Closing(h) /\ job' = None
        /\ UNCHANGED <<dir, watch, scan, queue, found, event, namespaces>>
    BY <1>10, RemoveCloses DEF watching, fileSystem
  <2> QED BY <1>b, <1>c, <1>d, <2>1
<1>11. CASE \/ (\E h \in Used : HandlerStep(h)) \/ (\E v \in VanForm : LoopEnds(v))
            \/ ShutdownStep \/ UNCHANGED vars
  <2>1. UNCHANGED <<dir, watch, scan, queue, found, event, job, namespaces>>
    BY <1>11, HandlerLeaves, ShutdownLeaves DEF LoopEnds, Apart, vars, fileSystem, watching
  <2> QED BY <1>c, <1>d, <2>1
<1>12. CASE Death
  BY <1>c, <1>12 DEF Death, Dies, Vanish
<1> QED
  BY <1>1, <1>2, <1>3, <1>4, <1>5, <1>6, <1>7, <1>8, <1>9, <1>10, <1>11, <1>12, Steps
  DEF WatchStep

LEMMA AttendsThroughFiles ==
    ASSUME Types, FileSystem, NEW h \in Used, Attends(h)
    PROVE  Attends(h)'
<1>a. /\ h \in Handler /\ ns[h] \in Namespace /\ HTypes /\ cm \in [Namespace -> BOOLEAN]
  BY DEF Used, Types, MapTypes, FileTypes
<1>b. UNCHANGED <<ns, field, hscan, hevent>>
  BY FileSystemLeaves DEF forms
<1>c. "create" \in Events /\ "remove" \in Events /\ "gone" \in Events
  BY DEF Events
<1> PICK n \in Namespace : FileStepIn(n)
  BY DEF FileSystem, FileStepIn
<1>1. CASE MakeNamespace(n) \/ RemoveNamespace(n) \/ MakeRuntime(n)
  <2>1. UNCHANGED <<cm, hwatch, hqueue, outrun>>
    BY <1>1 DEF MakeNamespace, RemoveNamespace, MakeRuntime
  <2> QED BY <1>b, <2>1 DEF Attends
<1>2. CASE RemoveRuntime(n)
  <2>1. /\ UNCHANGED <<cm, outrun>> /\ Tell(n, "gone")
        /\ hwatch'[h] = IF Watches(h, n) THEN "lost" ELSE hwatch[h]
    BY <1>a, <1>2 DEF RemoveRuntime
  <2>2. ~Watches(h, n) => hqueue'[h] = hqueue[h]
    BY <1>a, <1>c, <2>1, TellAdds
  <2> QED BY <1>b, <2>1, <2>2 DEF Attends
<1>3. CASE CreateConfigMap(n)
  <2>1. /\ cm' = [cm EXCEPT ![n] = TRUE] /\ Tell(n, "create") /\ hwatch' = hwatch
        /\ h \in outrun' <=> h \in outrun /\ ~Watches(h, n)
    BY <1>a, <1>3 DEF CreateConfigMap
  <2>2. CASE Watches(h, n)
    <3>1. Followed(hqueue'[h], "remove", "create") /\ "create" \in Held(hqueue'[h])
      BY <1>a, <1>c, <2>1, <2>2, TellAdds
    <3> QED BY <3>1 DEF Attends
  <2>3. CASE ~Watches(h, n)
    <3>1. hqueue'[h] = hqueue[h]
      BY <1>a, <1>c, <2>1, <2>3, TellAdds
    <3>2. hwatch[h] = "on" => cm'[ns[h]] = cm[ns[h]]
      BY <1>a, <2>1, <2>3 DEF Watches
    <3> QED BY <1>b, <2>1, <2>3, <3>1, <3>2 DEF Attends
  <2> QED BY <2>2, <2>3
<1>4. CASE RemoveConfigMap(n)
  <2>1. /\ cm' = [cm EXCEPT ![n] = FALSE] /\ Tell(n, "remove") /\ UNCHANGED <<hwatch, outrun>>
    BY <1>a, <1>4 DEF RemoveConfigMap
  <2>2. CASE ns[h] = n
    <3>1. ~cm'[ns[h]]
      BY <1>a, <2>1, <2>2
    <3> QED BY <1>b, <3>1 DEF Attends
  <2>3. CASE ns[h] # n
    <3>1. cm'[ns[h]] = cm[ns[h]] /\ hqueue'[h] = hqueue[h]
      BY <1>a, <1>c, <2>1, <2>3, TellAdds DEF Watches
    <3> QED BY <1>b, <2>1, <3>1 DEF Attends
  <2> QED BY <2>2, <2>3
<1> QED BY <1>1, <1>2, <1>3, <1>4 DEF FileStepIn

LEMMA AttendsByWatcher ==
    ASSUME Types, NEW h \in Used, HandlerStep(h), Attends(h)
    PROVE  Attends(h)'
<1>a. /\ h \in Handler /\ ns[h] \in Namespace /\ MapTypes /\ FormInv /\ HTypes
      /\ hqueue[h] \in Seq(Events) /\ cm \in [Namespace -> BOOLEAN]
  BY DEF Used, Types, MapTypes, FileTypes, HTypes
<1>b. UNCHANGED <<cm, ns>>
  BY HandlerLeaves DEF fileSystem
<1>1. CASE HAttach(h)
  <2>1. hscan'[h] = "read"
    BY <1>a, <1>1 DEF HAttach, HTypes
  <2> QED BY <2>1 DEF Attends
<1>2. CASE HRead(h)
  <2>1. hscan'[h] = "no" => ~cm[ns[h]]
    BY <1>a, <1>2 DEF HRead, HTypes
  <2> QED BY <1>b, <2>1 DEF Attends
<1>3. CASE HForget(h) \/ HDrop(h) \/ HEnd(h)
  <2>1. hwatch'[h] \in {"wait", "ended"}
    BY <1>a, <1>3 DEF HForget, HDrop, HEnd, HTypes
  <2> QED BY <2>1 DEF Attends
<1>4. CASE HTake(h)
  <2>1. /\ hevent[h] = None /\ hqueue[h] # << >> /\ hqueue'[h] = Tail(hqueue[h])
        /\ hevent'[h] = Head(hqueue[h]) /\ UNCHANGED <<hwatch, hscan, field, outrun>>
    BY <1>a, <1>4 DEF HTake, forms, history, HTypes
  <2>2. /\ Held(hqueue[h]) = {hevent'[h]} \cup Held(hqueue'[h])
        /\ Followed(hqueue[h], "remove", "create") =>
             /\ Followed(hqueue'[h], "remove", "create")
             /\ hevent'[h] = "remove" => "create" \in Held(hqueue'[h])
    BY <1>a, <2>1, TakeFirst
  <2> QED BY <1>b, <2>1, <2>2, NoneAssumption DEF Attends
<1>6. CASE HDeliver(h)
  <2>1. /\ UNCHANGED <<hwatch, hscan, hqueue, outrun>> /\ hevent'[h] = None /\ hevent[h] # None
        /\ \/ hevent[h] = "create" /\ HOnCreate(h)
           \/ hevent[h] = "remove" /\ HOnRemove(h)
    BY <1>a, <1>6 DEF HDeliver, HTypes
  <2>2. hevent[h] = "create" => field'[h] # None
    BY <1>a, <1>b, <2>1, StartsVanForm
  <2> QED BY <1>b, <2>1, <2>2, NoneAssumption DEF Attends
<1>7. CASE HScan(h)
  <2>1. /\ UNCHANGED <<hwatch, hqueue, hevent>> /\ HOnCreate(h)
        /\ RemovalLast(h) => h \in outrun'
    BY <1>a, <1>7 DEF HScan
  <2>2. field'[h] # None
    BY <1>a, <1>b, <2>1, StartsVanForm
  <2> QED BY <1>b, <2>1, <2>2, RemovalFollowed DEF Attends
<1> QED
  BY <1>1, <1>2, <1>3, <1>4, <1>6, <1>7 DEF HandlerStep, HMonitor, HDispatcher

LEMMA AttendingStep ==
    ASSUME Types, \A h \in Used : Attends(h), [Next]_vars
    PROVE  (\A h \in Used : Attends(h))'
<1>a. MapTypes /\ HTypes
  BY DEF Types
<1>1. CASE FileSystem
  <2>1. ns' = ns
    BY <1>1, FileSystemLeaves
  <2> QED BY <1>1, <2>1, AttendsThroughFiles DEF Used
<1>2. ASSUME NEW h \in Used, HandlerStep(h)
      PROVE  (\A x \in Used : Attends(x))'
  <2>1. UNCHANGED <<ns, cm>>
    BY <1>2, HandlerLeaves DEF fileSystem
  <2>2. \A x \in Used \ {h} : /\ hwatch'[x] = hwatch[x] /\ hscan'[x] = hscan[x]
                              /\ hqueue'[x] = hqueue[x] /\ hevent'[x] = hevent[x]
                              /\ field'[x] = field[x] /\ (x \in outrun' <=> x \in outrun)
    BY <1>2, HandlerAlone DEF Used
  <2>3. \A x \in Used \ {h} : Attends(x)'
    BY <2>1, <2>2 DEF Attends
  <2>4. Attends(h)'
    BY <1>2, AttendsByWatcher
  <2> QED BY <2>1, <2>3, <2>4 DEF Used
<1>3. CASE OnCreate
  <2>1. PICK h \in Handler : /\ ns[h] = None /\ ns' = [ns EXCEPT ![h] = job.ns]
                             /\ hwatch' = [hwatch EXCEPT ![h] = "wait"]
                                \/ hwatch' = [hwatch EXCEPT ![h] = "ended"]
    BY <1>a, <1>3, NewHandler
  <2>2. UNCHANGED <<cm, hscan, hqueue, hevent, field, outrun>>
    BY <1>3 DEF OnCreate, fileSystem, forms
  <2>3. \A x \in Used' \ {h} : x \in Used /\ ns'[x] = ns[x] /\ hwatch'[x] = hwatch[x]
    BY <1>a, <2>1 DEF Used, MapTypes, HTypes
  <2>4. \A x \in Used' \ {h} : Attends(x)'
    BY <2>2, <2>3 DEF Attends
  <2>5. hwatch'[h] # "on"
    BY <1>a, <2>1 DEF HTypes
  <2> QED BY <2>4, <2>5 DEF Attends
<1>4. CASE \/ WatchStep \/ OnRemove \/ OnRemoveCloses \/ ShutdownStep
           \/ (\E v \in VanForm : LoopEnds(v)) \/ UNCHANGED vars
  <2>1. UNCHANGED <<cm, ns, hwatch, hscan, hqueue, hevent, field, outrun>>
    BY <1>4, WatchLeaves, ShutdownLeaves
    DEF OnRemove, OnRemoveCloses, LoopEnds, Apart, vars, fileSystem, handlers, hwatching, forms,
        history
  <2> QED BY <2>1 DEF Attends, Used
<1>5. CASE Death
  BY <1>5 DEF Death, Dies, Vanish, Used
<1> QED BY <1>1, <1>2, <1>3, <1>4, <1>5, Steps

\* When all is quiet a VanForm runs for every namespace that has a ConfigMap, if its
\* handler has a watcher and the announcement of the ConfigMap has not outrun the removal
\* of the one before (controller.go:91-181, file_watcher.go:94-126, 226-260).
THEOREM EveryConfigMapIsServed == Spec => []Served
<1> DEFINE Inv == Known /\ ReleasedInv /\ ServedInv
<1>1. Init => Inv
  <2> SUFFICES ASSUME Init PROVE Inv
    OBVIOUS
  <2>1. Known
    BY InitKnown
  <2>2. ReleasedInv /\ ServedInv
    BY DEF Init, ReleasedInv, ServedInv, Arrives, Used
  <2> QED BY <2>1, <2>2
<1>2. Inv /\ [Next]_vars => Inv'
  <2> SUFFICES ASSUME Inv, [Next]_vars PROVE Inv'
    OBVIOUS
  <2>1. Known' /\ ReleasedInv' /\ Types
    BY StepKnown, ReleasedStep DEF Known
  <2>2. ASSUME NEW n \in Namespace
        PROVE  Arrives(n)'
    BY <2>1, ArrivalStep DEF ServedInv
  <2>3. ServedInv'
    BY <2>1, <2>2, AttendingStep DEF ServedInv
  <2> QED BY <2>1, <2>3
<1>3. Inv => Served
  <2> SUFFICES ASSUME Inv, Idle, NEW n \in Namespace, cm[n]
               PROVE  \/ namespaces[n] # None
                         /\ (Deaf(namespaces[n]) \/ namespaces[n] \in outrun)
                      \/ \E v \in Live : ns[home[v]] = n
    BY DEF Served
  <2>1. /\ main = "run" /\ watch = "on" /\ scan = {} /\ queue = << >>
        /\ found = None /\ event = None /\ job = None
    BY DEF Idle
  <2>2. Trigger("create", n) # None /\ n # None
    BY TriggerTypes, NoneAssumption
  <2>3. site[n] /\ dir[n] /\ Arrives(n)
    BY DEF Known, Types, FileTypes, ServedInv
  <2>4. namespaces[n] # None
    BY <2>1, <2>2, <2>3, EmptyQueue DEF Arrives
  <2>5. PICK h \in Used : h = namespaces[n] /\ ns[h] = n
    BY <2>4, NoneAssumption DEF Known, Types, MapTypes, Used
  <2>6. ~stop[h]
    BY <2>1, <2>5 DEF Known, CloseInv, Used
  <2>7. CASE hwatch[h] = "ended" \/ h \in outrun
    BY <2>4, <2>5, <2>6, <2>7 DEF Deaf
  <2>8. CASE hwatch[h] # "ended" /\ h \notin outrun
    <3>1. hwatch[h] = "on" /\ hscan[h] = "no" /\ hqueue[h] = << >> /\ hevent[h] = None
      BY <2>3, <2>5, <2>6, <2>8 DEF Idle, Deaf
    <3>2. field[h] # None
      BY <2>5, <2>8, <3>1, EmptyQueue, NoneAssumption DEF ServedInv, Attends
    <3>3. field[h] \in Live /\ home[field[h]] = h
      BY <3>2 DEF Known, Types, FormInv, Live, Used
    <3> QED BY <2>5, <3>3
  <2> QED BY <2>7, <2>8
<1> QED BY <1>1, <1>2, <1>3, PTL DEF Spec

=============================================================================

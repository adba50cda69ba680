-------------------------- MODULE SystemController --------------------------
(***************************************************************************)
(* The controller of System sites (internal/van/system/controller.go), the *)
(* ConfigMapHandlers it keeps, and the VanForm instances these start and   *)
(* stop (internal/van/system/vanformer.go).  A file watcher reports the    *)
(* namespaces of the host, each a directory; the controller gives each one *)
(* a ConfigMapHandler with a file watcher of its own, which reports the    *)
(* ConfigMap and starts a VanForm when it comes, and stops it when it goes.*)
(* A handler watches the directory of the namespace's runtime state, which *)
(* comes and goes within the namespace's directory.                        *)
(*                                                                         *)
(* What a watcher does is taken from module FileWatcher: it announces what *)
(* is in a directory when it begins to watch it, beside the events that    *)
(* arrive from then on, in order; it forgets a directory that has gone and *)
(* begins again when it is back.  Callbacks come one at a time.            *)
(***************************************************************************)
EXTENDS Sequences, Integers

CONSTANTS
    Namespace,          \* namespaces the host may have
    Handler, VanForm,   \* objects, never used twice
    None,               \* no object, nil, or no value
    MaxMade,            \* bound on the directories and files made
    StopBy              \* bound on those before a shutdown; none is made after it

ASSUME NoneAssumption ==
    /\ None \notin Handler \cup VanForm \cup Namespace
    /\ None \notin [op : {"create", "remove"}, ns : Namespace]
    /\ None \notin [op : {"close"}, handler : Handler]
    /\ None \notin {"create", "remove", "gone"}
ASSUME BoundAssumption == MaxMade \in Nat /\ StopBy \in Nat

VARIABLES
    dir, site, cm,      \* namespaces' directories, their runtime state, the ConfigMaps in it
    made,               \* how much of MaxMade is used
    watch,              \* the controller's watcher: where it is
    scan, queue,        \* names found by its first look; events not filtered yet
    found, event,       \* past the Filter: one of each, or None
    job,                \* the callback at work, or None
    namespaces,         \* the handler of each namespace, or None
    ns, stop,           \* of each handler: its namespace; is its channel closed?
    hwatch, hscan,      \* ... its watcher: the watch; is monitorPaths reading or sending?
    hqueue, hevent,     \* ... its events; the one taken
    field,              \* ... the VanForm it can stop, or None
    home, closed, loop, \* of each VanForm: its handler, its channel, its goroutine
    main, stopCh, doneCh,   \* the process and the controller's channels
    toClose, closing,   \* handleShutdown: what it has still to close
    overwritten,        \* handlers that lost their place in the map (history)
    unnoticed,          \* namespaces announced after their removal (history)
    misled,             \* handlers not told of a removal, or told too early (history)
    outrun              \* handlers whose last announcement overtook a removal (history)

fileSystem == <<dir, site, cm, made>>
watching == <<watch, scan, queue, found, event>>
handlers == <<ns, stop>>
hwatching == <<hwatch, hscan, hqueue, hevent>>
forms == <<field, home, closed, loop>>
process == <<main, stopCh, doneCh, toClose, closing>>
history == <<overwritten, unnoticed, misled, outrun>>
vars == <<fileSystem, watching, job, namespaces, handlers, hwatching, forms,
          process, history>>

Running == main \in {"run", "shutdown", "done"}
Used == {h \in Handler : ns[h] # None}
Live == {v \in VanForm : loop[v] = "run"}
Trigger(op, n) == [op |-> op, ns |-> n]

------------------------------------------------------------------------------
(* The file system.  A namespace is removed file by file, its directory last. *)

Make == ~stopCh /\ made < MaxMade /\ made' = made + 1
Remove == ~stopCh /\ UNCHANGED made

\* An event of a directory in the namespaces directory.
Report(op, n) ==
    queue' = IF watch \in {"added", "on"} THEN Append(queue, Trigger(op, n)) ELSE queue

\* An event of the runtime state of n, for those that watch it.
Watches(h, n) == ns[h] = n /\ hwatch[h] = "on"

Tell(n, op) ==
    hqueue' = [h \in Handler |-> IF Watches(h, n) THEN Append(hqueue[h], op) ELSE hqueue[h]]

Untold == <<job, namespaces, handlers, forms, process, overwritten, unnoticed, hscan, hevent>>

MakeNamespace(n) ==
    /\ ~dir[n]
    /\ Make
    /\ dir' = [dir EXCEPT ![n] = TRUE]
    /\ Report("create", n)
    /\ UNCHANGED <<Untold, site, cm, watch, scan, found, event, hwatch, hqueue, misled, outrun>>

RemoveNamespace(n) ==
    /\ dir[n] /\ ~site[n]
    /\ Remove
    /\ dir' = [dir EXCEPT ![n] = FALSE]
    /\ Report("remove", n)
    /\ UNCHANGED <<Untold, site, cm, watch, scan, found, event, hwatch, hqueue, misled, outrun>>

\* Nobody watches the directory this one is made in: monitorPaths finds it.
MakeRuntime(n) ==
    /\ dir[n] /\ ~site[n]
    /\ Make
    /\ site' = [site EXCEPT ![n] = TRUE]
    /\ UNCHANGED <<Untold, dir, cm, watching, hwatch, hqueue, misled, outrun>>

\* The kernel drops the watch with the directory.
RemoveRuntime(n) ==
    /\ site[n] /\ ~cm[n]
    /\ Remove
    /\ site' = [site EXCEPT ![n] = FALSE]
    /\ Tell(n, "gone")
    /\ hwatch' = [h \in Handler |-> IF Watches(h, n) THEN "lost" ELSE hwatch[h]]
    /\ UNCHANGED <<Untold, dir, cm, watching, misled, outrun>>

CreateConfigMap(n) ==
    /\ site[n] /\ ~cm[n]
    /\ Make
    /\ cm' = [cm EXCEPT ![n] = TRUE]
    /\ Tell(n, "create")
    /\ outrun' = outrun \ {h \in Handler : Watches(h, n)}
    /\ UNCHANGED <<Untold, dir, site, watching, hwatch, misled>>

RemoveConfigMap(n) ==
    /\ cm[n]
    /\ Remove
    /\ cm' = [cm EXCEPT ![n] = FALSE]
    /\ Tell(n, "remove")
    /\ misled' = misled \cup {h \in Handler :
           ns[h] = n /\ field[h] # None /\ ~Watches(h, n)}
    /\ UNCHANGED <<Untold, dir, site, watching, hwatch, outrun>>

------------------------------------------------------------------------------
(* The end of the process. *)

\* Nothing of it is left.
Vanish ==
    /\ watch' = "ended"
    /\ scan' = {} /\ queue' = << >> /\ found' = None /\ event' = None /\ job' = None
    /\ namespaces' = [n \in Namespace |-> None]
    /\ ns' = [h \in Handler |-> None]
    /\ stop' = [h \in Handler |-> FALSE]
    /\ hwatch' = [h \in Handler |-> "none"]
    /\ hscan' = [h \in Handler |-> "no"]
    /\ hqueue' = [h \in Handler |-> << >>]
    /\ hevent' = [h \in Handler |-> None]
    /\ field' = [h \in Handler |-> None]
    /\ home' = [v \in VanForm |-> None]
    /\ closed' = [v \in VanForm |-> FALSE]
    /\ loop' = [v \in VanForm |-> "none"]
    /\ toClose' = {} /\ closing' = None
    /\ overwritten' = {} /\ unnoticed' = {} /\ misled' = {} /\ outrun' = {}

Dies(how) ==
    /\ main' = how
    /\ Vanish
    /\ UNCHANGED <<fileSystem, stopCh, doneCh>>

------------------------------------------------------------------------------
(* The controller's watcher. *)

Still == <<fileSystem, handlers, hwatching, forms, process>>

\* run gives up without a watcher; main goes on waiting for a signal.
NoWatcher ==
    /\ watch = "start"
    /\ main = "run" /\ ~stopCh
    /\ watch' = "ended"
    /\ main' = "done" /\ doneCh' = TRUE
    /\ UNCHANGED <<fileSystem, handlers, hwatching, forms, stopCh, toClose, closing,
                   scan, queue, found, event, job, namespaces, history>>

\* The watch is added, then the directory is read.
WatchAdded ==
    /\ watch = "start"
    /\ watch' = "added"
    /\ UNCHANGED <<Still, scan, queue, found, event, job, namespaces, history>>

WatchRead ==
    /\ watch = "added"
    /\ watch' = "on"
    /\ scan' = {n \in Namespace : dir[n]}
    /\ UNCHANGED <<Still, queue, found, event, job, namespaces, history>>

\* Mutant: only a directory passes.
FilterDirectory(n) == dir[n]

Filter(n) == dir[n] \/ namespaces[n] # None

\* monitorPaths asks Filter, then waits for the dispatcher.
FilterFound(n) ==
    /\ found = None
    /\ n \in scan
    /\ scan' = scan \ {n}
    /\ found' = IF Filter(n) THEN n ELSE None
    /\ UNCHANGED <<Still, watch, queue, event, job, namespaces, history>>

\* So does processEvents, whatever callbacks are still to come: a removal is
\* rejected while the OnCreate that enters the namespace into the map is under
\* way.
FilterEvent ==
    /\ event = None
    /\ queue # << >>
    /\ event' = IF Filter(Head(queue).ns) THEN Head(queue) ELSE None
    /\ queue' = Tail(queue)
    /\ UNCHANGED <<Still, watch, scan, found, job, namespaces, history>>

\* Filter reads the map without the lock, in two goroutines that do not wait for
\* the callback at work: the runtime may notice, and gives up.
FilterRaces ==
    /\ job # None /\ job.op \in {"create", "remove"}
    /\ \/ event = None /\ queue # << >>
       \/ found = None /\ scan # {}
    /\ Dies("fatal")

\* dispatchTriggers takes from either; once stopCh is closed it may end instead.
Dispatch ==
    /\ job = None
    /\ watch # "ended"
    /\ \/ event # None /\ job' = event /\ event' = None /\ UNCHANGED found
       \/ found # None /\ job' = Trigger("create", found) /\ found' = None /\ UNCHANGED event
    /\ UNCHANGED <<Still, watch, scan, queue, namespaces, history>>

WatchEnds ==
    /\ watch # "ended"
    /\ stopCh
    /\ job = None
    /\ watch' = "ended"
    /\ scan' = {} /\ queue' = << >> /\ found' = None /\ event' = None
    /\ UNCHANGED <<Still, job, namespaces, history>>

------------------------------------------------------------------------------
(* The callbacks of the controller.  handleShutdown walks the map without    *)
(* the lock they hold; a write to it meanwhile may be noticed.                *)

Walking == main = "shutdown"

\* A new handler, in place of the one there may be.
\* A handler that gets no watcher is in the map all the same.  The walk may come
\* to a key that is new.  There are no more handlers than Handler has.
OnCreate ==
    /\ job # None /\ job.op = "create"
    /\ Used # Handler
    /\ \/ UNCHANGED toClose
       \/ Walking /\ namespaces[job.ns] = None /\ toClose' = toClose \cup {job.ns}
    /\ LET n == job.ns
           h == CHOOSE x \in Handler : x \notin Used
       IN  /\ \E at \in {"wait", "ended"} : hwatch' = [hwatch EXCEPT ![h] = at]
           /\ overwritten' = overwritten \cup ({namespaces[n]} \ {None})
           /\ namespaces' = [namespaces EXCEPT ![n] = h]
           /\ ns' = [ns EXCEPT ![h] = n]
           /\ unnoticed' = IF ~dir[n] /\ Trigger("remove", n) \notin
                                  {event} \cup {queue[i] : i \in DOMAIN queue}
                           THEN unnoticed \cup {n} ELSE unnoticed
    /\ job' = None
    /\ UNCHANGED <<fileSystem, watching, stop, hscan, hqueue, hevent, forms,
                   main, stopCh, doneCh, closing, misled, outrun>>

\* Mutant: the namespace stays in the map.
OnRemoveKeeps ==
    /\ job # None /\ job.op = "remove"
    /\ job' = IF namespaces[job.ns] # None
              THEN [op |-> "close", handler |-> namespaces[job.ns]] ELSE None
    /\ UNCHANGED <<Still, watching, namespaces, history>>

OnRemove ==
    /\ job # None /\ job.op = "remove"
    /\ job' = IF namespaces[job.ns] # None
              THEN [op |-> "close", handler |-> namespaces[job.ns]] ELSE None
    /\ namespaces' = [namespaces EXCEPT ![job.ns] = None]
    /\ toClose' = toClose \ {job.ns}
    /\ unnoticed' = unnoticed \ {job.ns}
    /\ UNCHANGED <<fileSystem, watching, handlers, hwatching, forms, main, stopCh,
                   doneCh, closing, overwritten, misled, outrun>>

CallbackRaces ==
    /\ Walking
    /\ job # None /\ job.op \in {"create", "remove"}
    /\ Dies("fatal")

\* close(stopCh) panics if the channel has been closed.
Close(h) == ~stop[h] /\ stop' = [stop EXCEPT ![h] = TRUE]

OnRemoveCloses ==
    /\ job # None /\ job.op = "close"
    /\ Close(job.handler)
    /\ job' = None
    /\ UNCHANGED <<fileSystem, watching, namespaces, ns, hwatching, forms, process,
                   history>>

OnRemovePanics ==
    /\ job # None /\ job.op = "close"
    /\ stop[job.handler]
    /\ Dies("panicked")

------------------------------------------------------------------------------
(* The watcher of a ConfigMapHandler. *)

Apart == <<fileSystem, watching, job, namespaces, handlers, process>>

\* monitorPaths finds the directory it is to watch, once it has sent its
\* announcements.
HAttach(h) ==
    /\ hwatch[h] = "wait" /\ hscan[h] = "no"
    /\ site[ns[h]]
    /\ hwatch' = [hwatch EXCEPT ![h] = "on"]
    /\ hscan' = [hscan EXCEPT ![h] = "read"]
    /\ UNCHANGED <<Apart, hqueue, hevent, forms, history>>

\* It reads the directory, whatever has become of the watch.
HRead(h) ==
    /\ hscan[h] = "read"
    /\ hscan' = [hscan EXCEPT ![h] = IF cm[ns[h]] THEN "send" ELSE "no"]
    /\ UNCHANGED <<Apart, hwatch, hqueue, hevent, forms, history>>

\* fsnotify reads that the directory has gone.
HForget(h) ==
    /\ hwatch[h] = "lost"
    /\ hqueue[h] # << >> /\ Head(hqueue[h]) = "gone"
    /\ hqueue' = [hqueue EXCEPT ![h] = Tail(@)]
    /\ hwatch' = [hwatch EXCEPT ![h] = "wait"]
    /\ UNCHANGED <<Apart, hscan, hevent, forms, history>>

\* Or monitorPaths sees it first, and what is unread is lost: all but the event
\* that fsnotify may hold already.
HDrop(h) ==
    /\ hwatch[h] = "lost" /\ hscan[h] = "no"
    /\ ~site[ns[h]]
    /\ hwatch' = [hwatch EXCEPT ![h] = "wait"]
    /\ \E kept \in {0} \cup {k \in {1} : hqueue[h] # << >> /\ hqueue[h][k] # "gone"} :
        /\ hqueue' = [hqueue EXCEPT ![h] = SubSeq(@, 1, kept)]
        /\ misled' = IF \E i \in DOMAIN hqueue[h] : i > kept /\ hqueue[h][i] = "remove"
                     THEN misled \cup {h} ELSE misled
    /\ UNCHANGED <<Apart, hscan, hevent, forms, overwritten, unnoticed, outrun>>

HTake(h) ==
    /\ hevent[h] = None
    /\ hqueue[h] # << >> /\ Head(hqueue[h]) # "gone"
    /\ hevent' = [hevent EXCEPT ![h] = Head(hqueue[h])]
    /\ hqueue' = [hqueue EXCEPT ![h] = Tail(@)]
    /\ UNCHANGED <<Apart, hwatch, hscan, forms, history>>

\* Mutant: what there was still to come is not dropped.
HEndOnly(h) ==
    /\ stop[h]
    /\ hwatch[h] # "ended"
    /\ hwatch' = [hwatch EXCEPT ![h] = "ended"]
    /\ UNCHANGED <<Apart, hscan, hqueue, hevent, forms, history>>

\* Once its channel is closed the watcher ends, whatever is still to come.
HEnd(h) ==
    /\ stop[h]
    /\ hwatch[h] # "ended"
    /\ hwatch' = [hwatch EXCEPT ![h] = "ended"]
    /\ hscan' = [hscan EXCEPT ![h] = "no"]
    /\ hqueue' = [hqueue EXCEPT ![h] = << >>]
    /\ hevent' = [hevent EXCEPT ![h] = None]
    /\ UNCHANGED <<Apart, forms, history>>

------------------------------------------------------------------------------
(* The callbacks of a ConfigMapHandler. *)

\* NewVanForm, and the goroutine that Start makes; no more than VanForm has.
StartVanForm(h) ==
    LET v == CHOOSE x \in VanForm : loop[x] = "none"
    IN  /\ \E x \in VanForm : loop[x] = "none"
        /\ field' = [field EXCEPT ![h] = v]
        /\ home' = [home EXCEPT ![v] = h]
        /\ loop' = [loop EXCEPT ![v] = "run"]
        /\ UNCHANGED closed

\* Mutant: OnCreate starts a VanForm though there is one.
HOnCreateAnyway(h) == StartVanForm(h)

\* "VanForm is already running"
HOnCreate(h) == IF field[h] = None THEN StartVanForm(h) ELSE UNCHANGED forms

\* Mutant: the channel of a VanForm stopped stays in the field.
HOnRemoveKeeps(h) ==
    /\ closed' = [v \in VanForm |-> closed[v] \/ v = field[h]]
    /\ UNCHANGED <<field, home, loop>>

\* Mutant: OnRemove does nothing.
HOnRemoveIdle(h) == UNCHANGED forms

HOnRemove(h) ==
    IF field[h] = None THEN UNCHANGED forms
    ELSE /\ closed' = [closed EXCEPT ![field[h]] = TRUE]
         /\ field' = [field EXCEPT ![h] = None]
         /\ UNCHANGED <<home, loop>>

Queued(h) == {hqueue[h][i] : i \in DOMAIN hqueue[h]}

\* A removal is still to come to OnRemove and no creation behind it.
RemovalLast(h) ==
    \/ hevent[h] = "remove" /\ "create" \notin Queued(h)
    \/ \E i \in DOMAIN hqueue[h] :
        hqueue[h][i] = "remove" /\ \A j \in DOMAIN hqueue[h] : j > i => hqueue[h][j] # "create"

\* The triggers that reach the dispatcher of the watcher.
HDeliver(h) ==
    /\ hevent[h] # None
    /\ IF hevent[h] = "create"
       THEN HOnCreate(h) /\ UNCHANGED misled
       ELSE HOnRemove(h) /\ misled' = IF "create" \in Queued(h) THEN misled ELSE misled \ {h}
    /\ hevent' = [hevent EXCEPT ![h] = None]
    /\ UNCHANGED <<Apart, hwatch, hscan, hqueue, overwritten, unnoticed, outrun>>

HScan(h) ==
    /\ hscan[h] = "send"
    /\ HOnCreate(h)
    /\ hscan' = [hscan EXCEPT ![h] = "no"]
    /\ misled' = IF ~cm[ns[h]] /\ "remove" \notin {hevent[h]} \cup Queued(h)
                 THEN misled \cup {h} ELSE misled
    /\ outrun' = IF RemovalLast(h) THEN outrun \cup {h} ELSE outrun \ {h}
    /\ UNCHANGED <<Apart, hwatch, hqueue, hevent, overwritten, unnoticed>>

\* Mutant: the loop selects on the field of the handler, nil once it is closed.
LoopSelectsField(v) ==
    /\ loop[v] = "run"
    /\ closed[v] /\ field[home[v]] = v
    /\ loop' = [loop EXCEPT ![v] = "ended"]
    /\ UNCHANGED <<Apart, hwatching, field, home, closed, history>>

\* The loop of a VanForm has its channel as an argument: after the pass at work
\* it finds it closed.
LoopEnds(v) ==
    /\ loop[v] = "run"
    /\ closed[v]
    /\ loop' = [loop EXCEPT ![v] = "ended"]
    /\ UNCHANGED <<Apart, hwatching, field, home, closed, history>>

------------------------------------------------------------------------------
(* Shutdown. *)

Aside == <<fileSystem, watching, job, namespaces, ns, hwatching, forms, history>>

Signal ==
    /\ ~stopCh
    /\ made <= StopBy
    /\ Running
    /\ stopCh' = TRUE
    /\ UNCHANGED <<Aside, stop, main, doneCh, toClose, closing>>

ShutdownBegins ==
    /\ main = "run"
    /\ stopCh
    /\ main' = "shutdown"
    /\ toClose' = {n \in Namespace : namespaces[n] # None}
    /\ UNCHANGED <<Aside, stop, stopCh, doneCh, closing>>

ShutdownTakes(n) ==
    /\ Walking
    /\ closing = None
    /\ n \in toClose
    /\ toClose' = toClose \ {n}
    /\ closing' = namespaces[n]
    /\ UNCHANGED <<Aside, stop, main, stopCh, doneCh>>

ShutdownCloses ==
    /\ closing # None
    /\ Close(closing)
    /\ closing' = None
    /\ UNCHANGED <<Aside, main, stopCh, doneCh, toClose>>

ShutdownPanics ==
    /\ closing # None
    /\ stop[closing]
    /\ Dies("panicked")

\* Mutant: shutdown waits for the VanForms.
ShutdownWaits ==
    /\ Walking
    /\ toClose = {} /\ closing = None
    /\ Live = {}
    /\ main' = "done"
    /\ doneCh' = TRUE
    /\ UNCHANGED <<Aside, stop, stopCh, toClose, closing>>

\* "all VanForm instances stopped", says the log; their watchers have been told.
ShutdownDone ==
    /\ Walking
    /\ toClose = {} /\ closing = None
    /\ main' = "done"
    /\ doneCh' = TRUE
    /\ UNCHANGED <<Aside, stop, stopCh, toClose, closing>>

Exit == main = "done" /\ stopCh /\ Dies("exited")

\* A second signal, or ten seconds.
ExitAnyway == stopCh /\ main \in {"run", "shutdown"} /\ Dies("exited")

------------------------------------------------------------------------------
Init ==
    /\ dir \in [Namespace -> BOOLEAN]
    /\ site \in [Namespace -> BOOLEAN] /\ cm \in [Namespace -> BOOLEAN]
    /\ \A n \in Namespace : (cm[n] => site[n]) /\ (site[n] => dir[n])
    /\ made = 0
    /\ watch = "start" /\ scan = {} /\ queue = << >> /\ found = None /\ event = None
    /\ job = None
    /\ namespaces = [n \in Namespace |-> None]
    /\ ns = [h \in Handler |-> None] /\ stop = [h \in Handler |-> FALSE]
    /\ hwatch = [h \in Handler |-> "none"] /\ hscan = [h \in Handler |-> "no"]
    /\ hqueue = [h \in Handler |-> << >>] /\ hevent = [h \in Handler |-> None]
    /\ field = [h \in Handler |-> None]
    /\ home = [v \in VanForm |-> None] /\ closed = [v \in VanForm |-> FALSE]
    /\ loop = [v \in VanForm |-> "none"]
    /\ main = "run" /\ stopCh = FALSE /\ doneCh = FALSE
    /\ toClose = {} /\ closing = None
    /\ overwritten = {} /\ unnoticed = {} /\ misled = {} /\ outrun = {}

FileSystem ==
    \E n \in Namespace :
        \/ MakeNamespace(n) \/ RemoveNamespace(n)
        \/ MakeRuntime(n) \/ RemoveRuntime(n)
        \/ CreateConfigMap(n) \/ RemoveConfigMap(n)

Monitor == WatchAdded \/ WatchRead \/ \E n \in Namespace : FilterFound(n)

Dispatcher == Dispatch \/ OnCreate \/ OnRemove \/ OnRemoveCloses \/ OnRemovePanics
              \/ WatchEnds

HMonitor(h) == HAttach(h) \/ HRead(h) \/ HForget(h) \/ HDrop(h)

HDispatcher(h) == HDeliver(h) \/ HScan(h) \/ HEnd(h)

Shutdown ==
    \/ ShutdownBegins \/ (\E n \in Namespace : ShutdownTakes(n))
    \/ ShutdownCloses \/ ShutdownPanics \/ ShutdownDone

Goroutines ==
    \/ Monitor \/ FilterEvent \/ Dispatcher
    \/ \E h \in Used : HMonitor(h) \/ HTake(h) \/ HDispatcher(h)
    \/ \E v \in VanForm : LoopEnds(v)
    \/ Shutdown \/ Exit

Next ==
    \/ FileSystem \/ Goroutines
    \/ NoWatcher \/ FilterRaces \/ CallbackRaces
    \/ Signal \/ ExitAnyway

\* The goroutines go on while one of them can; each runs out of things to do, so
\* that this is all the fairness needed.  Nothing makes files change, the
\* runtime notice a race, or a signal arrive.
Spec == Init /\ [][Next]_vars /\ WF_vars(Goroutines)

------------------------------------------------------------------------------
(* Properties. *)

\* The values the variables take, where a VanForm has a handler, a callback has
\* a namespace, and handlers that watch nothing have nothing to tell.
TypeOK ==
    /\ dir \in [Namespace -> BOOLEAN]
    /\ site \in [Namespace -> BOOLEAN] /\ cm \in [Namespace -> BOOLEAN]
    /\ \A n \in Namespace : (cm[n] => site[n]) /\ (site[n] => dir[n])
    /\ made \in 0..MaxMade
    /\ watch \in {"start", "added", "on", "ended"}
    /\ scan \subseteq Namespace /\ found \in Namespace \cup {None}
    /\ event # None => event.ns \in Namespace
    /\ namespaces \in [Namespace -> Handler \cup {None}]
    /\ \A n \in Namespace : namespaces[n] # None => ns[namespaces[n]] = n
    /\ stop \in [Handler -> BOOLEAN] /\ hscan \in [Handler -> {"no", "read", "send"}]
    /\ hevent \in [Handler -> {"create", "remove", None}]
    /\ \A h \in Handler :
        /\ hwatch[h] = "none" <=> h \notin Used
        /\ hwatch[h] \in {"none", "ended"} => hqueue[h] = << >> /\ hscan[h] = "no"
    /\ field \in [Handler -> VanForm \cup {None}]
    /\ \A v \in VanForm :
        /\ loop[v] = "none" <=> home[v] = None
        /\ home[v] # None => home[v] \in Used
    /\ main \in {"run", "shutdown", "done", "exited", "panicked", "fatal"}
    /\ stopCh \in BOOLEAN /\ doneCh \in BOOLEAN /\ (main = "done" => doneCh)
    /\ toClose \subseteq {n \in Namespace : namespaces[n] # None}

\* What is running can still be stopped: the channel of a VanForm that has not
\* been stopped is in its handler's field (controller.go:157-161, 179-180), and
\* a handler is in the map or has been stopped, unless the announcement of
\* a namespace announced already put another in its place (99).
NoneForgotten ==
    /\ \A v \in Live : closed[v] \/ field[home[v]] = v
    /\ \A h \in Handler : field[h] # None => ~closed[field[h]]
    /\ \A h \in Used \ overwritten :
        \/ stop[h]
        \/ namespaces[ns[h]] = h
        \/ job # None /\ job = [op |-> "close", handler |-> h]

\* A namespace has a second VanForm that is not being stopped only if its
\* watcher has announced it twice (file_watcher.go:226-260) or it was
\* removed: then the handler of one of the two was replaced or stopped.
OneServes ==
    \A v, w \in Live :
        v # w /\ ~closed[v] /\ ~closed[w] /\ ns[home[v]] = ns[home[w]]
            => \E x \in {v, w} : home[x] \in overwritten \/ stop[home[x]]

\* The channel of a handler is closed twice only in a shutdown, whose walk over
\* the map is not under the lock of OnRemove (controller.go:74-79, 107-116), and
\* then OnRemove took the handler out of the map when the walk had come to it.
ClosedOnce ==
    /\ main = "panicked" => stopCh
    /\ closing # None /\ stop[closing] => namespaces[ns[closing]] # closing

\* A handler without a watcher.
Deaf(h) == hwatch[h] = "ended" /\ ~stop[h]

\* Everything that happened has been dealt with.
Idle ==
    /\ main = "run" /\ ~stopCh
    /\ watch = "on" /\ scan = {} /\ queue = << >>
    /\ found = None /\ event = None /\ job = None
    /\ \A h \in Used :
        /\ hwatch[h] = IF stop[h] \/ Deaf(h) THEN "ended"
                       ELSE IF site[ns[h]] THEN "on" ELSE "wait"
        /\ hscan[h] = "no" /\ hqueue[h] = << >> /\ hevent[h] = None
    /\ \A v \in Live : ~closed[v]

\* When all is quiet a VanForm runs for every namespace that has a ConfigMap, if its
\* handler has a watcher, unless an announcement outran a removal: the ConfigMap's
\* directory came back, with a new one, while OnRemove of the old one was still to
\* come.  Then OnCreate finds the VanForm already running, and OnRemove stops it
\* (controller.go:153-181, file_watcher.go:94-126, 226-260).
Served ==
    Idle => \A n \in Namespace : cm[n] =>
        \/ namespaces[n] # None
           /\ (Deaf(namespaces[n]) \/ namespaces[n] \in outrun)
        \/ \E v \in Live : ns[home[v]] = n

\* When all is quiet a VanForm runs without its ConfigMap only if its handler was
\* stopped first, with its namespace (controller.go:107-116), or was misled: the
\* removal was dropped with the watch, came before the announcement, or while
\* the directory, back again, was not watched yet.
RemovalStops ==
    Idle => \A v \in Live : cm[ns[home[v]]] \/ stop[home[v]] \/ home[v] \in misled

\* When all is quiet no namespace that has gone is in the map, unless its OnCreate
\* came after its removal, which Filter rejected (controller.go:119-124).
Released ==
    Idle => \A n \in Namespace : namespaces[n] # None => dir[n] \/ n \in unnoticed

\* All does become quiet again and again, until the process is stopped: events
\* are dealt with, directories that return are watched again, and what was
\* stopped ends, whatever the order.
Settles == []<>Idle \/ <>(stopCh \/ main # "run")

\* Once told to stop, the process ends without being forced to by a timeout,
\* though callbacks go on meanwhile (controller.go:74-81, main.go:45-61).
ShutdownCompletes == stopCh ~> ~Running

=============================================================================

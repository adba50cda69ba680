--------------------------- MODULE KubeController ---------------------------
(***************************************************************************)
(* The Kubernetes controller (internal/van/kube/controller.go), the VanForm*)
(* instances it starts and stops (internal/van/kube/vanform.go) and the    *)
(* shutdown of main.go.  An informer watches the ConfigMaps named          *)
(* skupper-van-form; its handlers start a VanForm, a goroutine that runs a *)
(* reconcile pass every minute, in the namespace of each, and stop it when *)
(* the ConfigMap goes.                                                     *)
(*                                                                         *)
(* A VanForm is told to stop by closing the channel in its stopCh field,   *)
(* which Stop then sets to nil under a lock.  The loop reads the field     *)
(* without the lock, once for every select: what it waits for is the       *)
(* channel the field held when it came to the select.                      *)
(***************************************************************************)
EXTENDS Sequences, Integers

CONSTANTS
    Namespace,          \* namespaces that may have the ConfigMap
    VanForm,            \* VanForm objects, never used twice by a process
    None,               \* no VanForm, or nil
    MaxEvents,          \* bound on the changes to the ConfigMaps
    MaxFaults           \* bound on interrupted watches

ASSUME NoneAssumption == None \notin VanForm \cup Namespace
ASSUME BoundAssumption == MaxEvents \in Nat /\ MaxFaults \in Nat

VARIABLES
    cm,                 \* the ConfigMap of each namespace: its config.json
    watched,            \* ... when its Add event was made
    queue,              \* events not handled yet
    instances,          \* the VanForm of each namespace, or None
    ns,                 \* the namespace of each VanForm started
    field,              \* does its stopCh field hold the channel still?
    closed,             \* is its channel closed?
    loop,               \* where its goroutine is
    waits,              \* was the field not nil when it came to its select?
    stopping,           \* the VanForm Stop is busy with, or None
    main,               \* where the process is
    stopCh, doneCh,     \* are the controller's channels closed?
    events, faults      \* how much of the bounds is used

api == <<cm, watched, events, faults>>
forms == <<ns, field, closed>>
loops == <<loop, waits>>
process == <<main, stopCh, doneCh>>
vars == <<api, queue, instances, forms, loops, stopping, process>>

Content == {"good", "bad"}          \* can config.json be parsed?

Started == {v \in VanForm : loop[v] # "none"}
Live == {v \in VanForm : loop[v] \in {"process", "select"}}
Held == {v \in VanForm : \E n \in Namespace : instances[n] = v}

Event(type, n, content) == [type |-> type, ns |-> n, content |-> content]

------------------------------------------------------------------------------
(* The API server and the informer's watch. *)

Change == events < MaxEvents /\ events' = events + 1

\* No event reaches a process that has gone.
Notify(e) == queue' = IF main = "run" THEN Append(queue, e) ELSE queue

CreateConfigMap(n, c) ==
    /\ cm[n] = None
    /\ Change
    /\ cm' = [cm EXCEPT ![n] = c]
    /\ watched' = [watched EXCEPT ![n] = c]
    /\ Notify(Event("add", n, c))
    /\ UNCHANGED <<faults, instances, forms, loops, stopping, process>>

UpdateConfigMap(n, c) ==
    /\ cm[n] \in Content \ {c}
    /\ Change
    /\ cm' = [cm EXCEPT ![n] = c]
    /\ Notify(Event("update", n, c))
    /\ UNCHANGED <<watched, faults, instances, forms, loops, stopping, process>>

\* If the watch was interrupted the informer learns of the deletion from a
\* list, and hands on a DeletedFinalStateUnknown in place of the object.
DeleteConfigMap(n) ==
    /\ cm[n] # None
    /\ Change
    /\ cm' = [cm EXCEPT ![n] = None]
    /\ watched' = [watched EXCEPT ![n] = None]
    /\ \/ Notify(Event("delete", n, cm[n])) /\ UNCHANGED faults
       \/ /\ faults < MaxFaults
          /\ faults' = faults + 1
          /\ Notify(Event("tombstone", n, cm[n]))
    /\ UNCHANGED <<instances, forms, loops, stopping, process>>

------------------------------------------------------------------------------
(* The event handlers, called one at a time. *)

Handling(type) ==
    /\ main = "run"
    /\ stopping = None
    /\ queue # << >>
    /\ Head(queue).type = type
    /\ queue' = Tail(queue)

\* Mutant: the VanForm does not know its namespace.
LaunchUnnamed(n, v) ==
    /\ instances' = [instances EXCEPT ![n] = v]
    /\ field' = [field EXCEPT ![v] = TRUE]
    /\ loop' = [loop EXCEPT ![v] = "process"]
    /\ UNCHANGED ns

\* A fresh VanForm, its loop about to start.
Launch(n, v) ==
    /\ instances' = [instances EXCEPT ![n] = v]
    /\ ns' = [ns EXCEPT ![v] = n]
    /\ field' = [field EXCEPT ![v] = TRUE]
    /\ loop' = [loop EXCEPT ![v] = "process"]

\* The set of VanForm objects is a bound: the code never lacks a fresh one.
ConfigmapAdded ==
    /\ Handling("add")
    /\ LET e == Head(queue)
       IN  IF e.content = "good" /\ instances[e.ns] = None
           THEN /\ Started # VanForm
                /\ Launch(e.ns, CHOOSE v \in VanForm : v \notin Started)
           ELSE UNCHANGED <<instances, ns, field, loop>>
    /\ UNCHANGED <<api, closed, waits, stopping, process>>

\* UpdateFunc is empty.
ConfigmapUpdated ==
    /\ Handling("update")
    /\ UNCHANGED <<api, instances, forms, loops, stopping, process>>

\* Stop: the channel is closed, then the field set to nil.  Closing a nil
\* channel would panic; StopOnce says that it never comes to that.
StopClose(v) ==
    /\ field[v]
    /\ closed' = [closed EXCEPT ![v] = TRUE]
    /\ stopping' = v

\* Mutant: Stop keeps the field.
StopNotNil == stopping' = None /\ UNCHANGED field

StopNil ==
    /\ field' = [field EXCEPT ![stopping] = FALSE]
    /\ stopping' = None

\* Mutant: the VanForm is forgotten without a Stop.
ConfigmapDropped ==
    /\ Handling("delete")
    /\ instances' = [instances EXCEPT ![Head(queue).ns] = None]
    /\ UNCHANGED <<api, ns, field, closed, loops, stopping, process>>

ConfigmapDeleted ==
    /\ Handling("delete")
    /\ LET n == Head(queue).ns
       IN  IF instances[n] # None
           THEN StopClose(instances[n])
           ELSE UNCHANGED <<closed, stopping>>
    /\ UNCHANGED <<api, instances, ns, field, loops, process>>

\* Mutant: the VanForm stopped is left in the map.
ConfigmapKept ==
    /\ main = "run"
    /\ stopping # None
    /\ StopNil
    /\ UNCHANGED <<api, queue, instances, ns, closed, loops, process>>

\* The rest of configmapDeleted.
ConfigmapForgotten ==
    /\ main = "run"
    /\ stopping # None
    /\ StopNil
    /\ instances' = [instances EXCEPT ![ns[stopping]] = None]
    /\ UNCHANGED <<api, queue, ns, closed, loops, process>>

\* Nothing of a process outlives it.
Vanish ==
    /\ queue' = << >>
    /\ instances' = [n \in Namespace |-> None]
    /\ ns' = [v \in VanForm |-> None]
    /\ field' = [v \in VanForm |-> FALSE]
    /\ closed' = [v \in VanForm |-> FALSE]
    /\ loop' = [v \in VanForm |-> "none"]
    /\ waits' = [v \in VanForm |-> FALSE]
    /\ stopping' = None

\* The type assertion of DeleteFunc fails on a tombstone, and panics.
TombstonePanics ==
    /\ main = "run"
    /\ stopping = None
    /\ queue # << >>
    /\ Head(queue).type = "tombstone"
    /\ Vanish
    /\ main' = "panicked"
    /\ stopCh' = FALSE
    /\ UNCHANGED <<api, doneCh>>

\* The Deployment starts the process again; its informer lists first.
Restart(order) ==
    /\ main = "panicked"
    /\ main' = "run"
    /\ queue' = [i \in DOMAIN order |-> Event("add", order[i], cm[order[i]])]
    /\ watched' = cm
    /\ UNCHANGED <<cm, events, faults, instances, forms, loops, stopping,
                   stopCh, doneCh>>

------------------------------------------------------------------------------
(* The loop of a VanForm. *)

\* The pass, whether it fails or not, ends, and the loop comes to its select.
Process(v) ==
    /\ loop[v] = "process"
    /\ loop' = [loop EXCEPT ![v] = "select"]
    /\ waits' = [waits EXCEPT ![v] = field[v]]
    /\ UNCHANGED <<api, queue, instances, forms, stopping, process>>

Resync(v) ==
    /\ loop[v] = "select"
    /\ loop' = [loop EXCEPT ![v] = "process"]
    /\ UNCHANGED <<api, queue, instances, forms, waits, stopping, process>>

\* Mutant: the loop does not listen to the controller's channel.
ToldByItsOwn(v) == waits[v] /\ closed[v]

Told(v) == stopCh \/ (waits[v] /\ closed[v])

LoopEnds(v) ==
    /\ loop[v] = "select"
    /\ Told(v)
    /\ loop' = [loop EXCEPT ![v] = "ended"]
    /\ UNCHANGED <<api, queue, instances, forms, waits, stopping, process>>

------------------------------------------------------------------------------
(* Shutdown: main closes stopCh on a signal; the informer returns once the   *)
(* handler at work has, the events left undelivered; the controller stops    *)
(* every instance, waits until none IsRunning, and closes doneCh.            *)

Signal ==
    /\ main = "run"
    /\ ~stopCh
    /\ stopCh' = TRUE
    /\ UNCHANGED <<api, queue, instances, forms, loops, stopping, main, doneCh>>

InformerReturns ==
    /\ main = "run"
    /\ stopCh
    /\ stopping = None
    /\ main' = "shutdown"
    /\ queue' = << >>
    /\ UNCHANGED <<api, instances, forms, loops, stopping, stopCh, doneCh>>

ShutdownStops ==
    /\ main = "shutdown"
    /\ \/ /\ stopping = None
          /\ \E v \in Held : ~closed[v] /\ StopClose(v)
          /\ UNCHANGED field
       \/ /\ stopping # None
          /\ StopNil
          /\ UNCHANGED closed
    /\ UNCHANGED <<api, queue, instances, ns, loops, process>>

IsRunning(v) == field[v]

AllStopped ==
    /\ main = "shutdown"
    /\ ~doneCh
    /\ stopping = None
    /\ \A v \in Held : closed[v] /\ ~IsRunning(v)
    /\ doneCh' = TRUE
    /\ UNCHANGED <<api, queue, instances, forms, loops, stopping, main, stopCh>>

\* On doneCh, a second signal or the timeout.
Exit ==
    /\ stopCh
    /\ main \in {"run", "shutdown"}
    /\ main' = "exited"
    /\ Vanish
    /\ UNCHANGED <<api, stopCh, doneCh>>

------------------------------------------------------------------------------
Init ==
    /\ cm = [n \in Namespace |-> None]
    /\ watched = cm
    /\ queue = << >>
    /\ instances = [n \in Namespace |-> None]
    /\ ns = [v \in VanForm |-> None]
    /\ field = [v \in VanForm |-> FALSE]
    /\ closed = [v \in VanForm |-> FALSE]
    /\ loop = [v \in VanForm |-> "none"]
    /\ waits = [v \in VanForm |-> FALSE]
    /\ stopping = None
    /\ main = "run"
    /\ stopCh = FALSE
    /\ doneCh = FALSE
    /\ events = 0
    /\ faults = 0

\* The namespaces that have the ConfigMap, in the order of a list.
Listings ==
    LET present == {n \in Namespace : cm[n] # None}
    IN  {s \in UNION {[1..k -> present] : k \in 0..MaxEvents} :
            /\ \A n \in present : \E i \in DOMAIN s : s[i] = n
            /\ \A i, j \in DOMAIN s : s[i] = s[j] => i = j}

Api ==
    \E n \in Namespace :
        \/ \E c \in Content : CreateConfigMap(n, c) \/ UpdateConfigMap(n, c)
        \/ DeleteConfigMap(n)

Handlers ==
    \/ ConfigmapAdded \/ ConfigmapUpdated
    \/ ConfigmapDeleted \/ ConfigmapForgotten
    \/ TombstonePanics

Controller ==
    \/ Handlers
    \/ \E order \in Listings : Restart(order)
    \/ InformerReturns \/ ShutdownStops \/ AllStopped

Loop(v) == Process(v) \/ Resync(v)

Next ==
    \/ Api \/ Controller \/ Signal \/ Exit
    \/ \E v \in VanForm : Loop(v) \/ LoopEnds(v)

(***************************************************************************)
(* The goroutines of the controller and of every VanForm go on, and a pass *)
(* ends: its calls to Vault and the API server time out.  select chooses   *)
(* at random among the channels that are ready, so one that is ready at    *)
(* every select is chosen some time: strong fairness.  Nothing makes the   *)
(* API server change or a signal arrive.                                   *)
(***************************************************************************)
Spec ==
    /\ Init /\ [][Next]_vars
    /\ WF_vars(Controller)
    /\ \A v \in VanForm : WF_vars(Loop(v)) /\ SF_vars(LoopEnds(v))

------------------------------------------------------------------------------
(* Properties. *)

\* The values the variables take, where only a VanForm that was started has
\* been put to use.
TypeOK ==
    /\ cm \in [Namespace -> Content \cup {None}]
    /\ watched \in [Namespace -> Content \cup {None}]
    /\ queue \in Seq([type : {"add", "update", "delete", "tombstone"},
                      ns : Namespace, content : Content])
    /\ instances \in [Namespace -> VanForm \cup {None}]
    /\ ns \in [VanForm -> Namespace \cup {None}]
    /\ field \in [VanForm -> BOOLEAN]
    /\ closed \in [VanForm -> BOOLEAN]
    /\ loop \in [VanForm -> {"none", "process", "select", "ended"}]
    /\ waits \in [VanForm -> BOOLEAN]
    /\ stopping \in VanForm \cup {None}
    /\ main \in {"run", "panicked", "shutdown", "exited"}
    /\ stopCh \in BOOLEAN /\ doneCh \in BOOLEAN
    /\ events \in 0..MaxEvents /\ faults \in 0..MaxFaults
    /\ \A v \in VanForm : ns[v] # None <=> v \in Started

\* Stop is never called twice: the VanForm of a namespace has its channel
\* still, open (controller.go:148-154), until its Stop, or shutdown's, has come
\* to it.  A second Stop would close a nil channel and kill the process.
StopOnce ==
    \A v \in Held :
        \/ ns[v] # None /\ instances[ns[v]] = v /\ field[v] /\ ~closed[v]
        \/ closed[v] /\ (stopping = v \/ main = "shutdown")

\* No VanForm is out of control: one whose loop lives is in the map, where
\* the deletion of its ConfigMap finds it, or has been told to stop.  At most
\* one in a namespace has not been told, however events repeat
\* (controller.go:122-134).
NoneForgotten ==
    /\ \A v \in Live : v \in Held \/ closed[v]
    /\ \A v, w \in Live : ns[v] = ns[w] /\ ~closed[v] /\ ~closed[w] => v = w

\* A namespace whose ConfigMap was good when it was added, and stays, comes to
\* have a VanForm and keeps it, whatever was added and deleted before and
\* though the process dies in between; unless it shuts down.
Served ==
    \A n \in Namespace :
        <>[](watched[n] = "good") =>
            <>stopCh \/ <>[](instances[n] # None /\ instances[n] \in Live)

\* Closing the controller's channel ends every loop, also those whose own stop
\* was lost (vanform.go:111-113), and lets the controller finish
\* (controller.go:79-99), if the process does not go first.
ShutdownCompletes ==
    stopCh ~> (main \in {"exited", "panicked"} \/ (doneCh /\ Live = {}))

\* A VanForm that has been stopped stops (controller.go:152, vanform.go:114-116).
StopTakesEffect == \A v \in VanForm : closed[v] ~> v \notin Live

=============================================================================

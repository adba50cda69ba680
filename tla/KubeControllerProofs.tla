------------------------ MODULE KubeControllerProofs ------------------------
(***************************************************************************)
(* Proofs about the Kubernetes controller, for any namespaces, VanForm     *)
(* objects and bounds: the types, that no VanForm is stopped twice, and    *)
(* that none is forgotten.                                                 *)
(***************************************************************************)
EXTENDS KubeController, SequenceTheorems, TLAPS

------------------------------------------------------------------------------
(* The inductive invariant. *)

\* The map and the objects agree: what it holds knows its namespace, and what was
\* never started has nothing.
MapInv ==
    /\ \A n \in Namespace : instances[n] # None => ns[instances[n]] = n
    /\ \A v \in VanForm : v \notin Started => ~field[v] /\ ~closed[v]

\* Between its two halves a Stop has closed the channel of a VanForm that is in the
\* map still.
StopInv ==
    stopping # None =>
        /\ main \in {"run", "shutdown"}
        /\ stopping \in Held
        /\ closed[stopping]

IInv == TypeOK /\ MapInv /\ StopInv /\ StopOnce /\ NoneForgotten

------------------------------------------------------------------------------
(* Lemmas about the operators. *)

EventRecord ==
    [type : {"add", "update", "delete", "tombstone"}, ns : Namespace, content : Content]

\* An object held knows the namespace it is held for, and is held for no other.
LEMMA HeldOnce ==
    ASSUME TypeOK, MapInv, NEW v \in Held
    PROVE  /\ v \in Started /\ ns[v] \in Namespace /\ instances[ns[v]] = v
           /\ \A n \in Namespace : instances[n] = v => n = ns[v]
<1>1. PICK n \in Namespace : instances[n] = v
  BY DEF Held
<1>2. v \in VanForm /\ v # None
  BY NoneAssumption DEF Held
<1>3. ns[v] = n
  BY <1>1, <1>2 DEF MapInv
<1>4. ns[v] # None
  BY <1>3, NoneAssumption
<1> QED BY <1>1, <1>2, <1>3, <1>4 DEF TypeOK, MapInv

\* A listing is delivered as a sequence of Add events.
LEMMA ListingType ==
    ASSUME TypeOK, NEW order \in Listings
    PROVE  [i \in DOMAIN order |-> Event("add", order[i], cm[order[i]])] \in Seq(EventRecord)
<1> DEFINE present == {n \in Namespace : cm[n] # None}
<1>1. PICK k \in 0..MaxEvents : order \in [1..k -> present]
  BY DEF Listings
<1>2. \A i \in 1..k : Event("add", order[i], cm[order[i]]) \in EventRecord
  BY <1>1 DEF Event, EventRecord, TypeOK
<1>3. k \in Nat /\ DOMAIN order = 1..k
  BY <1>1, BoundAssumption
<1> DEFINE q == [i \in DOMAIN order |-> Event("add", order[i], cm[order[i]])]
<1>4. q \in [1..k -> EventRecord]
  BY <1>2, <1>3
<1> HIDE DEF q
<1>5. q \in Seq(EventRecord)
  BY <1>3, <1>4, SeqDef
<1> QED BY <1>5 DEF q

------------------------------------------------------------------------------
(* The API server: it touches neither the map nor any VanForm. *)

LEMMA NotifyType ==
    ASSUME TypeOK, NEW e \in EventRecord, Notify(e)
    PROVE  queue' \in Seq(EventRecord)
<1>1. queue \in Seq(EventRecord)
  BY DEF TypeOK, EventRecord
<1> QED BY <1>1, AppendProperties DEF Notify

\* A step that leaves alone the map, the objects and the process keeps the rest.
LEMMA Aside ==
    ASSUME IInv, UNCHANGED <<instances, forms, loops, stopping, main>>
    PROVE  MapInv' /\ StopInv' /\ StopOnce' /\ NoneForgotten'
<1> USE DEF IInv, forms, loops
<1>1. Held' = Held /\ Started' = Started /\ Live' = Live
  BY DEF Held, Started, Live
<1>2. MapInv'
  BY <1>1 DEF MapInv
<1>3. StopInv'
  BY <1>1 DEF StopInv
<1>4. StopOnce'
  BY <1>1 DEF StopOnce
<1>5. NoneForgotten'
  BY <1>1 DEF NoneForgotten
<1> QED BY <1>2, <1>3, <1>4, <1>5

LEMMA ApiPreserves ==
    ASSUME IInv, Api
    PROVE  IInv'
<1>a. TypeOK
  BY DEF IInv
<1>b. ASSUME Change
      PROVE  events' \in 0..MaxEvents
  BY <1>a, <1>b, BoundAssumption DEF Change, TypeOK
<1>c. UNCHANGED <<instances, forms, loops, stopping, process>>
  BY DEF Api, CreateConfigMap, UpdateConfigMap, DeleteConfigMap
<1>1. ASSUME NEW n \in Namespace, NEW c \in Content,
             CreateConfigMap(n, c) \/ UpdateConfigMap(n, c)
      PROVE  TypeOK'
  <2>1. Event("add", n, c) \in EventRecord /\ Event("update", n, c) \in EventRecord
    BY DEF Event, EventRecord
  <2>2. queue' \in Seq(EventRecord) /\ events' \in 0..MaxEvents
    BY <1>a, <1>b, <1>1, <2>1, NotifyType DEF CreateConfigMap, UpdateConfigMap
  <2>3. /\ cm' \in [Namespace -> Content \cup {None}]
        /\ watched' \in [Namespace -> Content \cup {None}]
        /\ faults' = faults
    BY <1>a, <1>1 DEF CreateConfigMap, UpdateConfigMap, TypeOK
  <2> QED
    BY <1>a, <1>c, <2>2, <2>3 DEF TypeOK, EventRecord, forms, loops, process, Started
<1>2. ASSUME NEW n \in Namespace, DeleteConfigMap(n)
      PROVE  TypeOK'
  <2>1. /\ Event("delete", n, cm[n]) \in EventRecord
        /\ Event("tombstone", n, cm[n]) \in EventRecord
    BY <1>a, <1>2 DEF DeleteConfigMap, Event, EventRecord, TypeOK
  <2>2. queue' \in Seq(EventRecord) /\ events' \in 0..MaxEvents
    BY <1>a, <1>b, <1>2, <2>1, NotifyType DEF DeleteConfigMap
  <2>3. /\ cm' \in [Namespace -> Content \cup {None}]
        /\ watched' \in [Namespace -> Content \cup {None}]
        /\ faults' \in 0..MaxFaults
    BY <1>a, <1>2, BoundAssumption DEF DeleteConfigMap, TypeOK
  <2> QED
    BY <1>a, <1>c, <2>2, <2>3 DEF TypeOK, EventRecord, forms, loops, process, Started
<1>3. TypeOK'
  BY <1>1, <1>2 DEF Api
<1> QED BY <1>c, <1>3, Aside DEF IInv, process

------------------------------------------------------------------------------
(* The handlers. *)

\* The event at the head of the queue is one, and what is left is a queue.
LEMMA HandlingTypes ==
    ASSUME TypeOK, NEW type, Handling(type)
    PROVE  /\ Head(queue) \in EventRecord
           /\ queue' \in Seq(EventRecord)
           /\ stopping = None /\ main = "run"
<1>1. queue \in Seq(EventRecord) /\ queue # << >>
  BY DEF TypeOK, EventRecord, Handling
<1> QED BY <1>1, HeadTailProperties DEF Handling

\* A VanForm is launched where there was none, so none is lost from the map.
LEMMA LaunchKeeps ==
    ASSUME IInv, NEW n \in Namespace, NEW v \in VanForm, v \notin Started,
           instances[n] = None, Launch(n, v), main = "run", stopping = None,
           UNCHANGED <<closed, stopping, main>>
    PROVE  /\ MapInv' /\ StopInv' /\ StopOnce' /\ NoneForgotten'
           /\ instances' \in [Namespace -> VanForm \cup {None}]
           /\ ns' \in [VanForm -> Namespace \cup {None}]
           /\ field' \in [VanForm -> BOOLEAN]
           /\ loop' \in [VanForm -> {"none", "process", "select", "ended"}]
           /\ \A w \in VanForm : ns'[w] # None <=> w \in Started'
<1>a. TypeOK /\ MapInv /\ StopOnce /\ NoneForgotten
  BY DEF IInv
<1>b. v # None /\ n # None
  BY NoneAssumption
<1>c. /\ instances' \in [Namespace -> VanForm \cup {None}]
      /\ ns' \in [VanForm -> Namespace \cup {None}]
      /\ field' \in [VanForm -> BOOLEAN]
      /\ loop' \in [VanForm -> {"none", "process", "select", "ended"}]
  BY <1>a DEF TypeOK, Launch
<1>d. /\ instances'[n] = v /\ ns'[v] = n /\ field'[v] /\ loop'[v] = "process"
      /\ \A m \in Namespace \ {n} : instances'[m] = instances[m]
      /\ \A w \in VanForm \ {v} :
            ns'[w] = ns[w] /\ field'[w] = field[w] /\ loop'[w] = loop[w]
  BY <1>a DEF TypeOK, Launch
<1>e. closed' = closed /\ stopping' = None /\ main' = "run" /\ main # "shutdown"
  BY DEF Launch
<1>f. ~closed[v] /\ \A w \in Held : w # v /\ ns[w] # n
  BY <1>a, <1>b, HeldOnce, NoneAssumption DEF MapInv, Held
<1>1. Started' = Started \cup {v}
  BY <1>d DEF Started
<1>2. Live' = Live \cup {v}
  BY <1>d DEF Live
<1>3. Held' = Held \cup {v}
  <2>1. ASSUME NEW w \in Held PROVE w \in Held'
    <3>1. ns[w] \in Namespace /\ instances[ns[w]] = w /\ ns[w] # n /\ w \in VanForm
      BY <1>a, <1>f, HeldOnce DEF Held
    <3> QED BY <1>d, <3>1 DEF Held
  <2>2. v \in Held'
    BY <1>d DEF Held
  <2>3. ASSUME NEW w \in Held', w # v PROVE w \in Held
    <3>1. PICK m \in Namespace : instances'[m] = w
      BY DEF Held
    <3>2. m # n /\ w \in VanForm
      BY <1>d, <2>3, <3>1 DEF Held
    <3> QED BY <1>d, <3>1, <3>2 DEF Held
  <2> QED BY <2>1, <2>2, <2>3
<1>4. MapInv'
  <2>1. ASSUME NEW m \in Namespace, instances'[m] # None
        PROVE  ns'[instances'[m]] = m
    <3>1. CASE m = n
      BY <1>d, <3>1
    <3>2. CASE m # n
      <4>1. instances'[m] = instances[m] /\ instances[m] \in VanForm
        BY <1>a, <1>d, <2>1, <3>2 DEF TypeOK
      <4>2. ns[instances[m]] = m /\ instances[m] # v
        BY <1>a, <1>f, <2>1, <4>1 DEF MapInv, Held
      <4> QED BY <1>d, <4>1, <4>2
    <3> QED BY <3>1, <3>2
  <2>2. \A w \in VanForm : w \notin Started' => ~field'[w] /\ ~closed'[w]
    BY <1>a, <1>d, <1>e, <1>1 DEF MapInv
  <2> QED BY <2>1, <2>2 DEF MapInv
<1>5. StopInv'
  BY <1>e DEF StopInv
<1>6. StopOnce'
  <2> SUFFICES ASSUME NEW w \in Held'
               PROVE  /\ ns'[w] # None /\ instances'[ns'[w]] = w
                      /\ field'[w] /\ ~closed'[w]
    BY DEF StopOnce
  <2>1. CASE w = v
    BY <1>b, <1>d, <1>e, <1>f, <2>1
  <2>2. CASE w \in Held
    <3>1. /\ ns[w] \in Namespace /\ instances[ns[w]] = w /\ ns[w] # n
          /\ w \in VanForm \ {v} /\ w # None
      BY <1>a, <1>f, <2>2, HeldOnce, NoneAssumption DEF Held
    <3>2. field[w] /\ ~closed[w] /\ ns[w] # None
      BY <1>a, <2>2, <3>1, <1>e DEF StopOnce
    <3> QED BY <1>d, <1>e, <3>1, <3>2
  <2> QED BY <1>3, <2>1, <2>2
<1>7. NoneForgotten'
  <2>1. \A w \in Live' : w \in Held' \/ closed'[w]
    BY <1>a, <1>e, <1>2, <1>3 DEF NoneForgotten
  <2>2. \A w \in Live \ {v} : ns'[w] = ns[w] /\ (~closed[w] => ns[w] # n)
    BY <1>a, <1>d, <1>f DEF NoneForgotten, Live
  <2>3. \A u, w \in Live' :
            ns'[u] = ns'[w] /\ ~closed'[u] /\ ~closed'[w] => u = w
    BY <1>a, <1>d, <1>e, <1>2, <2>2 DEF NoneForgotten
  <2> QED BY <2>1, <2>3 DEF NoneForgotten
<1>8. \A w \in VanForm : ns'[w] # None <=> w \in Started'
  BY <1>a, <1>b, <1>d, <1>1 DEF TypeOK
<1> QED BY <1>c, <1>4, <1>5, <1>6, <1>7, <1>8

LEMMA AddedPreserves ==
    ASSUME IInv, ConfigmapAdded
    PROVE  IInv'
<1> DEFINE n == Head(queue).ns
           v == CHOOSE x \in VanForm : x \notin Started
<1>a. TypeOK
  BY DEF IInv
<1>b. /\ n \in Namespace /\ queue' \in Seq(EventRecord)
      /\ stopping = None /\ main = "run"
      /\ UNCHANGED <<api, closed, waits, stopping, process>>
  BY <1>a, HandlingTypes DEF ConfigmapAdded, EventRecord
<1>1. CASE UNCHANGED <<instances, ns, field, loop>>
  <2>1. TypeOK'
    BY <1>a, <1>b, <1>1 DEF TypeOK, EventRecord, api, process, Started
  <2> QED BY <1>b, <1>1, <2>1, Aside DEF IInv, forms, loops, process
<1>2. CASE instances[n] = None /\ Started # VanForm /\ Launch(n, v)
  <2>1. v \in VanForm /\ v \notin Started
    BY <1>2 DEF Started
  <2> HIDE DEF n, v
  <2>2. /\ MapInv' /\ StopInv' /\ StopOnce' /\ NoneForgotten'
        /\ instances' \in [Namespace -> VanForm \cup {None}]
        /\ ns' \in [VanForm -> Namespace \cup {None}]
        /\ field' \in [VanForm -> BOOLEAN]
        /\ loop' \in [VanForm -> {"none", "process", "select", "ended"}]
        /\ \A w \in VanForm : ns'[w] # None <=> w \in Started'
    BY <1>b, <1>2, <2>1, LaunchKeeps DEF process
  <2>3. TypeOK'
    BY <1>a, <1>b, <2>2 DEF TypeOK, EventRecord, api, process
  <2> QED BY <2>2, <2>3 DEF IInv
<1> QED BY <1>1, <1>2 DEF ConfigmapAdded

LEMMA UpdatedPreserves ==
    ASSUME IInv, ConfigmapUpdated
    PROVE  IInv'
<1>1. queue' \in Seq(EventRecord)
  BY HandlingTypes DEF IInv, ConfigmapUpdated
<1>2. UNCHANGED <<api, instances, forms, loops, stopping, process>>
  BY DEF ConfigmapUpdated
<1>3. TypeOK'
  BY <1>1, <1>2 DEF IInv, TypeOK, EventRecord, api, forms, loops, process, Started
<1> QED BY <1>2, <1>3, Aside DEF IInv, process

\* The first half of a Stop, of a VanForm in the map whose field holds the channel.
LEMMA StopCloseKeeps ==
    ASSUME IInv, NEW v \in Held, StopClose(v), stopping = None,
           main \in {"run", "shutdown"},
           UNCHANGED <<instances, ns, field, loops, main>>
    PROVE  /\ MapInv' /\ StopInv' /\ StopOnce' /\ NoneForgotten'
           /\ closed' \in [VanForm -> BOOLEAN] /\ stopping' \in VanForm \cup {None}
           /\ Started' = Started
<1>a. TypeOK /\ MapInv /\ StopOnce /\ NoneForgotten
  BY DEF IInv
<1>b. v \in VanForm /\ v # None /\ v \in Started
  BY <1>a, HeldOnce, NoneAssumption DEF Held
<1>c. /\ closed' \in [VanForm -> BOOLEAN]
      /\ closed'[v] /\ stopping' = v
      /\ \A w \in VanForm \ {v} : closed'[w] = closed[w]
  BY <1>a, <1>b DEF TypeOK, StopClose
<1>d. Held' = Held /\ Started' = Started /\ Live' = Live
  BY DEF Held, Started, Live, loops
<1>e. Held \subseteq VanForm /\ Live \subseteq VanForm
  BY DEF Held, Live
<1>1. MapInv'
  BY <1>a, <1>b, <1>c, <1>d DEF MapInv
<1>2. StopInv'
  BY <1>b, <1>c, <1>d DEF StopInv
<1>3. StopOnce'
  BY <1>a, <1>b, <1>c, <1>d, <1>e, NoneAssumption DEF StopOnce
<1>4. NoneForgotten'
  BY <1>a, <1>c, <1>d, <1>e DEF NoneForgotten
<1> QED BY <1>1, <1>2, <1>3, <1>4, <1>b, <1>c, <1>d

LEMMA DeletedPreserves ==
    ASSUME IInv, ConfigmapDeleted
    PROVE  IInv'
<1> DEFINE n == Head(queue).ns
<1>a. TypeOK
  BY DEF IInv
<1>b. /\ n \in Namespace /\ queue' \in Seq(EventRecord)
      /\ stopping = None /\ main = "run"
      /\ UNCHANGED <<api, instances, ns, field, loops, process>>
  BY <1>a, HandlingTypes DEF ConfigmapDeleted, EventRecord
<1> HIDE DEF n
<1>1. CASE UNCHANGED <<closed, stopping>>
  <2>1. TypeOK'
    BY <1>a, <1>b, <1>1 DEF TypeOK, EventRecord, api, loops, process, Started
  <2> QED BY <1>b, <1>1, <2>1, Aside DEF IInv, forms, process
<1>2. CASE instances[n] # None /\ StopClose(instances[n])
  <2>1. instances[n] \in Held
    BY <1>a, <1>b, <1>2 DEF Held, TypeOK
  <2>2. /\ MapInv' /\ StopInv' /\ StopOnce' /\ NoneForgotten'
        /\ closed' \in [VanForm -> BOOLEAN] /\ stopping' \in VanForm \cup {None}
        /\ Started' = Started
    BY <1>b, <1>2, <2>1, StopCloseKeeps DEF process
  <2>3. TypeOK'
    BY <1>a, <1>b, <2>2 DEF TypeOK, EventRecord, api, loops, process
  <2> QED BY <2>2, <2>3 DEF IInv
<1> QED BY <1>1, <1>2 DEF ConfigmapDeleted, n

\* The second half: the VanForm leaves the map, its channel closed.
LEMMA ForgottenPreserves ==
    ASSUME IInv, ConfigmapForgotten
    PROVE  IInv'
<1> DEFINE v == stopping
<1>a. TypeOK /\ MapInv /\ StopInv /\ StopOnce /\ NoneForgotten
  BY DEF IInv
<1>b. /\ v \in Held /\ v \in VanForm /\ closed[v] /\ main = "run"
      /\ UNCHANGED <<api, queue, ns, closed, loops, process>>
      /\ stopping' = None
  BY <1>a DEF ConfigmapForgotten, StopInv, Held, StopNil
<1>c. /\ ns[v] \in Namespace /\ instances[ns[v]] = v /\ v \in Started
      /\ \A n \in Namespace : instances[n] = v => n = ns[v]
  BY <1>a, <1>b, HeldOnce
<1>d. /\ instances' \in [Namespace -> VanForm \cup {None}]
      /\ field' \in [VanForm -> BOOLEAN]
      /\ instances'[ns[v]] = None
      /\ \A n \in Namespace : n # ns[v] => instances'[n] = instances[n]
      /\ \A w \in VanForm : w # v => field'[w] = field[w]
      /\ ~field'[v]
  BY <1>a, <1>b, <1>c DEF ConfigmapForgotten, StopNil, TypeOK
<1> HIDE DEF v
<1>1. Started' = Started /\ Live' = Live
  BY <1>b DEF Started, Live, loops
<1>2. Held' = Held \ {v}
  BY <1>b, <1>c, <1>d, NoneAssumption DEF Held
<1>3. TypeOK'
  BY <1>a, <1>b, <1>d, <1>1 DEF TypeOK, api, loops, process
<1>4. MapInv'
  BY <1>a, <1>b, <1>c, <1>d, <1>1 DEF MapInv
<1>5. StopInv'
  BY <1>b DEF StopInv
<1>6. StopOnce'
  <2> SUFFICES ASSUME NEW w \in Held, w # v
               PROVE  /\ ns'[w] # None /\ instances'[ns'[w]] = w
                      /\ field'[w] /\ ~closed'[w]
    BY <1>2 DEF StopOnce
  <2>1. ns[w] # None /\ instances[ns[w]] = w /\ field[w] /\ ~closed[w]
    BY <1>a, <1>b DEF StopOnce, v
  <2>2. ns[w] \in Namespace /\ ns[w] # ns[v] /\ w \in VanForm
    BY <1>a, <1>c, <2>1, HeldOnce DEF Held
  <2> QED BY <1>b, <1>d, <2>1, <2>2
<1>7. NoneForgotten'
  BY <1>a, <1>b, <1>1, <1>2 DEF NoneForgotten
<1> QED BY <1>3, <1>4, <1>5, <1>6, <1>7 DEF IInv

------------------------------------------------------------------------------
(* The process. *)

\* With the process all it had is gone.
LEMMA VanishKeeps ==
    ASSUME IInv, Vanish, UNCHANGED api,
           main' \in {"run", "panicked", "shutdown", "exited"},
           stopCh' \in BOOLEAN, doneCh' \in BOOLEAN
    PROVE  IInv'
<1>a. TypeOK
  BY DEF IInv
<1>1. Started' = {} /\ Live' = {}
  BY DEF Vanish, Started, Live
<1>2. Held' = {}
  BY NoneAssumption DEF Vanish, Held
<1>3. /\ queue' \in Seq(EventRecord)
      /\ instances' \in [Namespace -> VanForm \cup {None}]
      /\ ns' \in [VanForm -> Namespace \cup {None}]
      /\ field' \in [VanForm -> BOOLEAN] /\ closed' \in [VanForm -> BOOLEAN]
      /\ loop' \in [VanForm -> {"none", "process", "select", "ended"}]
      /\ waits' \in [VanForm -> BOOLEAN] /\ stopping' = None
      /\ \A v \in VanForm : ns'[v] = None
  BY EmptySeq DEF Vanish
<1>4. TypeOK'
  BY <1>a, <1>1, <1>3 DEF TypeOK, EventRecord, api
<1>5. MapInv'
  BY DEF Vanish, MapInv
<1>6. StopInv' /\ StopOnce' /\ NoneForgotten'
  BY <1>1, <1>2, <1>3 DEF StopInv, StopOnce, NoneForgotten
<1> QED BY <1>4, <1>5, <1>6 DEF IInv

LEMMA RestartPreserves ==
    ASSUME IInv, NEW order \in Listings, Restart(order)
    PROVE  IInv'
<1>a. TypeOK /\ StopOnce /\ StopInv
  BY DEF IInv
<1>b. UNCHANGED <<cm, events, faults, instances, forms, loops, stopping, stopCh, doneCh>>
  BY DEF Restart
<1>c. main = "panicked" /\ main' = "run" /\ watched' = cm
      /\ queue' \in Seq(EventRecord)
  BY <1>a, ListingType DEF Restart
<1>1. Held' = Held /\ Started' = Started /\ Live' = Live
  BY <1>b DEF Held, Started, Live, loops
<1>2. stopping = None
  BY <1>a, <1>c DEF StopInv
<1>3. TypeOK'
  BY <1>a, <1>b, <1>c, <1>1 DEF TypeOK, EventRecord, forms, loops
<1>4. MapInv' /\ StopInv' /\ NoneForgotten'
  BY <1>b, <1>1, <1>2 DEF IInv, MapInv, StopInv, NoneForgotten, forms, loops
<1>5. StopOnce'
  BY <1>a, <1>b, <1>c, <1>1 DEF StopOnce, forms, loops
<1> QED BY <1>3, <1>4, <1>5 DEF IInv

------------------------------------------------------------------------------
(* The loop of a VanForm. *)

LEMMA LoopPreserves ==
    ASSUME IInv, NEW v \in VanForm, Loop(v) \/ LoopEnds(v)
    PROVE  IInv'
<1>a. TypeOK /\ MapInv /\ StopInv /\ StopOnce /\ NoneForgotten
  BY DEF IInv
<1>b. UNCHANGED <<api, queue, instances, forms, stopping, process>>
  BY DEF Loop, Process, Resync, LoopEnds
<1>c. /\ loop[v] \in {"process", "select"}
      /\ loop'[v] \in {"process", "select", "ended"}
      /\ \A w \in VanForm \ {v} : loop'[w] = loop[w]
      /\ loop' \in [VanForm -> {"none", "process", "select", "ended"}]
      /\ waits' \in [VanForm -> BOOLEAN]
  BY <1>a DEF Loop, Process, Resync, LoopEnds, TypeOK
<1>1. Started' = Started
  BY <1>c DEF Started
<1>2. Live' \subseteq Live
  BY <1>c DEF Live
<1>3. Held' = Held
  BY <1>b DEF Held
<1>4. TypeOK'
  BY <1>a, <1>b, <1>c, <1>1 DEF TypeOK, api, forms, process
<1>5. MapInv' /\ StopInv' /\ StopOnce'
  BY <1>a, <1>b, <1>1, <1>3 DEF MapInv, StopInv, StopOnce, forms, process
<1>6. NoneForgotten'
  BY <1>a, <1>b, <1>2, <1>3 DEF NoneForgotten, forms
<1> QED BY <1>4, <1>5, <1>6 DEF IInv

------------------------------------------------------------------------------
(* Shutdown. *)

\* The informer returns when no handler is at work, so no Stop is cut in two.
LEMMA InformerReturnsPreserves ==
    ASSUME IInv, InformerReturns
    PROVE  IInv'
<1>a. TypeOK /\ StopOnce
  BY DEF IInv
<1>b. /\ UNCHANGED <<api, instances, forms, loops, stopping, stopCh, doneCh>>
      /\ stopping = None /\ main' = "shutdown" /\ queue' \in Seq(EventRecord)
  BY EmptySeq DEF InformerReturns
<1>1. Held' = Held /\ Started' = Started /\ Live' = Live
  BY <1>b DEF Held, Started, Live, loops
<1>2. TypeOK'
  BY <1>a, <1>b, <1>1 DEF TypeOK, EventRecord, api, forms, loops
<1>3. MapInv' /\ StopInv' /\ NoneForgotten'
  BY <1>b, <1>1 DEF IInv, MapInv, StopInv, NoneForgotten, forms, loops
<1>4. StopOnce'
  BY <1>a, <1>b, <1>1 DEF StopOnce, forms, loops
<1> QED BY <1>2, <1>3, <1>4 DEF IInv

\* Shutdown stops what is in the map and was not told, and leaves it there.
LEMMA ShutdownStopsPreserves ==
    ASSUME IInv, ShutdownStops
    PROVE  IInv'
<1>a. TypeOK /\ MapInv /\ StopInv /\ StopOnce /\ NoneForgotten
  BY DEF IInv
<1>b. main = "shutdown" /\ UNCHANGED <<api, queue, instances, ns, loops, process>>
  BY DEF ShutdownStops
<1>1. ASSUME NEW v \in Held, stopping = None, StopClose(v), UNCHANGED field
      PROVE  IInv'
  <2>1. /\ MapInv' /\ StopInv' /\ StopOnce' /\ NoneForgotten'
        /\ closed' \in [VanForm -> BOOLEAN] /\ stopping' \in VanForm \cup {None}
        /\ Started' = Started
    BY <1>b, <1>1, StopCloseKeeps DEF process
  <2>2. TypeOK'
    BY <1>a, <1>b, <1>1, <2>1 DEF TypeOK, api, loops, process
  <2> QED BY <2>1, <2>2 DEF IInv
<1>2. ASSUME stopping # None, StopNil, UNCHANGED closed
      PROVE  IInv'
  <2>1. stopping \in Held /\ stopping \in VanForm /\ closed[stopping] /\ stopping' = None
    BY <1>a, <1>2 DEF StopInv, Held, StopNil
  <2>2. /\ field' \in [VanForm -> BOOLEAN] /\ ~field'[stopping]
        /\ \A w \in VanForm \ {stopping} : field'[w] = field[w]
    BY <1>a, <1>2, <2>1 DEF StopNil, TypeOK
  <2>3. Held' = Held /\ Started' = Started /\ Live' = Live /\ Held \subseteq VanForm
    BY <1>b DEF Held, Started, Live, loops
  <2>4. TypeOK'
    BY <1>a, <1>b, <1>2, <2>1, <2>2, <2>3 DEF TypeOK, api, loops, process
  <2>5. MapInv'
    BY <1>a, <1>b, <1>2, <2>2, <2>3 DEF MapInv
  <2>6. StopInv' /\ NoneForgotten'
    BY <1>a, <1>b, <1>2, <2>1, <2>3 DEF StopInv, NoneForgotten
  <2>7. StopOnce'
    BY <1>a, <1>b, <1>2, <2>1, <2>2, <2>3 DEF StopOnce, process
  <2> QED BY <2>4, <2>5, <2>6, <2>7 DEF IInv
<1> QED BY <1>1, <1>2 DEF ShutdownStops

\* A signal and the end of the wait close a channel, and touch nothing else.
LEMMA ChannelsPreserve ==
    ASSUME IInv, Signal \/ AllStopped
    PROVE  IInv'
<1>1. /\ UNCHANGED <<api, queue, instances, forms, loops, stopping, main>>
      /\ stopCh' \in BOOLEAN /\ doneCh' \in BOOLEAN
  BY DEF Signal, AllStopped, IInv, TypeOK
<1>2. TypeOK'
  BY <1>1 DEF IInv, TypeOK, api, forms, loops, Started
<1> QED BY <1>1, <1>2, Aside DEF IInv

------------------------------------------------------------------------------
(* The theorems. *)

LEMMA InitIInv == Init => IInv
<1> SUFFICES ASSUME Init PROVE IInv
  OBVIOUS
<1>1. Started = {} /\ Live = {}
  BY DEF Init, Started, Live
<1>2. Held = {}
  BY NoneAssumption DEF Init, Held
<1>3. TypeOK
  <2>1. queue \in Seq(EventRecord) /\ 0 \in 0..MaxEvents /\ 0 \in 0..MaxFaults
    BY BoundAssumption, EmptySeq DEF Init
  <2>2. \A v \in VanForm : ns[v] # None <=> v \in Started
    BY <1>1 DEF Init
  <2> QED BY <2>1, <2>2 DEF Init, TypeOK, EventRecord
<1>4. MapInv /\ StopInv /\ StopOnce /\ NoneForgotten
  BY <1>1, <1>2 DEF Init, MapInv, StopInv, StopOnce, NoneForgotten
<1> QED BY <1>3, <1>4 DEF IInv

LEMMA NextIInv == IInv /\ [Next]_vars => IInv'
<1> SUFFICES ASSUME IInv, [Next]_vars PROVE IInv'
  OBVIOUS
<1>1. CASE Api
  BY <1>1, ApiPreserves
<1>2. CASE ConfigmapAdded
  BY <1>2, AddedPreserves
<1>3. CASE ConfigmapUpdated
  BY <1>3, UpdatedPreserves
<1>4. CASE ConfigmapDeleted
  BY <1>4, DeletedPreserves
<1>5. CASE ConfigmapForgotten
  BY <1>5, ForgottenPreserves
<1>6. CASE TombstonePanics
  BY <1>6, VanishKeeps DEF TombstonePanics, IInv, TypeOK
<1>7. CASE \E order \in Listings : Restart(order)
  BY <1>7, RestartPreserves
<1>8. CASE InformerReturns
  BY <1>8, InformerReturnsPreserves
<1>9. CASE ShutdownStops
  BY <1>9, ShutdownStopsPreserves
<1>10. CASE AllStopped \/ Signal
  BY <1>10, ChannelsPreserve
<1>11. CASE Exit
  BY <1>11, VanishKeeps DEF Exit, IInv, TypeOK
<1>12. CASE \E v \in VanForm : Loop(v) \/ LoopEnds(v)
  BY <1>12, LoopPreserves
<1>13. CASE UNCHANGED vars
  <2>1. UNCHANGED <<api, queue, instances, forms, loops, stopping, process>>
    BY <1>13 DEF vars
  <2>2. TypeOK'
    BY <2>1 DEF IInv, TypeOK, api, forms, loops, process, Started
  <2> QED BY <2>1, <2>2, Aside DEF IInv, process
<1> QED
  BY <1>1, <1>2, <1>3, <1>4, <1>5, <1>6, <1>7, <1>8, <1>9, <1>10, <1>11, <1>12, <1>13
     DEF Next, Controller, Handlers

LEMMA Invariant == Spec => []IInv
BY InitIInv, NextIInv, PTL DEF Spec

\* The variables have their types, and just the VanForm objects that were started
\* have a namespace.
THEOREM TypeCorrect == Spec => []TypeOK
<1>1. IInv => TypeOK
  BY DEF IInv
<1> QED BY <1>1, Invariant, PTL

\* Stop is never called twice for a VanForm, by the handlers or by shutdown
\* (controller.go:88-99, 148-154): it would close a nil channel.
THEOREM EveryStopIsFirst == Spec => []StopOnce
<1>1. IInv => StopOnce
  BY DEF IInv
<1> QED BY <1>1, Invariant, PTL

\* A VanForm whose loop lives can be stopped or has been, and a namespace has at
\* most one that was not told (controller.go:122-134), whatever the order of
\* events, listings after a crash, and shutdown.
THEOREM EveryLoopIsKnown == Spec => []NoneForgotten
<1>1. IInv => NoneForgotten
  BY DEF IInv
<1> QED BY <1>1, Invariant, PTL

=============================================================================

-------------------------- MODULE FileWatcherProofs --------------------------
(***************************************************************************)
(* Proofs about the file watcher, for any handlers and files: the types,   *)
(* with the places where the goroutines hold the lock; that an idle        *)
(* watcher has announced what is there, and withdrawn what is not.         *)
(***************************************************************************)
EXTENDS FileWatcher, CommonLemmas, SequenceTheorems, TLAPS

------------------------------------------------------------------------------
(* The types, by component. *)

FSEvents == [op : EventOps, name : File \cup {Dir}]

\* The triggers there are for a file are for a handler that accepts it.
Triggers ==
    {t \in [op : TriggerOps, handler : Handler, name : File \cup {Dir}] :
        t.op # "base" => t.name \in Accepts[t.handler]}

DirEvent == Event("remove", Dir)

FileTypes ==
    /\ dir \in BOOLEAN /\ files \subseteq File /\ (files # {} => dir)
    /\ unsure \subseteq File /\ gone \in BOOLEAN
    /\ changes \in 0..MaxChanges

\* That the directory has gone is the last the kernel reports of it, and only
\* when that is read is there another watch.
WatchTypes ==
    /\ watched \in BOOLEAN /\ attached \in BOOLEAN
    /\ attached => dir /\ watched
    /\ inotify \in Seq(FSEvents) /\ unread \in FSEvents \cup {None}
    /\ \A i \in DOMAIN inotify :
           inotify[i] = DirEvent => i = Len(inotify) /\ watched /\ ~attached
    /\ monitor = "add" => ~watched

MapTypes ==
    /\ handlers \subseteq Handler /\ started \in BOOLEAN /\ stopCh \in BOOLEAN
    /\ adding \in Handler \cup {None} /\ writer \in {"none", "waiting", "held"}
    /\ adding # None <=> writer # "none"

Readers ==
    /\ readers \in [{"monitor", "events"} -> Nat]
    /\ readers["monitor"] \in
           CASE monitor \in {"none", "start"} \cup Where -> {0}
             [] monitor = "manage" -> {0, 1}
             [] OTHER -> {1, 2}
    /\ readers["events"] = IF events = "refresh" THEN 1 ELSE 0

PlaceTypes ==
    /\ monitor \in {"none", "start", "manage", "add", "read", "send", "unlock"} \cup Where
    /\ events \in {"none", "filter", "send", "refresh"} \cup Where
    /\ dispatcher \in {"none", "wait"} \cup Where
    /\ monitor = "none" => events = "none" /\ dispatcher = "none"
    /\ Readers

PipeTypes ==
    /\ scan \subseteq Triggers /\ found \subseteq Triggers
    /\ event \in FSEvents \cup {None} /\ (event # None <=> events \in {"filter", "send"})
    /\ job \in Triggers \cup {None} /\ (job # None <=> dispatcher = "wait")
    /\ \A l \in late : l.trigger \in Triggers
    /\ slow \in 0..MaxSlow
    /\ known \in [Handler -> SUBSET File] /\ \A h \in Handler : known[h] \subseteq Accepts[h]

Types == FileTypes /\ WatchTypes /\ MapTypes /\ PlaceTypes /\ PipeTypes

LEMMA TypesSuffice == Types => TypeOK
BY DEF Types, FileTypes, WatchTypes, MapTypes, PlaceTypes, PipeTypes, Readers, TypeOK

LEMMA InitTypes == Init => Types
<1> SUFFICES ASSUME Init PROVE Types
  OBVIOUS
<1>1. FileTypes /\ MapTypes
  <2>1. 0 \in 0..MaxChanges
    BY BoundAssumption
  <2> QED BY <2>1 DEF Init, FileTypes, MapTypes
<1>2. WatchTypes
  <2>1. inotify = << >> /\ DOMAIN inotify = {}
    BY DEF Init
  <2>2. inotify \in Seq(FSEvents)
    BY <2>1, EmptySeq
  <2> QED BY <2>1, <2>2 DEF Init, WatchTypes
<1>3. PlaceTypes
  BY DEF Init, PlaceTypes, Readers, Where
<1>4. PipeTypes
  BY BoundAssumption DEF Init, PipeTypes
<1> QED BY <1>1, <1>2, <1>3, <1>4 DEF Types

------------------------------------------------------------------------------
(* The steps of each goroutine, and what they leave alone. *)

MonitorStep == Monitor \/ MonitorEnds
EventStep == Events \/ Refresh \/ EventsEnd
DispatchStep == Dispatcher \/ CallbackTimesOut \/ LateCallbackDone

LEMMA Steps ==
    ASSUME [Next]_vars
    PROVE  FileSystem \/ ReadInotify \/ Caller \/ Stop \/ MonitorStep \/ EventStep
               \/ DispatchStep \/ UNCHANGED vars
BY DEF Next, MonitorStep, EventStep, DispatchStep

LEMMA FileSystemLeaves ==
    ASSUME FileSystem
    PROVE  /\ UNCHANGED <<watched, unread, handlers, started, adding, readers, writer, monitor,
                          scan, events, event, found, stopCh>>
           /\ UNCHANGED <<dispatcher, job, late, slow, known>>
BY DEF FileSystem, MakeDir, RemoveDir, CreateFile, WriteFile, RemoveFile, MoveFile, Elsewhere,
       fsnotify, map, lock, monitoring, processing, dispatching

LEMMA ReadInotifyLeaves ==
    ASSUME ReadInotify
    PROVE  /\ UNCHANGED <<dir, files, changes, gone, unsure, attached>>
           /\ UNCHANGED <<handlers, started, adding, readers, writer, monitor, scan, events,
                          event, found, stopCh, dispatcher, job, late, slow, known>>
BY DEF ReadInotify, Elsewhere, fileSystem, history, map, lock, monitoring, processing, dispatching

LEMMA CallerLeaves ==
    ASSUME Caller
    PROVE  /\ UNCHANGED <<dir, files, changes, gone, unsure, watched, attached, inotify, unread>>
           /\ UNCHANGED <<readers, scan, event, found, stopCh, job, late, slow, known>>
BY DEF Caller, AddCall, AddLocks, AddUnlocks, Start, fileSystem, history, fsnotify, lock,
       monitoring, processing, dispatching

LEMMA StopLeaves ==
    ASSUME Stop
    PROVE  /\ UNCHANGED <<dir, files, changes, gone, unsure, watched, attached, inotify, unread>>
           /\ UNCHANGED <<handlers, started, adding, readers, writer, monitor, scan, events,
                          event, found, dispatcher, job, late, slow, known>>
           /\ stopCh' = TRUE /\ monitor # "none"
BY DEF Stop, fileSystem, history, fsnotify, map, lock, monitoring, processing, dispatching

LEMMA MonitorLeaves ==
    ASSUME MonitorStep
    PROVE  /\ UNCHANGED <<dir, files, changes, gone, unread, handlers, started, adding, stopCh>>
           /\ UNCHANGED <<writer, events, event, found, late, slow, known>>
BY DEF MonitorStep, Monitor, MonitorStarts, Tick, ManageWatchers, AddWatch, ReadDir,
       SendAnnouncement, ManageDone, MonitorEnds, Outside, RLock, Send, fileSystem, fsnotify,
       map, lock, processing, dispatching

LEMMA EventsLeave ==
    ASSUME EventStep
    PROVE  /\ UNCHANGED <<dir, files, changes, gone, unsure, handlers, adding, stopCh>>
           /\ UNCHANGED <<writer, scan, late, slow, known>>
BY DEF EventStep, Events, Receive, FilterHandlers, SendTrigger, TriggersSent, Refresh, EventsEnd,
       Besides, RLock, Send, fileSystem, history, lock, monitoring, dispatching

LEMMA DispatcherLeaves ==
    ASSUME DispatchStep
    PROVE  /\ UNCHANGED <<dir, files, changes, gone, unsure, watched, attached, inotify, unread>>
           /\ UNCHANGED <<handlers, started, adding, readers, writer, monitor, scan, events,
                          event, found, stopCh>>
BY DEF DispatchStep, Dispatcher, CallbackDone, DispatcherEnds, CallbackTimesOut, LateCallbackDone,
       Alone, fileSystem, history, fsnotify, map, lock, monitoring, processing

LEMMA NothingChanges ==
    ASSUME UNCHANGED vars
    PROVE  /\ UNCHANGED <<dir, files, changes, gone, unsure, watched, attached, inotify, unread>>
           /\ UNCHANGED <<handlers, started, adding, readers, writer, monitor, scan, events,
                          event, found, dispatcher, job, late, slow, known, stopCh>>
BY DEF vars, fileSystem, history, fsnotify, map, lock, monitoring, processing, dispatching

LEMMA EventTypes ==
    /\ \A op \in EventOps, n \in File \cup {Dir} : Event(op, n) \in FSEvents
    /\ \A e \in FSEvents : e.op \in EventOps /\ e.name \in File \cup {Dir} /\ e = Event(e.op, e.name)
    /\ \A f : f \in File => Event("create", f) \in FSEvents /\ Event("write", f) \in FSEvents
                             /\ Event("remove", f) \in FSEvents /\ Event("rename", f) \in FSEvents
    /\ DirEvent \in FSEvents
    /\ \A op, f : f \in File => Event(op, f) # DirEvent
    /\ \A op, p, f, g : Event(op, f) = Event(p, g) <=> op = p /\ f = g
    /\ None \notin FSEvents
BY NameAssumption DEF Event, FSEvents, EventOps, DirEvent

LEMMA TriggerTypes ==
    /\ \A h \in Handler : Trigger("base", h, Dir) \in Triggers
    /\ \A op \in TriggerOps, h \in Handler : \A f \in Accepts[h] : Trigger(op, h, f) \in Triggers
    /\ \A t \in Triggers : /\ t.op \in TriggerOps /\ t.handler \in Handler
                           /\ t.op # "base" => t.name \in Accepts[t.handler] /\ t.name \in File
                           /\ t = Trigger(t.op, t.handler, t.name)
    /\ \A op, p, h, g, n, m : Trigger(op, h, n) = Trigger(p, g, m) <=> op = p /\ h = g /\ n = m
    /\ None \notin Triggers
BY NameAssumption, HandlerAssumption DEF Trigger, Triggers, TriggerOps

LEMMA FileStep ==
    ASSUME Types, [Next]_vars
    PROVE  FileTypes'
<1>a. FileTypes
  BY DEF Types
<1>1. CASE MakeDir \/ RemoveDir
  <2>1. changes' \in 0..MaxChanges
    BY <1>a, <1>1, BoundAssumption DEF MakeDir, RemoveDir, Change, FileTypes
  <2> QED BY <1>a, <1>1, <2>1 DEF MakeDir, RemoveDir, FileTypes, history
<1>2. ASSUME NEW f \in File, CreateFile(f) \/ WriteFile(f) \/ RemoveFile(f) \/ MoveFile(f)
      PROVE  FileTypes'
  <2>1. changes' \in 0..MaxChanges
    BY <1>a, <1>2, BoundAssumption
    DEF CreateFile, WriteFile, RemoveFile, MoveFile, Change, FileTypes
  <2> QED BY <1>a, <1>2, <2>1
    DEF CreateFile, WriteFile, RemoveFile, MoveFile, FileTypes, history
<1>3. CASE MonitorStep
  <2>1. unsure' = unsure \/ unsure' = unsure \cup files
    BY <1>3 DEF MonitorStep, Monitor, MonitorStarts, Tick, ManageWatchers, AddWatch, ReadDir,
                SendAnnouncement, ManageDone, MonitorEnds
  <2> QED BY <1>a, <1>3, <2>1, MonitorLeaves DEF FileTypes
<1>4. CASE ReadInotify \/ Caller \/ Stop \/ EventStep \/ DispatchStep \/ UNCHANGED vars
  BY <1>a, <1>4, ReadInotifyLeaves, CallerLeaves, StopLeaves, EventsLeave, DispatcherLeaves,
     NothingChanges DEF FileTypes
<1> QED BY <1>1, <1>2, <1>3, <1>4, Steps DEF FileSystem

LEMMA MapStep ==
    ASSUME Types, [Next]_vars
    PROVE  MapTypes'
<1>a. MapTypes
  BY DEF Types
<1>1. CASE Caller
  BY <1>a, <1>1, CallerLeaves, NameAssumption
  DEF Caller, AddCall, AddLocks, AddUnlocks, Start, MapTypes, lock
<1>2. CASE EventStep
  <2>1. started' \in BOOLEAN
    BY <1>a, <1>2 DEF EventStep, Events, Receive, FilterHandlers, SendTrigger, TriggersSent,
                      Refresh, EventsEnd, MapTypes
  <2> QED BY <1>a, <1>2, <2>1, EventsLeave DEF MapTypes
<1>3. CASE Stop
  BY <1>a, <1>3, StopLeaves DEF MapTypes
<1>4. CASE FileSystem \/ ReadInotify \/ MonitorStep \/ DispatchStep \/ UNCHANGED vars
  BY <1>a, <1>4, FileSystemLeaves, ReadInotifyLeaves, MonitorLeaves, DispatcherLeaves,
     NothingChanges DEF MapTypes
<1> QED BY <1>1, <1>2, <1>3, <1>4, Steps

LEMMA ReportTypes ==
    ASSUME WatchTypes, NEW f \in File, NEW op \in EventOps, Report(op, f), UNCHANGED <<watched, attached>>
    PROVE  /\ inotify' \in Seq(FSEvents)
           /\ \A i \in DOMAIN inotify' :
                  inotify'[i] = DirEvent => i = Len(inotify') /\ watched /\ ~attached
<1>1. Event(op, f) \in FSEvents /\ Event(op, f) # DirEvent
  BY EventTypes
<1>2. CASE ~attached
  BY <1>2 DEF Report, WatchTypes
<1>3. CASE attached
  <2>1. inotify' = Append(inotify, Event(op, f))
    BY <1>3 DEF Report
  <2>2. /\ inotify' \in Seq(FSEvents) /\ DOMAIN inotify = 1..Len(inotify)
        /\ DOMAIN inotify' = 1..(Len(inotify) + 1) /\ Len(inotify) \in Nat
        /\ inotify'[Len(inotify) + 1] = Event(op, f)
        /\ \A i \in 1..Len(inotify) : inotify'[i] = inotify[i]
    BY <1>1, <2>1, AppendProperties DEF WatchTypes
  <2>3. \A i \in DOMAIN inotify' : inotify'[i] # DirEvent
    BY <1>1, <1>3, <2>2 DEF WatchTypes
  <2> QED BY <2>2, <2>3
<1> QED BY <1>2, <1>3 DEF WatchTypes

LEMMA WatchStep ==
    ASSUME Types, [Next]_vars
    PROVE  WatchTypes'
<1>a. WatchTypes /\ FileTypes
  BY DEF Types
<1>1. CASE MakeDir
  BY <1>a, <1>1 DEF MakeDir, WatchTypes, Elsewhere, fsnotify, monitoring
<1>2. CASE RemoveDir
  <2>1. UNCHANGED <<watched, unread, monitor>> /\ attached' = FALSE
    BY <1>2 DEF RemoveDir, Elsewhere, monitoring
  <2>2. CASE ~attached
    <3>1. inotify' = inotify
      BY <1>2, <2>2 DEF RemoveDir, Report
    <3> QED BY <1>a, <2>1, <2>2, <3>1 DEF WatchTypes
  <2>3. CASE attached
    <3>1. inotify' = Append(inotify, DirEvent)
      BY <1>2, <2>3 DEF RemoveDir, Report, DirEvent
    <3>2. /\ inotify' \in Seq(FSEvents) /\ DOMAIN inotify = 1..Len(inotify)
          /\ DOMAIN inotify' = 1..(Len(inotify) + 1) /\ Len(inotify) \in Nat
          /\ Len(inotify') = Len(inotify) + 1
          /\ \A i \in 1..Len(inotify) : inotify'[i] = inotify[i]
      BY <1>a, <3>1, AppendProperties, EventTypes DEF WatchTypes
    <3>3. \A i \in DOMAIN inotify' : inotify'[i] = DirEvent => i = Len(inotify')
      BY <1>a, <2>3, <3>2 DEF WatchTypes
    <3> QED BY <1>a, <2>1, <2>3, <3>2, <3>3 DEF WatchTypes
  <2> QED BY <2>2, <2>3
<1>3. ASSUME NEW f \in File, CreateFile(f) \/ WriteFile(f) \/ RemoveFile(f) \/ MoveFile(f)
      PROVE  WatchTypes'
  <2>1. \E op \in EventOps : Report(op, f)
    BY <1>3 DEF CreateFile, WriteFile, RemoveFile, MoveFile, EventOps
  <2>2. UNCHANGED <<dir, watched, attached, unread, monitor>>
    BY <1>3 DEF CreateFile, WriteFile, RemoveFile, MoveFile, Elsewhere, monitoring
  <2> QED BY <1>a, <2>1, <2>2, ReportTypes DEF WatchTypes
<1>4. CASE ReadInotify
  <2>1. inotify \in Seq(FSEvents) /\ inotify # << >>
    BY <1>a, <1>4 DEF WatchTypes, ReadInotify
  <2>2. /\ DOMAIN inotify = 1..Len(inotify) /\ Len(inotify) \in Nat /\ Len(inotify) >= 1
        /\ Head(inotify) = inotify[1] /\ Head(inotify) \in FSEvents
        /\ inotify' \in Seq(FSEvents) /\ DOMAIN inotify' = 1..(Len(inotify) - 1)
        /\ Len(inotify') = Len(inotify) - 1
        /\ \A i \in 1..(Len(inotify) - 1) : inotify'[i] = inotify[i + 1]
    BY <1>4, <2>1, HeadTailProperties, EmptySeq DEF ReadInotify
  <2>3. CASE Head(inotify) = DirEvent
    <3>1. Len(inotify) = 1 /\ ~attached
      BY <1>a, <2>2, <2>3 DEF WatchTypes
    <3>2. DOMAIN inotify' = {}
      BY <2>2, <3>1
    <3> QED BY <1>a, <1>4, <2>2, <2>3, <3>1, <3>2, ReadInotifyLeaves DEF WatchTypes, ReadInotify
  <2>4. CASE Head(inotify) # DirEvent
    <3>1. watched' = watched /\ unread' \in FSEvents
      <4>1. watched' = (watched /\ Head(inotify) # DirEvent) /\ unread' = Head(inotify)
        BY <1>4 DEF ReadInotify, DirEvent
      <4>2. watched \in BOOLEAN
        BY <1>a DEF WatchTypes
      <4> QED BY <2>2, <2>4, <4>1, <4>2
    <3>2. \A i \in DOMAIN inotify' : /\ i + 1 \in DOMAIN inotify /\ inotify'[i] = inotify[i + 1]
                                     /\ i + 1 = Len(inotify) => i = Len(inotify')
      BY <2>2
    <3>3. \A i \in DOMAIN inotify' :
              inotify'[i] = DirEvent => i = Len(inotify') /\ watched /\ ~attached
      BY <1>a, <3>2 DEF WatchTypes
    <3> QED BY <1>a, <1>4, <2>2, <3>1, <3>3, ReadInotifyLeaves DEF WatchTypes
  <2> QED BY <2>3, <2>4
<1>5. CASE ManageWatchers
  <2>1. CASE inotify' = << >> /\ watched' = FALSE /\ ~dir /\ monitor' = "unlock"
    <3>1. DOMAIN inotify' = {} /\ inotify' \in Seq(FSEvents)
      BY <2>1, EmptySeq
    <3> QED BY <1>a, <1>5, <2>1, <3>1, MonitorLeaves DEF WatchTypes, MonitorStep, Monitor,
              ManageWatchers
  <2>2. CASE UNCHANGED <<inotify, watched>> /\ (monitor' = "add" => ~watched)
    BY <1>a, <1>5, <2>2, MonitorLeaves DEF WatchTypes, MonitorStep, Monitor, ManageWatchers
  <2> QED BY <1>5, <2>1, <2>2 DEF ManageWatchers
<1>6. CASE AddWatch
  <2>1. \A i \in DOMAIN inotify : inotify[i] # DirEvent
    BY <1>a, <1>6 DEF WatchTypes, AddWatch
  <2>2. inotify' = inotify /\ unread' = unread /\ dir' = dir /\ monitor' # "add"
    BY <1>6, MonitorLeaves DEF AddWatch, MonitorStep, Monitor
  <2> QED BY <1>a, <1>6, <2>1, <2>2 DEF WatchTypes, AddWatch
<1>7. CASE MonitorStarts \/ Tick \/ ReadDir \/ SendAnnouncement \/ ManageDone \/ MonitorEnds
  <2>1. UNCHANGED <<watched, attached, inotify>> /\ monitor' # "add"
    BY <1>7 DEF MonitorStarts, Tick, ReadDir, SendAnnouncement, ManageDone, MonitorEnds, fsnotify
  <2> QED BY <1>a, <1>7, <2>1, MonitorLeaves DEF WatchTypes, MonitorStep, Monitor
<1>8. CASE EventStep
  <2>1. \/ UNCHANGED <<watched, attached, inotify>> /\ unread' \in {unread, None}
        \/ watched' = FALSE /\ attached' = FALSE /\ inotify' = << >> /\ unread' = None
    BY <1>8 DEF EventStep, Events, Receive, FilterHandlers, SendTrigger, TriggersSent, Refresh,
                EventsEnd, fsnotify
  <2>2. monitor' # "add" \/ monitor' = monitor
    BY <1>8 DEF EventStep, Events, Receive, FilterHandlers, SendTrigger, TriggersSent, Refresh,
                EventsEnd, monitoring
  <2>3. << >> \in Seq(FSEvents) /\ DOMAIN << >> = {}
    BY EmptySeq
  <2>4. CASE UNCHANGED <<watched, attached, inotify>> /\ unread' \in {unread, None}
    BY <1>a, <1>8, <2>2, <2>4, EventsLeave DEF WatchTypes
  <2>5. CASE watched' = FALSE /\ attached' = FALSE /\ inotify' = << >> /\ unread' = None
    BY <2>3, <2>5 DEF WatchTypes
  <2> QED BY <2>1, <2>4, <2>5
<1>9. CASE Caller
  <2>1. monitor' # "add" \/ monitor' = monitor
    BY <1>9 DEF Caller, AddCall, AddLocks, AddUnlocks, Start, monitoring
  <2>2. UNCHANGED <<dir, watched, attached, inotify, unread>>
    BY <1>9, CallerLeaves
  <2>3. monitor' = "add" => ~watched'
    BY <1>a, <2>1, <2>2 DEF WatchTypes
  <2> QED BY <1>a, <2>2, <2>3 DEF WatchTypes
<1>10. CASE Stop \/ DispatchStep \/ UNCHANGED vars
  <2>1. UNCHANGED <<dir, watched, attached, inotify, unread, monitor>>
    BY <1>10, StopLeaves, DispatcherLeaves, NothingChanges
  <2> QED BY <1>a, <2>1 DEF WatchTypes
<1> QED BY <1>1, <1>2, <1>3, <1>4, <1>5, <1>6, <1>7, <1>8, <1>9, <1>10, Steps
  DEF FileSystem, MonitorStep, Monitor

LEMMA PlaceStep ==
    ASSUME Types, [Next]_vars
    PROVE  PlaceTypes'
<1>a. PlaceTypes
  BY DEF Types
<1>b. DOMAIN readers = {"monitor", "events"}
  BY <1>a DEF PlaceTypes, Readers
<1>1. CASE FileSystem \/ ReadInotify \/ Stop \/ UNCHANGED vars
  <2>1. UNCHANGED <<monitor, events, dispatcher, readers>>
    BY <1>1, FileSystemLeaves, ReadInotifyLeaves, StopLeaves, NothingChanges
  <2> QED BY <1>a, <2>1 DEF PlaceTypes, Readers
<1>2. CASE Caller
  <2>1. readers' = readers
    BY <1>2, CallerLeaves
  <2>2. CASE UNCHANGED <<monitor, events, dispatcher>>
    BY <1>a, <2>1, <2>2 DEF PlaceTypes, Readers
  <2>3. CASE monitor = "select" /\ monitor' = "manage" /\ UNCHANGED <<events, dispatcher>>
    BY <1>a, <2>1, <2>3 DEF PlaceTypes, Readers, Where
  <2>4. CASE monitor = "none" /\ monitor' = "start" /\ events' = "select" /\ dispatcher' = "select"
    BY <1>a, <2>1, <2>4 DEF PlaceTypes, Readers, Where
  <2> QED BY <1>2, <2>2, <2>3, <2>4 DEF Caller, AddCall, AddLocks, AddUnlocks, Start, monitoring,
       processing, dispatching
<1>3. CASE MonitorStep
  <2>1. events' = events /\ monitor # "none"
    BY <1>3, MonitorLeaves DEF MonitorStep, Monitor, MonitorStarts, Tick, ManageWatchers, AddWatch,
       ReadDir, SendAnnouncement, ManageDone, MonitorEnds
  <2>2. dispatcher' \in {dispatcher, "wait"} /\ monitor' # "none"
    BY <1>3, <2>1 DEF MonitorStep, Monitor, MonitorStarts, Tick, ManageWatchers, AddWatch,
       ReadDir, SendAnnouncement, ManageDone, MonitorEnds, Send, dispatching
  <2>3. CASE MonitorStarts
    <3>1. \/ readers' = [readers EXCEPT !["monitor"] = @ + 1] /\ monitor' = "manage"
          \/ readers' = readers /\ monitor' = "select"
      BY <2>3 DEF MonitorStarts, RLock
    <3>2. readers["monitor"] = 0
      BY <1>a, <2>3 DEF MonitorStarts, PlaceTypes, Readers
    <3> QED BY <1>a, <2>1, <2>2, <3>1, <3>2 DEF PlaceTypes, Readers, Where
  <2>4. CASE ManageWatchers
    <3>1. readers' = [readers EXCEPT !["monitor"] = @ + 1] /\ monitor' \in {"add", "unlock"}
      BY <2>4 DEF ManageWatchers, RLock
    <3>2. readers["monitor"] \in {0, 1}
      BY <1>a, <2>4 DEF ManageWatchers, PlaceTypes, Readers, Where
    <3> QED BY <1>a, <2>1, <2>2, <3>1, <3>2 DEF PlaceTypes, Readers, Where
  <2>5. CASE Tick \/ MonitorEnds \/ AddWatch \/ ReadDir \/ SendAnnouncement
    <3>1. readers' = readers
      BY <2>5 DEF Tick, MonitorEnds, AddWatch, ReadDir, SendAnnouncement, lock
    <3>2. \/ monitor = "select" /\ monitor' \in {"manage", "ended"}
          \/ monitor \in {"add", "read", "send"} /\ monitor' \in {"read", "send", "unlock"}
      BY <2>5 DEF Tick, MonitorEnds, AddWatch, ReadDir, SendAnnouncement
    <3>3. CASE monitor = "select" /\ monitor' \in {"manage", "ended"}
      BY <1>a, <2>1, <2>2, <3>1, <3>3 DEF PlaceTypes, Readers, Where
    <3>4. CASE monitor \in {"add", "read", "send"} /\ monitor' \in {"read", "send", "unlock"}
      BY <1>a, <2>1, <2>2, <3>1, <3>4 DEF PlaceTypes, Readers, Where
    <3> QED BY <3>2, <3>3, <3>4
  <2>6. CASE ManageDone
    BY <1>a, <2>1, <2>2, <2>6 DEF ManageDone, PlaceTypes, Readers, Where
  <2> QED BY <1>3, <2>3, <2>4, <2>5, <2>6 DEF MonitorStep, Monitor
<1>4. CASE EventStep
  <2>1. events # "none" /\ monitor # "none"
    BY <1>a, <1>4 DEF EventStep, Events, Receive, FilterHandlers, SendTrigger, TriggersSent, Refresh,
                EventsEnd, PlaceTypes
  <2>2. dispatcher' \in {dispatcher, "wait"} /\ monitor' # "none"
    BY <1>4, <2>1 DEF EventStep, Events, Receive, FilterHandlers, SendTrigger, TriggersSent, Refresh,
                EventsEnd, Send, dispatching, monitoring
  <2>3. CASE Refresh
    BY <1>a, <2>1, <2>2, <2>3 DEF Refresh, PlaceTypes, Readers, Where
  <2>4. CASE events = "send" /\ events' = "refresh" /\ RLock("events") /\ monitor' = monitor
    <3>1. readers["events"] = 0
      BY <1>a, <2>4 DEF PlaceTypes, Readers
    <3>2. readers' = [readers EXCEPT !["events"] = 1]
      BY <1>b, <2>4, <3>1 DEF RLock
    <3> QED BY <1>a, <2>2, <2>4, <3>2 DEF PlaceTypes, Readers, Where
  <2>5. CASE /\ events \notin {"refresh", "none"} /\ events' \in {"select", "filter", "send", "ended"}
             /\ readers' = readers /\ monitor' = monitor
    BY <1>a, <2>1, <2>2, <2>5 DEF PlaceTypes, Readers, Where
  <2> QED BY <1>4, <2>3, <2>4, <2>5 DEF EventStep, Events, Receive, FilterHandlers, SendTrigger,
               TriggersSent, EventsEnd, lock, monitoring
<1>5. CASE DispatchStep
  <2>1. UNCHANGED <<monitor, events, readers>>
    BY <1>5, DispatcherLeaves
  <2>2. \/ dispatcher' = dispatcher
        \/ dispatcher \in {"wait", "select"} /\ dispatcher' \in {"select", "ended"}
    BY <1>5 DEF DispatchStep, Dispatcher, CallbackDone, DispatcherEnds, CallbackTimesOut,
                LateCallbackDone
  <2> QED BY <1>a, <2>1, <2>2 DEF PlaceTypes, Readers, Where
<1> QED BY <1>1, <1>2, <1>3, <1>4, <1>5, Steps

\* What a callback changes.
LEMMA CalledEffect ==
    ASSUME known \in [Handler -> SUBSET File], NEW t \in Triggers
    PROVE  /\ Called(t) \in [Handler -> SUBSET File]
           /\ \A h \in Handler, f \in File :
                f \in Called(t)[h] <=>
                    t = Trigger("create", h, f) \/ (f \in known[h] /\ t # Trigger("remove", h, f))
<1>1. /\ t.handler \in Handler /\ t = Trigger(t.op, t.handler, t.name)
      /\ t.op # "base" => t.name \in File
  BY TriggerTypes
<1>2. \A op, h, f : t = Trigger(op, h, f) <=> t.op = op /\ t.handler = h /\ t.name = f
  BY <1>1, TriggerTypes
<1>3. CASE t.op = "create"
  <2>1. Called(t) = [known EXCEPT ![t.handler] = @ \cup {t.name}]
    BY <1>3 DEF Called
  <2> QED BY <1>1, <1>2, <1>3, <2>1
<1>4. CASE t.op = "remove"
  <2>1. Called(t) = [known EXCEPT ![t.handler] = @ \ {t.name}]
    BY <1>4 DEF Called
  <2> QED BY <1>1, <1>2, <1>4, <2>1
<1>5. CASE t.op \notin {"create", "remove"}
  <2>1. Called(t) = known
    BY <1>5 DEF Called
  <2> QED BY <1>2, <1>5, <2>1
<1> QED BY <1>3, <1>4, <1>5

\* The triggers of an event are for the handlers that want it.
Interested(e) ==
    IF e.op = "rename" THEN {}
    ELSE {Trigger(e.op, h, e.name) : h \in {g \in handlers : e.name \in Accepts[g]}}

LEMMA InterestedTypes ==
    ASSUME MapTypes, NEW e \in FSEvents
    PROVE  /\ Interested(e) \subseteq Triggers
           /\ \A op \in {"create", "remove"} : \A h, f :
                Trigger(op, h, f) \in Interested(e) <=>
                    e = Event(op, f) /\ h \in handlers /\ f \in Accepts[h]
<1>1. e.op \in EventOps /\ \A op, f : e = Event(op, f) <=> e.op = op /\ e.name = f
  BY EventTypes
<1>2. CASE e.op = "rename"
  BY <1>1, <1>2 DEF Interested
<1>3. CASE e.op # "rename"
  <2>1. \A t : t \in Interested(e) <=>
            \E h \in handlers : e.name \in Accepts[h] /\ t = Trigger(e.op, h, e.name)
    BY <1>3 DEF Interested
  <2>2. e.op \in TriggerOps
    BY <1>1, <1>3 DEF EventOps, TriggerOps
  <2>3. Interested(e) \subseteq Triggers
    BY <2>1, <2>2, TriggerTypes DEF MapTypes
  <2>4. ASSUME NEW op \in {"create", "remove"}, NEW h, NEW f
        PROVE  Trigger(op, h, f) \in Interested(e) <=>
                   e = Event(op, f) /\ h \in handlers /\ f \in Accepts[h]
    BY <1>1, <2>1, TriggerTypes
  <2> QED BY <2>3, <2>4
<1> QED BY <1>2, <1>3

LEMMA AnnouncementTypes ==
    ASSUME MapTypes, FileTypes, ReadDir
    PROVE  /\ scan' \subseteq Triggers
           /\ \A h, f : Trigger("create", h, f) \in scan' <=>
                  h \in handlers /\ f \in files \cap Accepts[h]
           /\ \A t \in scan' : t.op = "create" => t.name \in files
<1>1. \A t : t \in scan' <=>
          \E h \in handlers : \/ t = Trigger("base", h, Dir)
                              \/ \E f \in files \cap Accepts[h] : t = Trigger("create", h, f)
  BY DEF ReadDir, Announcements
<1>2. \A h \in handlers : h \in Handler
  BY DEF MapTypes
<1>3. scan' \subseteq Triggers
  <2> SUFFICES ASSUME NEW t \in scan' PROVE t \in Triggers
    OBVIOUS
  <2>1. PICK h \in handlers : \/ t = Trigger("base", h, Dir)
                              \/ \E f \in files \cap Accepts[h] : t = Trigger("create", h, f)
    BY <1>1
  <2> QED BY <1>2, <2>1, TriggerTypes DEF TriggerOps
<1>4. \A h, f : Trigger("create", h, f) \in scan' <=> h \in handlers /\ f \in files \cap Accepts[h]
  BY <1>1, TriggerTypes
<1>5. \A t \in scan' : t.op = "create" => t.name \in files
  <2> SUFFICES ASSUME NEW t \in scan', t.op = "create" PROVE t.name \in files
    OBVIOUS
  <2>1. t = Trigger("create", t.handler, t.name)
    BY <1>3, TriggerTypes
  <2> QED BY <1>4, <2>1
<1> QED BY <1>3, <1>4, <1>5

LEMMA PipeStep ==
    ASSUME Types, [Next]_vars
    PROVE  PipeTypes'
<1>a. PipeTypes /\ PlaceTypes /\ WatchTypes /\ MapTypes /\ FileTypes
  BY DEF Types
<1>1. CASE FileSystem \/ ReadInotify \/ Stop \/ UNCHANGED vars
  <2>1. UNCHANGED <<scan, found, events, event, dispatcher, job, late, slow, known>>
    BY <1>1, FileSystemLeaves, ReadInotifyLeaves, StopLeaves, NothingChanges
  <2> QED BY <1>a, <2>1 DEF PipeTypes
<1>2. CASE Caller
  <2>1. UNCHANGED <<scan, found, event, job, late, slow, known>>
    BY <1>2, CallerLeaves
  <2>2. \/ UNCHANGED <<events, dispatcher>>
        \/ /\ events \notin {"filter", "send"} /\ events' \notin {"filter", "send"}
           /\ dispatcher # "wait" /\ dispatcher' # "wait"
    BY <1>a, <1>2 DEF Caller, AddCall, AddLocks, AddUnlocks, Start, processing, dispatching, PlaceTypes
  <2> QED BY <1>a, <2>1, <2>2 DEF PipeTypes
<1>3. CASE SendAnnouncement
  <2>1. PICK t \in scan : /\ scan' = scan \ {t} /\ job' = t /\ dispatcher' = "wait"
                          /\ UNCHANGED <<late, slow, known>>
    BY <1>3 DEF SendAnnouncement, Send
  <2>2. UNCHANGED <<found, events, event>>
    BY <1>3, MonitorLeaves DEF MonitorStep, Monitor
  <2> QED BY <1>a, <2>1, <2>2, TriggerTypes DEF PipeTypes
<1>4. CASE ReadDir
  <2>1. UNCHANGED <<found, events, event, dispatcher, job, late, slow, known>>
    BY <1>4, MonitorLeaves DEF MonitorStep, Monitor, ReadDir, dispatching
  <2> QED BY <1>a, <1>4, <2>1, AnnouncementTypes DEF PipeTypes
<1>5. CASE MonitorStarts \/ Tick \/ ManageWatchers \/ AddWatch \/ ManageDone \/ MonitorEnds
  <2>1. UNCHANGED <<scan, dispatcher, job>>
    BY <1>5 DEF MonitorStarts, Tick, ManageWatchers, AddWatch, ManageDone, MonitorEnds, dispatching
  <2> QED BY <1>a, <1>5, <2>1, MonitorLeaves DEF MonitorStep, Monitor, PipeTypes
<1>6. CASE EventStep
  <2>1. UNCHANGED <<scan, late, slow, known>>
    BY <1>6, EventsLeave
  <2>2. CASE Receive
    <3>1. event' = unread /\ events' = "filter" /\ unread # None
          /\ UNCHANGED <<found, dispatcher, job>>
      BY <2>2 DEF Receive, dispatching
    <3> QED BY <1>a, <2>1, <3>1, EventTypes DEF PipeTypes, WatchTypes
  <2>3. CASE FilterHandlers
    <3>1. /\ found' = Interested(event) /\ events = "filter" /\ events' = "send"
          /\ UNCHANGED <<event, dispatcher, job>>
      BY <2>3 DEF FilterHandlers, Interested, dispatching
    <3>2. event \in FSEvents
      BY <1>a, <3>1 DEF PipeTypes
    <3> QED BY <1>a, <2>1, <3>1, <3>2, InterestedTypes DEF PipeTypes
  <2>4. CASE SendTrigger
    <3>1. PICK t \in found : found' = found \ {t} /\ job' = t /\ dispatcher' = "wait"
      BY <2>4 DEF SendTrigger, Send
    <3>2. UNCHANGED <<events, event>>
      BY <2>4 DEF SendTrigger
    <3> QED BY <1>a, <2>1, <3>1, <3>2, TriggerTypes DEF PipeTypes
  <2>5. CASE TriggersSent
    <3>1. event' = None /\ events' \in {"refresh", "select"} /\ UNCHANGED <<found, dispatcher, job>>
      BY <2>5 DEF TriggersSent, dispatching
    <3> QED BY <1>a, <2>1, <3>1 DEF PipeTypes
  <2>6. CASE Refresh \/ EventsEnd
    <3>1. /\ events \in {"refresh", "select"} /\ events' \in {"select", "ended"}
          /\ UNCHANGED <<event, found, dispatcher, job>>
      BY <2>6 DEF Refresh, EventsEnd, dispatching
    <3> QED BY <1>a, <2>1, <3>1 DEF PipeTypes
  <2> QED BY <1>6, <2>2, <2>3, <2>4, <2>5, <2>6 DEF EventStep, Events
<1>7. CASE DispatchStep
  <2>1. UNCHANGED <<scan, found, events, event>>
    BY <1>7, DispatcherLeaves
  <2>2. CASE CallbackDone
    <3>1. /\ dispatcher = "wait" /\ dispatcher' = "select" /\ job' = None /\ known' = Called(job)
          /\ UNCHANGED <<late, slow>>
      BY <2>2 DEF CallbackDone
    <3>2. job \in Triggers
      BY <1>a, <3>1 DEF PipeTypes
    <3>3. known' \in [Handler -> SUBSET File] /\ \A h \in Handler : known'[h] \subseteq Accepts[h]
      <4>1. known' \in [Handler -> SUBSET File]
        BY <1>a, <3>1, <3>2, CalledEffect DEF PipeTypes
      <4>2. ASSUME NEW h \in Handler, NEW f \in known'[h]
            PROVE  f \in Accepts[h]
        <5>1. f \in File /\ (job = Trigger("create", h, f) \/ f \in known[h])
          BY <1>a, <3>1, <3>2, <4>1, <4>2, CalledEffect DEF PipeTypes
        <5> QED BY <1>a, <3>2, <5>1, TriggerTypes DEF PipeTypes, Trigger
      <4> QED BY <4>1, <4>2
    <3> QED BY <1>a, <2>1, <3>1, <3>3 DEF PipeTypes
  <2>3. CASE LateCallbackDone
    <3>1. PICK l \in late : late' = late \ {l} /\ known' = Called(l.trigger)
      BY <2>3 DEF LateCallbackDone
    <3>2. l.trigger \in Triggers /\ UNCHANGED <<dispatcher, job, slow>>
      BY <1>a, <2>3 DEF PipeTypes, LateCallbackDone
    <3>3. known' \in [Handler -> SUBSET File] /\ \A h \in Handler : known'[h] \subseteq Accepts[h]
      <4>1. known' \in [Handler -> SUBSET File]
        BY <1>a, <3>1, <3>2, CalledEffect DEF PipeTypes
      <4>2. ASSUME NEW h \in Handler, NEW f \in known'[h]
            PROVE  f \in Accepts[h]
        <5>1. f \in File /\ (l.trigger = Trigger("create", h, f) \/ f \in known[h])
          BY <1>a, <3>1, <3>2, <4>1, <4>2, CalledEffect DEF PipeTypes
        <5> QED BY <1>a, <3>2, <5>1, TriggerTypes DEF PipeTypes, Trigger
      <4> QED BY <4>1, <4>2
    <3> QED BY <1>a, <2>1, <3>1, <3>2, <3>3 DEF PipeTypes
  <2>4. CASE CallbackTimesOut
    <3>1. /\ late' = late \cup {[id |-> slow, trigger |-> job]} /\ dispatcher = "wait"
          /\ slow < MaxSlow /\ slow' = slow + 1 /\ dispatcher' = "select" /\ job' = None
          /\ known' = known
      BY <2>4 DEF CallbackTimesOut
    <3>2. slow' \in 0..MaxSlow
      BY <1>a, <3>1, BoundAssumption DEF PipeTypes
    <3>3. \A l \in late' : l.trigger \in Triggers
      BY <1>a, <3>1 DEF PipeTypes
    <3> QED BY <1>a, <2>1, <3>1, <3>2, <3>3 DEF PipeTypes
  <2>5. CASE DispatcherEnds
    BY <1>a, <2>1, <2>5 DEF DispatcherEnds, PipeTypes
  <2> QED BY <1>7, <2>2, <2>3, <2>4, <2>5 DEF DispatchStep, Dispatcher
<1> QED BY <1>1, <1>2, <1>3, <1>4, <1>5, <1>6, <1>7, Steps DEF MonitorStep, Monitor

LEMMA TypesInductive == Types /\ [Next]_vars => Types'
BY FileStep, WatchStep, MapStep, PlaceStep, PipeStep DEF Types

\* The variables have their types, and each goroutine holds the lock only where
\* the code does (file_watcher.go:64-80, 128-132, 177-198).
THEOREM TypeCorrect == Spec => []TypeOK
<1>1. Spec => []Types
  BY InitTypes, TypesInductive, PTL DEF Spec
<1> QED BY <1>1, TypesSuffice, PTL

------------------------------------------------------------------------------
(* Triggers are sent only where the code sends them, to handlers there are.  *)

HandlerInv ==
    /\ found # {} => events = "send"
    /\ scan # {} => monitor = "send"
    /\ monitor # "none" => Handler \ AddedLate \subseteq handlers
    /\ \A t \in scan : t.op \in {"base", "create"}
    /\ \A t \in scan \cup found : t.handler \in handlers
    /\ job # None => job.handler \in handlers
    /\ \A l \in late : l.trigger.handler \in handlers
    /\ \A h \in Handler : known[h] # {} => h \in handlers

LEMMA InitHandlers == Init => HandlerInv
BY DEF Init, HandlerInv

LEMMA HandlersStay ==
    ASSUME [Next]_vars
    PROVE  handlers \subseteq handlers'
<1>1. CASE Caller
  BY <1>1 DEF Caller, AddCall, AddLocks, AddUnlocks, Start
<1>2. CASE ~Caller
  BY <1>2, Steps, FileSystemLeaves, ReadInotifyLeaves, StopLeaves, MonitorLeaves, EventsLeave,
     DispatcherLeaves, NothingChanges
<1> QED BY <1>1, <1>2

LEMMA KnowersStep ==
    ASSUME PipeTypes, HandlerInv, NEW t \in Triggers, t.handler \in handlers, known' = Called(t)
    PROVE  \A h \in Handler : known'[h] # {} => h \in handlers
<1> SUFFICES ASSUME NEW h \in Handler, known'[h] # {} PROVE h \in handlers
  OBVIOUS
<1>1. PICK f \in File : f \in known'[h]
  BY CalledEffect DEF PipeTypes
<1>2. t = Trigger("create", h, f) \/ f \in known[h]
  BY <1>1, CalledEffect DEF PipeTypes
<1> QED BY <1>2 DEF HandlerInv, Trigger

LEMMA HandlerStep ==
    ASSUME Types, HandlerInv, [Next]_vars
    PROVE  HandlerInv'
<1>a. PipeTypes /\ MapTypes /\ PlaceTypes /\ FileTypes
  BY DEF Types
<1>b. handlers \subseteq handlers'
  BY HandlersStay
<1>1. CASE FileSystem \/ ReadInotify \/ Stop \/ UNCHANGED vars
  <2>1. UNCHANGED <<scan, found, events, job, late, known, monitor, handlers>>
    BY <1>1, FileSystemLeaves, ReadInotifyLeaves, StopLeaves, NothingChanges
  <2> QED BY <2>1 DEF HandlerInv
<1>2. CASE Caller
  <2>1. UNCHANGED <<scan, found, job, late, known>>
    BY <1>2, CallerLeaves
  <2>2. \/ UNCHANGED <<monitor, events>>
        \/ monitor = "select" /\ monitor' = "manage" /\ events' = events
        \/ monitor = "none" /\ events = "none" /\ handlers = Handler \ AddedLate
    BY <1>a, <1>2 DEF Caller, AddCall, AddLocks, AddUnlocks, Start, processing, monitoring, PlaceTypes
  <2> QED BY <1>b, <2>1, <2>2 DEF HandlerInv
<1>3. CASE MonitorStep
  <2>1. UNCHANGED <<handlers, found, events, late, known>> /\ monitor # "none"
    BY <1>3, MonitorLeaves
    DEF MonitorStep, Monitor, MonitorStarts, Tick, ManageWatchers, AddWatch, ReadDir,
        SendAnnouncement, ManageDone, MonitorEnds
  <2>2. CASE ReadDir
    <3>1. \A t \in scan' : t.handler \in handlers /\ t.op \in {"base", "create"}
      <4>1. \A t \in scan' : \E h \in handlers : \/ t = Trigger("base", h, Dir)
                              \/ \E f \in files \cap Accepts[h] : t = Trigger("create", h, f)
        BY <2>2 DEF ReadDir, Announcements
      <4> QED BY <4>1 DEF Trigger
    <3>2. monitor' = "send" /\ job' = job
      BY <2>2 DEF ReadDir, dispatching
    <3> QED BY <2>1, <3>1, <3>2 DEF HandlerInv
  <2>3. CASE SendAnnouncement
    <3>1. (\E t \in scan : job' = t /\ scan' = scan \ {t}) /\ monitor = "send" /\ monitor' = monitor
      BY <2>3 DEF SendAnnouncement, Send
    <3> QED BY <2>1, <3>1 DEF HandlerInv
  <2>4. CASE MonitorStarts \/ Tick \/ ManageWatchers \/ AddWatch \/ ManageDone \/ MonitorEnds
    <3>1. scan' = scan /\ job' = job /\ (monitor = "send" => scan = {})
      BY <2>4 DEF MonitorStarts, Tick, ManageWatchers, AddWatch, ManageDone, MonitorEnds, dispatching
    <3> QED BY <2>1, <3>1 DEF HandlerInv
  <2> QED BY <1>3, <2>2, <2>3, <2>4 DEF MonitorStep, Monitor
<1>4. CASE EventStep
  <2>1. UNCHANGED <<handlers, scan, late, known>>
    BY <1>4, EventsLeave
  <2>2. (monitor' = monitor \/ (monitor = "select" /\ monitor' = "manage"))
    BY <1>4 DEF EventStep, Events, Receive, FilterHandlers, SendTrigger, TriggersSent, Refresh,
                EventsEnd, monitoring
  <2>3. CASE FilterHandlers
    <3>1. found' = Interested(event) /\ event \in FSEvents /\ events' = "send" /\ job' = job
      BY <1>a, <2>3 DEF FilterHandlers, Interested, PipeTypes, dispatching
    <3>2. \A t \in found' : t.handler \in handlers
      BY <3>1 DEF Interested, Trigger
    <3> QED BY <2>1, <2>2, <3>1, <3>2 DEF HandlerInv
  <2>4. CASE SendTrigger
    <3>1. (\E t \in found : job' = t /\ found' = found \ {t}) /\ events' = events
      BY <2>4 DEF SendTrigger, Send
    <3> QED BY <2>1, <2>2, <3>1 DEF HandlerInv
  <2>5. CASE Receive \/ TriggersSent \/ Refresh \/ EventsEnd
    <3>1. found' = found /\ job' = job /\ (events = "send" => found = {})
      BY <2>5 DEF Receive, TriggersSent, Refresh, EventsEnd, dispatching
    <3> QED BY <2>1, <2>2, <3>1 DEF HandlerInv
  <2> QED BY <1>4, <2>3, <2>4, <2>5 DEF EventStep, Events
<1>5. CASE DispatchStep
  <2>1. UNCHANGED <<handlers, scan, found, monitor, events>>
    BY <1>5, DispatcherLeaves
  <2>2. CASE CallbackDone
    <3>1. job' = None /\ known' = Called(job) /\ late' = late /\ job \in Triggers /\ job # None
      BY <1>a, <2>2 DEF CallbackDone, PipeTypes
    <3>2. \A h \in Handler : known'[h] # {} => h \in handlers
      BY <1>a, <3>1, KnowersStep DEF HandlerInv
    <3> QED BY <2>1, <3>1, <3>2 DEF HandlerInv
  <2>3. CASE LateCallbackDone
    <3>1. PICK l \in late : late' = late \ {l} /\ known' = Called(l.trigger)
      BY <2>3 DEF LateCallbackDone
    <3>2. job' = job /\ l.trigger \in Triggers /\ l.trigger.handler \in handlers
      BY <1>a, <2>3 DEF LateCallbackDone, PipeTypes, HandlerInv
    <3>3. \A h \in Handler : known'[h] # {} => h \in handlers
      BY <1>a, <3>1, <3>2, KnowersStep
    <3> QED BY <2>1, <3>1, <3>2, <3>3 DEF HandlerInv
  <2>4. CASE CallbackTimesOut
    <3>1. /\ late' = late \cup {[id |-> slow, trigger |-> job]} /\ job # None
          /\ job' = None /\ known' = known
      BY <1>a, <2>4 DEF CallbackTimesOut, PipeTypes
    <3> QED BY <2>1, <3>1 DEF HandlerInv
  <2>5. CASE DispatcherEnds
    BY <2>1, <2>5 DEF DispatcherEnds, HandlerInv
  <2> QED BY <1>5, <2>2, <2>3, <2>4, <2>5 DEF DispatchStep, Dispatcher
<1> QED BY <1>1, <1>2, <1>3, <1>4, <1>5, Steps

------------------------------------------------------------------------------
(* As long as the directory has not gone, no callback was slow, and          *)
(* processEvents has not ended.                                              *)

Plain == ~gone /\ slow = 0 /\ events # "ended"

LEMMA PlainBefore ==
    ASSUME Types, [Next]_vars, Plain'
    PROVE  Plain
<1>a. PipeTypes /\ PlaceTypes
  BY DEF Types
<1>1. ~gone
  <2>1. CASE FileSystem
    BY <2>1 DEF FileSystem, MakeDir, RemoveDir, CreateFile, WriteFile, RemoveFile, MoveFile, history,
                Plain
  <2>2. CASE ~FileSystem
    BY <2>2, Steps, ReadInotifyLeaves, CallerLeaves, StopLeaves, MonitorLeaves, EventsLeave,
       DispatcherLeaves, NothingChanges DEF Plain
  <2> QED BY <2>1, <2>2
<1>2. slow = 0
  <2>1. CASE CallbackTimesOut
    BY <1>a, <2>1, BoundAssumption DEF CallbackTimesOut, PipeTypes, Plain
  <2>2. CASE ~CallbackTimesOut
    <3>1. slow' = slow
      BY <2>2, Steps, FileSystemLeaves, ReadInotifyLeaves, CallerLeaves, StopLeaves, MonitorLeaves,
         EventsLeave, NothingChanges
      DEF DispatchStep, Dispatcher, CallbackDone, DispatcherEnds, LateCallbackDone
    <3> QED BY <3>1 DEF Plain
  <2> QED BY <2>1, <2>2
<1>3. events # "ended"
  <2>1. CASE Caller
    BY <1>a, <2>1 DEF Caller, AddCall, AddLocks, AddUnlocks, Start, processing, PlaceTypes, Plain
  <2>2. CASE EventStep
    BY <2>2 DEF EventStep, Events, Receive, FilterHandlers, SendTrigger, TriggersSent, Refresh,
                EventsEnd, Plain
  <2>3. CASE ~Caller /\ ~EventStep
    BY <2>3, Steps, FileSystemLeaves, ReadInotifyLeaves, StopLeaves, MonitorLeaves,
       DispatcherLeaves, NothingChanges DEF Plain
  <2> QED BY <2>1, <2>2, <2>3
<1> QED BY <1>1, <1>2, <1>3 DEF Plain

\* Until the directory is watched there is nothing under way.
Quiet ==
    /\ ~watched /\ inotify = << >> /\ unread = None
    /\ event = None /\ found = {} /\ scan = {} /\ job = None
    /\ \A h \in Handler : known[h] = {}

QuietInv ==
    Plain =>
        /\ late = {}
        /\ attached \/ Quiet
        /\ monitor \in {"read", "send"} => attached

LEMMA InitQuiet == Init => QuietInv
BY DEF Init, QuietInv, Quiet

\* Nothing is taken out where nothing is.
LEMMA QuietStep ==
    ASSUME Types, [Next]_vars, Plain', Quiet, ~attached, late = {},
           monitor \notin {"read", "send"}
    PROVE  \/ Quiet' /\ ~attached' /\ monitor' \notin {"read", "send"} /\ late' = {}
           \/ AddWatch /\ attached' /\ monitor' = "read" /\ late' = {}
              /\ UNCHANGED <<inotify, unread, event, found, scan, job, known>>
<1>a. FileTypes /\ WatchTypes /\ MapTypes /\ PlaceTypes /\ PipeTypes /\ Plain
  BY PlainBefore DEF Types
<1>1. CASE FileSystem
  <2>1. UNCHANGED <<watched, unread, event, found, scan, job, known, monitor, late>>
    BY <1>1, FileSystemLeaves
  <2>2. inotify' = inotify /\ ~attached'
    BY <1>1 DEF FileSystem, MakeDir, RemoveDir, CreateFile, WriteFile, RemoveFile, MoveFile, Report,
                fsnotify
  <2> QED BY <2>1, <2>2 DEF Quiet
<1>2. CASE ReadInotify
  BY <1>2 DEF ReadInotify, Quiet
<1>3. CASE Caller
  <2>1. monitor' \notin {"read", "send"}
    BY <1>3 DEF Caller, AddCall, AddLocks, AddUnlocks, Start, monitoring
  <2> QED BY <1>3, <2>1, CallerLeaves DEF Quiet
<1>4. CASE Stop \/ UNCHANGED vars
  BY <1>4, StopLeaves, NothingChanges DEF Quiet
<1>5. CASE MonitorStep
  <2>1. UNCHANGED <<unread, event, found, known, late>>
    BY <1>5, MonitorLeaves
  <2>2. CASE AddWatch
    BY <2>1, <2>2 DEF AddWatch, Quiet, dispatching
  <2>3. CASE ManageWatchers
    BY <2>1, <2>3 DEF ManageWatchers, Quiet, dispatching
  <2>4. CASE MonitorStarts \/ Tick \/ ManageDone \/ MonitorEnds
    <3>1. UNCHANGED <<watched, attached, inotify, scan, job>> /\ monitor' \notin {"read", "send"}
      BY <2>4 DEF MonitorStarts, Tick, ManageDone, MonitorEnds, fsnotify, dispatching
    <3> QED BY <2>1, <3>1 DEF Quiet
  <2>5. CASE ReadDir \/ SendAnnouncement
    BY <2>5 DEF ReadDir, SendAnnouncement
  <2> QED BY <1>5, <2>2, <2>3, <2>4, <2>5 DEF MonitorStep, Monitor
<1>6. CASE EventStep
  <2>1. events' # "ended" /\ events \notin {"filter", "send"}
    BY <1>a DEF PipeTypes, Quiet, Plain
  <2>2. CASE Refresh
    BY <1>6, <2>2, EventsLeave DEF Refresh, Quiet, fsnotify, dispatching
  <2>3. CASE ~Refresh
    BY <1>6, <2>1, <2>3
    DEF EventStep, Events, Receive, FilterHandlers, SendTrigger, TriggersSent, EventsEnd, Quiet
  <2> QED BY <2>2, <2>3
<1>7. CASE DispatchStep
  <2>1. dispatcher # "wait"
    BY <1>a DEF PipeTypes, Quiet
  <2>2. CASE DispatcherEnds
    BY <1>7, <2>2, DispatcherLeaves DEF DispatcherEnds, Quiet
  <2>3. CASE ~DispatcherEnds
    BY <1>7, <2>1, <2>3
    DEF DispatchStep, Dispatcher, CallbackDone, CallbackTimesOut, LateCallbackDone
  <2> QED BY <2>2, <2>3
<1> QED BY <1>1, <1>2, <1>3, <1>4, <1>5, <1>6, <1>7, Steps

------------------------------------------------------------------------------
(* What happens in the pipes once the directory is watched. *)

\* The kernel reports a change.
Reports(op, g) ==
    /\ inotify' = Append(inotify, Event(op, g))
    /\ UNCHANGED <<unread, events, event, found, scan, job, known, monitor>>
    /\ op = "create" => files' = files \cup {g}
    /\ op = "write" => files' = files
    /\ op \in {"remove", "rename"} => files' = files \ {g}
    /\ unsure' = IF op = "rename" THEN unsure \cup {g} ELSE unsure

Reads ==
    /\ unread = None /\ inotify # << >>
    /\ unread' = Head(inotify) /\ inotify' = Tail(inotify)
    /\ UNCHANGED <<events, event, found, scan, job, known, monitor, files, unsure>>

Receives ==
    /\ events = "select" /\ unread # None
    /\ events' = "filter" /\ event' = unread /\ unread' = None
    /\ UNCHANGED <<inotify, found, scan, job, known, monitor, files, unsure>>

Filters ==
    /\ events = "filter" /\ events' = "send" /\ found' = Interested(event)
    /\ UNCHANGED <<inotify, unread, event, scan, job, known, monitor, files, unsure>>

SendsFound(t) ==
    /\ t \in found /\ events = "send" /\ found' = found \ {t} /\ job = None /\ job' = t
    /\ UNCHANGED <<inotify, unread, events, event, scan, known, monitor, files, unsure>>

SendsScan(t) ==
    /\ t \in scan /\ monitor = "send" /\ scan' = scan \ {t} /\ job = None /\ job' = t
    /\ UNCHANGED <<inotify, unread, events, event, found, known, monitor, files, unsure>>

Calls ==
    /\ job # None /\ known' = Called(job) /\ job' = None
    /\ UNCHANGED <<inotify, unread, events, event, found, scan, monitor, files, unsure>>

Scans ==
    /\ ReadDir /\ monitor = "read" /\ monitor' = "send" /\ unsure' = unsure \cup files
    /\ UNCHANGED <<inotify, unread, events, event, found, job, known, files>>

\* Nothing moves in them.
Stays ==
    /\ events = "filter" <=> events' = "filter"
    /\ events' = "filter" => event' = event
    /\ monitor = "read" <=> monitor' = "read"
    /\ UNCHANGED <<inotify, unread, found, scan, job, known, files, unsure>>

Moves ==
    \/ \E op \in EventOps, g \in File : Reports(op, g)
    \/ Reads \/ Receives \/ Filters
    \/ \E t \in found : SendsFound(t)
    \/ \E t \in scan : SendsScan(t)
    \/ Calls \/ Scans \/ Stays

LEMMA PipeSteps ==
    ASSUME Types, [Next]_vars, Plain', attached, attached', late = {}
    PROVE  Moves
<1>a. FileTypes /\ WatchTypes /\ MapTypes /\ PlaceTypes /\ PipeTypes /\ dir /\ watched
  BY DEF Types, WatchTypes
<1>1. CASE FileSystem
  <2>1. UNCHANGED <<watched, unread, events, event, found, scan, job, known, monitor>>
    BY <1>1, FileSystemLeaves
  <2>2. CASE MakeDir \/ RemoveDir
    BY <1>a, <2>2 DEF MakeDir, RemoveDir
  <2>3. ASSUME NEW f \in File, CreateFile(f) \/ WriteFile(f) \/ RemoveFile(f) \/ MoveFile(f)
        PROVE  Moves
    <3>1. CASE CreateFile(f)
      <4>1. Reports("create", f)
        BY <2>1, <3>1 DEF CreateFile, Report, Reports, history
      <4> QED BY <4>1 DEF EventOps, Moves
    <3>2. CASE WriteFile(f)
      <4>1. Reports("write", f)
        BY <2>1, <3>2 DEF WriteFile, Report, Reports, history
      <4> QED BY <4>1 DEF EventOps, Moves
    <3>3. CASE RemoveFile(f)
      <4>1. Reports("remove", f)
        BY <2>1, <3>3 DEF RemoveFile, Report, Reports, history
      <4> QED BY <4>1 DEF EventOps, Moves
    <3>4. CASE MoveFile(f)
      <4>1. Reports("rename", f)
        BY <2>1, <3>4 DEF MoveFile, Report, Reports
      <4> QED BY <4>1 DEF EventOps, Moves
    <3> QED BY <2>3, <3>1, <3>2, <3>3, <3>4
  <2> QED BY <1>1, <2>2, <2>3 DEF FileSystem
<1>2. CASE ReadInotify
  BY <1>2, ReadInotifyLeaves DEF ReadInotify, Reads, Moves
<1>3. CASE Caller
  <2>1. (events = "filter" <=> events' = "filter") /\ (monitor = "read" <=> monitor' = "read")
    BY <1>a, <1>3 DEF Caller, AddCall, AddLocks, AddUnlocks, Start, monitoring, processing, PlaceTypes
  <2> QED BY <1>3, <2>1, CallerLeaves DEF Stays, Moves
<1>4. CASE Stop \/ UNCHANGED vars
  BY <1>4, StopLeaves, NothingChanges DEF Stays, Moves
<1>5. CASE MonitorStep
  <2>1. UNCHANGED <<files, unread, events, event, found, known, late>>
    BY <1>5, MonitorLeaves
  <2>2. CASE AddWatch
    BY <1>a, <2>2 DEF AddWatch, WatchTypes
  <2>3. CASE SendAnnouncement
    <3>1. PICK t \in scan : Send(t) /\ scan' = scan \ {t}
      BY <2>3 DEF SendAnnouncement
    <3>2. job = None /\ job' = t
      BY <1>a, <3>1 DEF Send, PipeTypes
    <3> QED BY <2>1, <2>3, <3>1, <3>2 DEF SendAnnouncement, SendsScan, Moves, fsnotify
  <2>4. CASE ReadDir
    BY <2>1, <2>4 DEF ReadDir, Scans, Moves, fsnotify, dispatching
  <2>5. CASE MonitorStarts \/ Tick \/ ManageWatchers \/ ManageDone \/ MonitorEnds
    <3>1. UNCHANGED <<unsure, inotify, scan, job>> /\ monitor # "read" /\ monitor' # "read"
      BY <1>a, <2>5 DEF MonitorStarts, Tick, ManageWatchers, ManageDone, MonitorEnds, fsnotify,
                        dispatching
    <3> QED BY <2>1, <3>1 DEF Stays, Moves
  <2> QED BY <1>5, <2>2, <2>3, <2>4, <2>5 DEF MonitorStep, Monitor
<1>6. CASE EventStep
  <2>1. UNCHANGED <<files, unsure, scan, late, known>>
    BY <1>6, EventsLeave
  <2>2. CASE Receive
    BY <2>1, <2>2 DEF Receive, Receives, Moves, dispatching, monitoring
  <2>3. CASE FilterHandlers
    BY <2>1, <2>3 DEF FilterHandlers, Filters, Interested, Moves, fsnotify, monitoring, dispatching
  <2>4. CASE SendTrigger
    <3>1. PICK t \in found : Send(t) /\ found' = found \ {t}
      BY <2>4 DEF SendTrigger
    <3>2. job = None /\ job' = t
      BY <1>a, <3>1 DEF Send, PipeTypes
    <3> QED BY <2>1, <2>4, <3>1, <3>2 DEF SendTrigger, SendsFound, Moves, fsnotify, monitoring
  <2>5. CASE TriggersSent \/ Refresh
    <3>1. events # "filter" /\ events' # "filter"
      BY <2>5 DEF TriggersSent, Refresh
    <3>2. UNCHANGED <<inotify, unread, found, job>> /\ (monitor = "read" <=> monitor' = "read")
      BY <2>5 DEF TriggersSent, Refresh, fsnotify, dispatching, monitoring
    <3> QED BY <2>1, <3>1, <3>2 DEF Stays, Moves
  <2>6. CASE EventsEnd
    BY <2>6 DEF EventsEnd
  <2> QED BY <1>6, <2>2, <2>3, <2>4, <2>5, <2>6 DEF EventStep, Events
<1>7. CASE DispatchStep
  <2>1. UNCHANGED <<files, unsure, inotify, unread, scan, found, monitor, events, event>>
    BY <1>7, DispatcherLeaves
  <2>2. CASE CallbackDone
    BY <1>a, <2>1, <2>2 DEF CallbackDone, PipeTypes, Calls, Moves
  <2>3. CASE DispatcherEnds
    BY <2>1, <2>3 DEF DispatcherEnds, Stays, Moves
  <2>4. ~LateCallbackDone
    BY DEF LateCallbackDone
  <2>5. ~CallbackTimesOut
    BY <1>a, PlainBefore, BoundAssumption DEF CallbackTimesOut, PipeTypes, Plain
  <2> QED BY <1>7, <2>2, <2>3, <2>4, <2>5 DEF DispatchStep, Dispatcher
<1> QED BY <1>1, <1>2, <1>3, <1>4, <1>5, <1>6, <1>7, Steps

LEMMA QuietInvStep ==
    ASSUME Types, QuietInv, [Next]_vars
    PROVE  QuietInv'
<1> SUFFICES ASSUME Plain'
             PROVE  /\ late' = {} /\ (attached' \/ Quiet')
                    /\ monitor' \in {"read", "send"} => attached'
  BY DEF QuietInv
<1>1. /\ late = {} /\ (attached \/ Quiet) /\ (monitor \in {"read", "send"} => attached)
      /\ PlaceTypes /\ PipeTypes
  BY PlainBefore DEF QuietInv, Types
<1>2. CASE ~attached
  BY <1>1, <1>2, QuietStep
<1>3. CASE attached
  <2>1. late' = {}
    <3>1. ~CallbackTimesOut
      BY <1>1, PlainBefore, BoundAssumption DEF CallbackTimesOut, PipeTypes, Plain
    <3> QED BY <1>1, <3>1, Steps, FileSystemLeaves, ReadInotifyLeaves, CallerLeaves, StopLeaves,
          MonitorLeaves, EventsLeave, NothingChanges
        DEF DispatchStep, Dispatcher, CallbackDone, DispatcherEnds, LateCallbackDone
  <2>2. attached'
    <3>1. CASE FileSystem
      BY <1>3, <3>1 DEF FileSystem, MakeDir, RemoveDir, CreateFile, WriteFile, RemoveFile, MoveFile,
                  fsnotify, history, Plain
    <3>2. CASE MonitorStep
      BY <1>3, <3>2 DEF MonitorStep, Monitor, MonitorStarts, Tick, ManageWatchers, AddWatch, ReadDir,
                  SendAnnouncement, ManageDone, MonitorEnds, fsnotify
    <3>3. CASE EventStep
      BY <1>3, <3>3 DEF EventStep, Events, Receive, FilterHandlers, SendTrigger, TriggersSent,
                  Refresh, EventsEnd, fsnotify, Plain
    <3>4. CASE ~FileSystem /\ ~MonitorStep /\ ~EventStep
      BY <1>3, <3>4, Steps, ReadInotifyLeaves, CallerLeaves, StopLeaves, DispatcherLeaves,
         NothingChanges
    <3> QED BY <3>1, <3>2, <3>3, <3>4
  <2> QED BY <2>1, <2>2
<1> QED BY <1>2, <1>3

------------------------------------------------------------------------------
(* What is on its way to a handler.  y stands for an operation, create or    *)
(* remove, and x for the other one.                                          *)

Behind(y, f) == unread = Event(y, f) \/ Event(y, f) \in Held(inotify)

Coming(h, f, y) ==
    \/ Trigger(y, h, f) \in found
    \/ events = "filter" /\ event = Event(y, f)
    \/ Behind(y, f)

\* Behind every x there is a y.
Chain(h, f, x, y) ==
    /\ Followed(inotify, Event(x, f), Event(y, f))
    /\ unread = Event(x, f) => Event(y, f) \in Held(inotify)
    /\ events = "filter" /\ event = Event(x, f) => Behind(y, f)
    /\ Trigger(x, h, f) \in found => Behind(y, f)
    /\ job = Trigger(x, h, f) => Coming(h, f, y)

Ops == {"create", "remove"}

LEMMA OpTypes ==
    ASSUME NEW h \in Handler, NEW f \in Accepts[h], NEW y \in Ops
    PROVE  /\ f \in File /\ Event(y, f) \in FSEvents /\ Trigger(y, h, f) \in Triggers
           /\ Event(y, f) # None /\ Trigger(y, h, f) # None
<1>1. f \in File /\ y \in EventOps /\ y \in TriggerOps
  BY HandlerAssumption DEF Ops, EventOps, TriggerOps
<1> QED BY <1>1, EventTypes, TriggerTypes

\* An event behind stays there until processEvents receives it.
LEMMA BehindStays ==
    ASSUME Types, HandlerInv, Moves, NEW h \in Handler, NEW f \in Accepts[h], NEW y \in Ops,
           Behind(y, f)
    PROVE  Behind(y, f)' \/ (Receives /\ event' = Event(y, f))
<1>a. inotify \in Seq(FSEvents)
  BY DEF Types, WatchTypes
<1>b. Event(y, f) # None
  BY OpTypes
<1>1. ASSUME NEW op \in EventOps, NEW g \in File, Reports(op, g)
      PROVE  Behind(y, f)'
  BY <1>a, <1>1, AddLast, EventTypes DEF Reports, Behind
<1>2. CASE Reads
  BY <1>a, <1>b, <1>2, TakeFirst DEF Reads, Behind
<1>3. CASE Receives
  BY <1>3 DEF Receives, Behind
<1>4. CASE ~Reads /\ ~Receives /\ ~\E op \in EventOps, g \in File : Reports(op, g)
  <2>1. UNCHANGED <<inotify, unread>>
    BY <1>4 DEF Moves, Filters, SendsFound, SendsScan, Calls, Scans, Stays
  <2> QED BY <2>1 DEF Behind
<1> QED BY <1>1, <1>2, <1>3, <1>4

\* What is coming arrives, at the latest when it is called.
LEMMA ComingStays ==
    ASSUME Types, HandlerInv, Moves, NEW h \in Handler, NEW f \in Accepts[h], NEW y \in Ops,
           Filters => h \in handlers, Coming(h, f, y)
    PROVE  Coming(h, f, y)' \/ job' = Trigger(y, h, f)
<1>a. MapTypes /\ PipeTypes
  BY DEF Types
<1>1. CASE Behind(y, f)
  <2>1. Behind(y, f)' \/ (Receives /\ event' = Event(y, f))
    BY <1>1, BehindStays
  <2> QED BY <2>1 DEF Coming, Receives
<1>2. CASE Filters
  <2>1. found = {} /\ event \in FSEvents
    BY <1>a, <1>2 DEF HandlerInv, PipeTypes, Filters
  <2>2. CASE event = Event(y, f)
    <3>1. Trigger(y, h, f) \in Interested(event)
      BY <1>a, <1>2, <2>1, <2>2, InterestedTypes DEF Ops
    <3> QED BY <1>2, <3>1 DEF Filters, Coming
  <2> QED BY <1>1, <2>1, <2>2 DEF Coming
<1>3. ASSUME NEW t \in found, SendsFound(t)
      PROVE  Coming(h, f, y)' \/ job' = Trigger(y, h, f)
  <2>1. events # "filter" /\ job' = t /\ found' = found \ {t}
    BY <1>3 DEF SendsFound
  <2> QED BY <1>1, <2>1 DEF Coming
<1>4. CASE ~Filters /\ ~\E t \in found : SendsFound(t)
  <2>1. found' = found
    BY <1>4 DEF Moves, Reports, Reads, Receives, SendsScan, Calls, Scans, Stays
  <2>2. events = "filter" => events' = "filter" /\ event' = event
    BY <1>4 DEF Moves, Reports, Reads, Receives, SendsScan, Calls, Scans, Stays
  <2> QED BY <1>1, <2>1, <2>2 DEF Coming
<1> QED BY <1>2, <1>3, <1>4

LEMMA ChainClosed ==
    ASSUME Types, NEW h \in Handler, NEW f \in Accepts[h], NEW x \in Ops, NEW y \in Ops, x # y,
           Reports(y, f)
    PROVE  Chain(h, f, x, y)' /\ Coming(h, f, y)'
<1>1. inotify \in Seq(FSEvents) /\ inotify' = Append(inotify, Event(y, f))
  BY DEF Types, WatchTypes, Reports
<1>2. Event(y, f) \in FSEvents /\ Event(x, f) # Event(y, f)
  BY OpTypes, EventTypes
<1>3. Event(y, f) \in Held(inotify') /\ Followed(inotify', Event(x, f), Event(y, f))
  BY <1>1, <1>2, AddLast
<1> QED BY <1>3 DEF Chain, Coming, Behind

LEMMA ChainEmpty ==
    ASSUME NEW h \in Handler, NEW f \in Accepts[h], NEW x \in Ops, NEW y \in Ops,
           inotify = << >>, unread = None, event = None, found = {}, job = None
    PROVE  Chain(h, f, x, y)
BY EmptyQueue, OpTypes DEF Chain

LEMMA ChainStep ==
    ASSUME Types, HandlerInv, Moves, NEW h \in Handler, NEW f \in Accepts[h],
           NEW x \in Ops, NEW y \in Ops, x # y, Chain(h, f, x, y),
           ~Reports(x, f), ~SendsScan(Trigger(x, h, f))
    PROVE  Chain(h, f, x, y)'
<1>a. /\ MapTypes /\ PipeTypes /\ inotify \in Seq(FSEvents)
  BY DEF Types, WatchTypes
<1>b. /\ Event(x, f) # None /\ Trigger(x, h, f) # None /\ Trigger(x, h, f) # Trigger(y, h, f)
      /\ Event(x, f) # Event(y, f)
  BY OpTypes, EventTypes, TriggerTypes
<1>1. Followed(inotify', Event(x, f), Event(y, f))
  <2>1. ASSUME NEW op \in EventOps, NEW g \in File, Reports(op, g)
        PROVE  Followed(inotify', Event(x, f), Event(y, f))
    <3>1. Event(op, g) # Event(x, f) /\ Event(op, g) \in FSEvents
      BY <2>1, EventTypes
    <3> QED BY <1>a, <2>1, <3>1, AddLast DEF Reports, Chain
  <2>2. CASE Reads
    BY <1>a, <2>2, TakeFirst DEF Reads, Chain
  <2>3. CASE ~Reads /\ ~\E op \in EventOps, g \in File : Reports(op, g)
    <3>1. inotify' = inotify
      BY <2>3 DEF Moves, Receives, Filters, SendsFound, SendsScan, Calls, Scans, Stays
    <3> QED BY <3>1 DEF Chain
  <2> QED BY <2>1, <2>2, <2>3
<1>2. ASSUME unread' = Event(x, f)
      PROVE  Event(y, f) \in Held(inotify')
  <2>1. ASSUME NEW op \in EventOps, NEW g \in File, Reports(op, g)
        PROVE  Event(y, f) \in Held(inotify')
    BY <1>a, <1>2, <2>1, AddLast, EventTypes DEF Reports, Chain
  <2>2. CASE Reads
    BY <1>a, <1>2, <2>2, TakeFirst DEF Reads, Chain
  <2>3. CASE ~Reads /\ ~\E op \in EventOps, g \in File : Reports(op, g)
    <3>1. inotify' = inotify /\ unread' \in {unread, None}
      BY <2>3 DEF Moves, Receives, Filters, SendsFound, SendsScan, Calls, Scans, Stays
    <3> QED BY <1>b, <1>2, <3>1 DEF Chain
  <2> QED BY <2>1, <2>2, <2>3
<1>3. ASSUME Behind(y, f), ~Receives
      PROVE  Behind(y, f)'
  BY <1>3, BehindStays
<1>4. ASSUME events' = "filter", event' = Event(x, f)
      PROVE  Behind(y, f)'
  <2>1. CASE Receives
    BY <1>4, <2>1 DEF Receives, Chain, Behind
  <2>2. CASE ~Receives
    <3>1. events = "filter" /\ event' = event
      BY <1>4, <2>2 DEF Moves, Reports, Reads, Filters, SendsFound, SendsScan, Calls, Scans, Stays
    <3> QED BY <1>3, <1>4, <2>2, <3>1 DEF Chain
  <2> QED BY <2>1, <2>2
<1>5. ASSUME Trigger(x, h, f) \in found'
      PROVE  Behind(y, f)'
  <2>1. CASE Filters
    <3>1. event \in FSEvents /\ Trigger(x, h, f) \in Interested(event)
      BY <1>a, <1>5, <2>1 DEF Filters, PipeTypes
    <3>2. event = Event(x, f)
      BY <1>a, <3>1, InterestedTypes DEF Ops
    <3> QED BY <1>3, <2>1, <3>2 DEF Chain, Filters, Receives
  <2>2. CASE Receives
    BY <1>5, <2>2 DEF Receives, HandlerInv
  <2>3. CASE ~Filters /\ ~Receives
    <3>1. found' \subseteq found
      BY <2>3 DEF Moves, Reports, Reads, SendsFound, SendsScan, Calls, Scans, Stays
    <3> QED BY <1>3, <1>5, <2>3, <3>1 DEF Chain
  <2> QED BY <2>1, <2>2, <2>3
<1>6. ASSUME job' = Trigger(x, h, f)
      PROVE  Coming(h, f, y)'
  <2>1. CASE job = job'
    <3>1. h \in handlers
      BY <1>b, <1>6, <2>1 DEF HandlerInv, Trigger
    <3>2. Coming(h, f, y)' \/ job' = Trigger(y, h, f)
      BY <1>6, <2>1, <3>1, ComingStays DEF Chain
    <3> QED BY <1>b, <1>6, <3>2
  <2>2. CASE job # job'
    <3>1. PICK t \in found : SendsFound(t)
      BY <1>b, <1>6, <2>2 DEF Moves, Reports, Reads, Receives, Filters, SendsScan, Calls, Scans, Stays
    <3>2. Trigger(x, h, f) \in found /\ ~Receives
      BY <1>6, <3>1 DEF SendsFound, Receives
    <3> QED BY <1>3, <3>2 DEF Chain, Coming
  <2> QED BY <2>1, <2>2
<1> QED BY <1>1, <1>2, <1>4, <1>5, <1>6 DEF Chain

------------------------------------------------------------------------------
(* What is there is known or on its way.                                     *)

AnnounceInv ==
    Plain /\ attached =>
        \A h \in Handler \ AddedLate : \A f \in files \cap Accepts[h] :
            /\ Chain(h, f, "remove", "create")
            /\ \/ monitor = "read"
               \/ f \in known[h] \/ Trigger("create", h, f) \in scan
               \/ job = Trigger("create", h, f) \/ Coming(h, f, "create")

LEMMA AnnounceStep ==
    ASSUME Types, HandlerInv, QuietInv, AnnounceInv, [Next]_vars
    PROVE  AnnounceInv'
<1> SUFFICES ASSUME Plain', attached', NEW h \in Handler \ AddedLate,
                    NEW f \in files' \cap Accepts[h]
             PROVE  /\ Chain(h, f, "remove", "create")'
                    /\ \/ monitor' = "read"
                       \/ f \in known'[h] \/ Trigger("create", h, f) \in scan'
                       \/ job' = Trigger("create", h, f) \/ Coming(h, f, "create")'
  BY DEF AnnounceInv, Chain, Coming, Behind
<1>a. /\ Plain /\ late = {} /\ h \in Handler /\ f \in Accepts[h] /\ f \in File
      /\ MapTypes /\ FileTypes /\ PlaceTypes /\ PipeTypes
  BY PlainBefore, HandlerAssumption DEF Types, QuietInv
<1>b. "create" \in Ops /\ "remove" \in Ops
  BY DEF Ops
<1>1. CASE ~attached
  <2>1. /\ monitor' = "read" /\ Quiet
        /\ UNCHANGED <<inotify, unread, event, found, scan, job, known>>
    BY <1>a, <1>1, QuietStep DEF QuietInv
  <2>2. Chain(h, f, "remove", "create")'
    BY <1>a, <1>b, <2>1, EmptyQueue, OpTypes DEF Quiet, Chain
  <2> QED BY <2>1, <2>2
<1>2. CASE attached
  <2>1. Moves
    BY <1>a, <1>2, PipeSteps
  <2>2. CASE f \notin files
    <3>1. Reports("create", f)
      BY <2>1, <2>2 DEF Moves, Reports, Reads, Receives, Filters, SendsFound, SendsScan, Calls,
         Scans, Stays, EventOps
    <3> QED BY <1>a, <1>b, <3>1, ChainClosed
  <2>3. CASE f \in files
    <3>1. Chain(h, f, "remove", "create")
      BY <1>a, <1>2, <2>3 DEF AnnounceInv
    <3>2. ~Reports("remove", f)
      BY DEF Reports
    <3>3. ~SendsScan(Trigger("remove", h, f))
      BY DEF SendsScan, HandlerInv, Trigger
    <3>4. Chain(h, f, "remove", "create")'
      BY <1>a, <1>b, <2>1, <3>1, <3>2, <3>3, ChainStep
    <3>5. CASE Scans
      <4>1. h \in handlers /\ ReadDir
        BY <3>5 DEF Scans, HandlerInv
      <4> QED BY <1>a, <2>3, <3>4, <4>1, AnnouncementTypes
    <3>6. CASE ~Scans /\ monitor = "read"
      <4>1. monitor' = "read"
        BY <2>1, <3>6 DEF Moves, Reports, Reads, Receives, Filters, SendsFound, SendsScan, Calls, Stays
      <4> QED BY <3>4, <4>1
    <3>7. CASE ~Scans /\ monitor # "read"
      <4>1. \/ f \in known[h] \/ Trigger("create", h, f) \in scan
            \/ job = Trigger("create", h, f) \/ Coming(h, f, "create")
        BY <1>a, <1>2, <2>3, <3>7 DEF AnnounceInv
      <4>2. ASSUME Coming(h, f, "create")
            PROVE  Coming(h, f, "create")' \/ job' = Trigger("create", h, f)
        <5>1. Filters => h \in handlers
          BY <1>a DEF Filters, PlaceTypes, HandlerInv
        <5> QED BY <1>a, <1>b, <2>1, <4>2, <5>1, ComingStays
      <4>3. CASE Calls
        <5>1. /\ known' = Called(job) /\ job \in Triggers
              /\ UNCHANGED <<scan, found, inotify, unread, events, event>>
          BY <1>a, <3>7, <4>3 DEF Calls, PipeTypes
        <5>2. \A y : Coming(h, f, y)' <=> Coming(h, f, y)
          BY <5>1 DEF Coming, Behind
        <5>3. f \in known'[h] <=>
                  job = Trigger("create", h, f) \/ (f \in known[h] /\ job # Trigger("remove", h, f))
          BY <1>a, <5>1, CalledEffect DEF PipeTypes
        <5> QED BY <3>1, <3>4, <4>1, <5>1, <5>2, <5>3 DEF Chain
      <4>4. CASE ~Calls
        <5>1. known' = known
          BY <2>1, <3>7, <4>4 DEF Moves, Reports, Reads, Receives, Filters, SendsFound, SendsScan, Stays
        <5>2. job = Trigger("create", h, f) => job' = job
          <6>1. Trigger("create", h, f) # None
            BY <1>a, <1>b, OpTypes
          <6> QED BY <2>1, <3>7, <4>4, <6>1
            DEF Moves, Reports, Reads, Receives, Filters, SendsFound, SendsScan, Stays
        <5>3. Trigger("create", h, f) \in scan =>
                  Trigger("create", h, f) \in scan' \/ job' = Trigger("create", h, f)
          BY <2>1, <3>7, <4>4
          DEF Moves, Reports, Reads, Receives, Filters, SendsFound, SendsScan, Stays
        <5> QED BY <3>4, <4>1, <4>2, <5>1, <5>2, <5>3
      <4> QED BY <4>3, <4>4
    <3> QED BY <3>5, <3>6, <3>7
  <2> QED BY <2>2, <2>3
<1> QED BY <1>1, <1>2

------------------------------------------------------------------------------
(* What is not there any more is unknown, or its removal on its way.         *)

WithdrawInv ==
    Plain /\ attached =>
        /\ \A t \in scan : t.op = "create" => t.name \in unsure
        /\ \A h \in Handler : \A f \in Accepts[h] \ (files \cup unsure) :
            /\ Chain(h, f, "create", "remove")
            /\ f \in known[h] => job = Trigger("remove", h, f) \/ Coming(h, f, "remove")

LEMMA WithdrawStep ==
    ASSUME Types, HandlerInv, QuietInv, WithdrawInv, [Next]_vars
    PROVE  WithdrawInv'
<1> SUFFICES ASSUME Plain', attached'
             PROVE  /\ \A t \in scan' : t.op = "create" => t.name \in unsure'
                    /\ \A h \in Handler : \A f \in Accepts[h] \ (files' \cup unsure') :
                        /\ Chain(h, f, "create", "remove")'
                        /\ f \in known'[h] =>
                               job' = Trigger("remove", h, f) \/ Coming(h, f, "remove")'
  BY DEF WithdrawInv, Chain, Coming, Behind
<1>a. /\ Plain /\ late = {} /\ MapTypes /\ FileTypes /\ PipeTypes
  BY PlainBefore DEF Types, QuietInv
<1>b. "create" \in Ops /\ "remove" \in Ops
  BY DEF Ops
<1>1. CASE ~attached
  <2>1. Quiet /\ UNCHANGED <<inotify, unread, event, found, scan, job, known>>
    BY <1>a, <1>1, QuietStep DEF QuietInv
  <2>2. ASSUME NEW h \in Handler, NEW f \in Accepts[h]
        PROVE  Chain(h, f, "create", "remove")' /\ f \notin known'[h]
    BY <1>b, <2>1, EmptyQueue, OpTypes DEF Quiet, Chain
  <2>3. scan' = {}
    BY <2>1 DEF Quiet
  <2> QED BY <2>2, <2>3
<1>2. CASE attached
  <2>1. Moves
    BY <1>a, <1>2, PipeSteps
  <2>2. \A t \in scan' : t.op = "create" => t.name \in unsure'
    <3>1. CASE Scans
      BY <1>a, <3>1, AnnouncementTypes DEF Scans
    <3>2. CASE ~Scans
      <4>1. scan' \subseteq scan /\ unsure \subseteq unsure'
        BY <2>1, <3>2 DEF Moves, Reports, Reads, Receives, Filters, SendsFound, SendsScan, Calls, Stays
      <4> QED BY <1>a, <1>2, <4>1 DEF WithdrawInv
    <3> QED BY <3>1, <3>2
  <2>3. ASSUME NEW h \in Handler, NEW f \in Accepts[h], f \notin files' \cup unsure'
        PROVE  /\ Chain(h, f, "create", "remove")'
               /\ f \in known'[h] => job' = Trigger("remove", h, f) \/ Coming(h, f, "remove")'
    <3>a. f \in File /\ f \notin unsure
      BY <2>1, <2>3, HandlerAssumption
      DEF Moves, Reports, Reads, Receives, Filters, SendsFound, SendsScan, Calls, Scans, Stays
    <3>1. CASE f \in files
      <4>1. Reports("remove", f)
        <5>1. PICK op \in EventOps, g \in File : Reports(op, g)
          BY <2>1, <2>3, <3>1
          DEF Moves, Reads, Receives, Filters, SendsFound, SendsScan, Calls, Scans, Stays
        <5>2. op = "remove" /\ g = f
          BY <2>3, <3>1, <5>1 DEF Reports, EventOps
        <5> QED BY <5>1, <5>2
      <4> QED BY <1>b, <4>1, ChainClosed
    <3>2. CASE f \notin files
      <4>1. /\ Chain(h, f, "create", "remove")
            /\ f \in known[h] => job = Trigger("remove", h, f) \/ Coming(h, f, "remove")
        BY <1>a, <1>2, <3>a, <3>2 DEF WithdrawInv
      <4>2. ~Reports("create", f)
        BY <2>3 DEF Reports
      <4>3. ~SendsScan(Trigger("create", h, f))
        BY <1>a, <1>2, <3>a DEF SendsScan, WithdrawInv, Trigger
      <4>4. Chain(h, f, "create", "remove")'
        BY <1>b, <2>1, <4>1, <4>2, <4>3, ChainStep
      <4>5. ASSUME f \in known'[h]
            PROVE  job' = Trigger("remove", h, f) \/ Coming(h, f, "remove")'
        <5>1. CASE Calls
          <6>1. /\ known' = Called(job) /\ job \in Triggers
                /\ UNCHANGED <<found, inotify, unread, events, event>>
            BY <1>a, <5>1 DEF Calls, PipeTypes
          <6>2. Coming(h, f, "remove")' <=> Coming(h, f, "remove")
            BY <6>1 DEF Coming, Behind
          <6>3. job = Trigger("create", h, f) \/ (f \in known[h] /\ job # Trigger("remove", h, f))
            BY <1>a, <3>a, <4>5, <6>1, CalledEffect DEF PipeTypes
          <6> QED BY <4>1, <6>2, <6>3 DEF Chain
        <5>2. CASE ~Calls
          <6>1. known' = known
            BY <2>1, <5>2
            DEF Moves, Reports, Reads, Receives, Filters, SendsFound, SendsScan, Scans, Stays
          <6>2. h \in handlers
            BY <4>5, <6>1 DEF HandlerInv
          <6>3. CASE Coming(h, f, "remove")
            BY <1>b, <2>1, <6>2, <6>3, ComingStays
          <6>4. CASE job = Trigger("remove", h, f)
            <7>1. Trigger("remove", h, f) # None
              BY <1>b, OpTypes
            <7>2. job' = job
              BY <2>1, <5>2, <6>4, <7>1
              DEF Moves, Reports, Reads, Receives, Filters, SendsFound, SendsScan, Scans, Stays
            <7> QED BY <6>4, <7>2
          <6> QED BY <4>1, <4>5, <6>1, <6>3, <6>4
        <5> QED BY <5>1, <5>2
      <4> QED BY <4>4, <4>5
    <3> QED BY <3>1, <3>2
  <2> QED BY <2>2, <2>3
<1> QED BY <1>1, <1>2

------------------------------------------------------------------------------
IInv == Types /\ HandlerInv /\ QuietInv /\ AnnounceInv /\ WithdrawInv

LEMMA Invariance == Spec => []IInv
<1>1. Init => IInv
  <2>1. Init => AnnounceInv /\ WithdrawInv
    BY DEF Init, AnnounceInv, WithdrawInv
  <2> QED BY <2>1, InitTypes, InitHandlers, InitQuiet DEF IInv
<1>2. IInv /\ [Next]_vars => IInv'
  BY TypesInductive, HandlerStep, QuietInvStep, AnnounceStep, WithdrawStep DEF IInv
<1> QED BY <1>1, <1>2, PTL DEF Spec

\* When nothing is under way nothing is coming.
LEMMA IdlePipes ==
    ASSUME Types, HandlerInv, Idle
    PROVE  /\ scan = {} /\ job = None /\ events = "select"
           /\ \A h \in Handler : \A f \in Accepts[h] : \A y \in Ops : ~Coming(h, f, y)
<1>1. scan = {} /\ found = {} /\ job = None
  BY DEF Types, PipeTypes, HandlerInv, Idle
<1> QED BY <1>1, EmptyQueue, OpTypes DEF Idle, Coming, Behind

\* Every file there is has been announced when the watcher is idle, however its
\* creation raced with the watch (file_watcher.go:226-260).
THEOREM FilesAreAnnounced == Spec => []Announced
<1>1. IInv => Announced
  <2> SUFFICES ASSUME IInv, Idle, ~gone, slow = 0, NEW h \in Handler \ AddedLate,
                      NEW f \in files \cap Accepts[h]
               PROVE  f \in known[h]
    BY DEF Announced
  <2>1. Types /\ HandlerInv /\ AnnounceInv /\ FileTypes /\ h \in Handler
    BY DEF IInv, Types
  <2>2. Plain /\ attached /\ monitor # "read"
    BY <2>1 DEF Plain, Idle, FileTypes
  <2>3. \/ f \in known[h] \/ Trigger("create", h, f) \in scan
        \/ job = Trigger("create", h, f) \/ Coming(h, f, "create")
    BY <2>1, <2>2 DEF AnnounceInv
  <2>4. "create" \in Ops
    BY DEF Ops
  <2> QED BY <2>1, <2>3, <2>4, IdlePipes, OpTypes
<1> QED BY <1>1, Invariance, PTL

\* What has left the directory is unknown when the watcher is idle, unless its
\* OnCreate may have come last, or it was renamed (file_watcher.go:97-126, 240-260).
THEOREM FilesAreWithdrawn == Spec => []Withdrawn
<1>1. IInv => Withdrawn
  <2> SUFFICES ASSUME IInv, Idle, ~gone, slow = 0, NEW h \in Handler, NEW f \in known[h],
                      f \notin files \cup unsure
               PROVE  FALSE
    BY DEF Withdrawn
  <2>1. Types /\ HandlerInv /\ QuietInv /\ WithdrawInv /\ PipeTypes /\ f \in Accepts[h]
    BY DEF IInv, Types, PipeTypes
  <2>2. Plain
    BY DEF Plain, Idle
  <2>3. attached
    BY <2>1, <2>2 DEF QuietInv, Quiet
  <2>4. job = Trigger("remove", h, f) \/ Coming(h, f, "remove")
    BY <2>1, <2>2, <2>3 DEF WithdrawInv
  <2>5. "remove" \in Ops
    BY DEF Ops
  <2> QED BY <2>1, <2>4, <2>5, IdlePipes, OpTypes
<1> QED BY <1>1, Invariance, PTL

=============================================================================

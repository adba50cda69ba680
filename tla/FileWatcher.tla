---------------------------- MODULE FileWatcher ----------------------------
(***************************************************************************)
(* The file watcher (internal/filesystem/file_watcher.go) with one         *)
(* monitored directory.  Three goroutines serve it: monitorPaths adds the  *)
(* watch when the directory is there and announces what it holds,          *)
(* processEvents turns the events of fsnotify into triggers, and           *)
(* dispatchTriggers calls the handlers, one trigger at a time.  They meet  *)
(* on two unbuffered channels, triggerCh and refresh, and share handlerMap *)
(* under a read-write lock.  A fourth goroutine is the caller of Add and   *)
(* Start.                                                                  *)
(*                                                                         *)
(* An unbuffered channel is a joint step of sender and receiver.  Go's     *)
(* RWMutex admits no new reader once a writer waits.  The order in which   *)
(* handlers are served is left open.                                       *)
(***************************************************************************)
EXTENDS Sequences, Integers

CONSTANTS
    Handler, File,      \* handlers, and names in the directory
    Dir, None,          \* the directory's own name, and no value
    Accepts,            \* the names the Filter of each handler lets through
    AddedLate,          \* handlers added after Start
    MaxChanges,         \* bound on the changes to the file system
    MaxSlow             \* bound on callbacks that take longer than 100 ms

EventOps == {"create", "write", "remove", "rename"}
TriggerOps == {"base", "create", "write", "remove"}

ASSUME NameAssumption ==
    /\ Dir \notin File /\ None \notin Handler \cup File \cup {Dir}
    /\ None \notin [op : EventOps, name : File \cup {Dir}]
    /\ None \notin [op : TriggerOps, handler : Handler, name : File \cup {Dir}]
ASSUME HandlerAssumption == AddedLate \subseteq Handler /\ Accepts \in [Handler -> SUBSET File]
ASSUME BoundAssumption == MaxChanges \in Nat /\ MaxSlow \in Nat

VARIABLES
    dir, files,         \* is the directory there, and what is in it?
    gone,               \* has the directory gone at some time? (history)
    unsure,             \* names renamed, or there when the watch was added (history)
    changes,            \* how much of MaxChanges is used
    watched,            \* is the directory in fsnotify's WatchList?
    attached,           \* does the kernel watch the directory that is there?
    inotify,            \* events fsnotify has not read yet
    unread,             \* the event on its channel Events, or None
    handlers, started,  \* the handlers in handlerMap; has Start been called?
    readers, writer,    \* handlerLock: locks held by each reader; the writer
    adding,             \* the handler that Add is at work for, or None
    monitor, scan,      \* monitorPaths: where it is; triggers it has to send
    events, event, found,   \* processEvents: where; its event; triggers to send
    dispatcher, job,    \* dispatchTriggers: where it is; the trigger called
    late,               \* callbacks that were left running
    slow,               \* how much of MaxSlow is used
    stopCh,             \* has it been closed?
    known               \* the files each handler takes for existing

fileSystem == <<dir, files, changes>>
history == <<gone, unsure>>
fsnotify == <<watched, attached, inotify, unread>>
map == <<handlers, started, adding>>
lock == <<readers, writer>>
monitoring == <<monitor, scan>>
processing == <<events, event, found>>
dispatching == <<dispatcher, job, late, slow, known>>
vars == <<fileSystem, history, fsnotify, map, lock, monitoring, processing, dispatching,
          stopCh>>

Event(op, name) == [op |-> op, name |-> name]
Trigger(op, h, name) == [op |-> op, handler |-> h, name |-> name]

------------------------------------------------------------------------------
(* The file system.  The kernel reports what happens while it watches.       *)

Change == changes < MaxChanges /\ changes' = changes + 1

Report(op, name) ==
    inotify' = IF attached THEN Append(inotify, Event(op, name)) ELSE inotify

Elsewhere == <<map, lock, monitoring, processing, dispatching, stopCh>>

MakeDir ==
    /\ ~dir
    /\ Change
    /\ dir' = TRUE
    /\ UNCHANGED <<files, history, fsnotify, Elsewhere>>

\* A directory that goes is empty; its watch goes with it.
RemoveDir ==
    /\ dir /\ files = {}
    /\ Change
    /\ dir' = FALSE
    /\ Report("remove", Dir)
    /\ attached' = FALSE
    /\ gone' = TRUE
    /\ UNCHANGED <<files, unsure, watched, unread, Elsewhere>>

CreateFile(f) ==
    /\ dir /\ f \notin files
    /\ Change
    /\ files' = files \cup {f}
    /\ Report("create", f)
    /\ UNCHANGED <<dir, history, watched, attached, unread, Elsewhere>>

WriteFile(f) ==
    /\ f \in files
    /\ Change
    /\ Report("write", f)
    /\ UNCHANGED <<dir, files, history, watched, attached, unread, Elsewhere>>

RemoveFile(f) ==
    /\ f \in files
    /\ Change
    /\ files' = files \ {f}
    /\ Report("remove", f)
    /\ UNCHANGED <<dir, history, watched, attached, unread, Elsewhere>>

MoveFile(f) ==
    /\ f \in files
    /\ Change
    /\ files' = files \ {f}
    /\ unsure' = unsure \cup {f}
    /\ Report("rename", f)
    /\ UNCHANGED <<dir, gone, watched, attached, unread, Elsewhere>>

\* fsnotify forgets a watch when it reads that its directory has gone, which
\* may be after the directory has come back.
ReadInotify ==
    /\ unread = None
    /\ inotify # << >>
    /\ unread' = Head(inotify)
    /\ inotify' = Tail(inotify)
    /\ watched' = (watched /\ Head(inotify) # Event("remove", Dir))
    /\ UNCHANGED <<fileSystem, history, attached, Elsewhere>>

------------------------------------------------------------------------------
(* Add and Start. *)

CanRead == writer = "none"

AddCall(h) ==
    /\ adding = None
    /\ h \notin handlers
    /\ h \in AddedLate <=> monitor # "none"
    /\ adding' = h
    /\ writer' = "waiting"
    /\ UNCHANGED <<fileSystem, history, fsnotify, handlers, started, readers, monitoring,
                   processing, dispatching, stopCh>>

AddLocks ==
    /\ writer = "waiting"
    /\ \A g \in DOMAIN readers : readers[g] = 0
    /\ writer' = "held"
    /\ handlers' = handlers \cup {adding}
    /\ UNCHANGED <<fileSystem, history, fsnotify, started, adding, readers, monitoring,
                   processing, dispatching, stopCh>>

\* Once started, Add sends on refresh before its deferred unlock.
AddUnlocks ==
    /\ writer = "held"
    /\ IF started
       THEN monitor = "select" /\ monitor' = "manage"
       ELSE UNCHANGED monitor
    /\ writer' = "none"
    /\ adding' = None
    /\ UNCHANGED <<fileSystem, history, fsnotify, handlers, started, readers, scan,
                   processing, dispatching, stopCh>>

Start ==
    /\ monitor = "none"
    /\ adding = None
    /\ handlers = Handler \ AddedLate
    /\ started' = TRUE
    /\ monitor' = "start"
    /\ events' = "select"
    /\ dispatcher' = "select"
    /\ UNCHANGED <<fileSystem, history, fsnotify, handlers, adding, lock, scan, event,
                   found, job, late, slow, known, stopCh>>

Stop ==
    /\ monitor # "none"
    /\ ~stopCh
    /\ stopCh' = TRUE
    /\ UNCHANGED <<fileSystem, history, fsnotify, map, lock, monitoring, processing,
                   dispatching>>

------------------------------------------------------------------------------
(* The channel triggerCh and dispatchTriggers. *)

\* The dispatcher takes a trigger.
Send(t) ==
    /\ dispatcher = "select"
    /\ dispatcher' = "wait"
    /\ job' = t
    /\ UNCHANGED <<late, slow, known>>

\* What a callback tells its handler.
Called(t) ==
    CASE t.op = "create" -> [known EXCEPT ![t.handler] = @ \cup {t.name}]
      [] t.op = "remove" -> [known EXCEPT ![t.handler] = @ \ {t.name}]
      [] OTHER -> known

Alone == <<fileSystem, history, fsnotify, map, lock, monitoring, processing, stopCh>>

CallbackDone ==
    /\ dispatcher = "wait"
    /\ known' = Called(job)
    /\ dispatcher' = "select"
    /\ job' = None
    /\ UNCHANGED <<Alone, late, slow>>

\* After 100 ms the callback is left alone, and runs on.
CallbackTimesOut ==
    /\ dispatcher = "wait"
    /\ slow < MaxSlow
    /\ slow' = slow + 1
    /\ late' = late \cup {[id |-> slow, trigger |-> job]}
    /\ dispatcher' = "select"
    /\ job' = None
    /\ UNCHANGED <<Alone, known>>

LateCallbackDone ==
    /\ \E l \in late : late' = late \ {l} /\ known' = Called(l.trigger)
    /\ UNCHANGED <<Alone, dispatcher, job, slow>>

\* Mutant: stopCh is a case of the inner select alone.
DispatcherEndsLate ==
    /\ dispatcher = "wait"
    /\ stopCh
    /\ dispatcher' = "ended"
    /\ job' = None
    /\ UNCHANGED <<Alone, late, slow, known>>

DispatcherEnds ==
    /\ dispatcher = "select"
    /\ stopCh
    /\ dispatcher' = "ended"
    /\ UNCHANGED <<Alone, job, late, slow, known>>

------------------------------------------------------------------------------
(* monitorPaths and manageWatchers. *)

Outside == <<fileSystem, gone, map, processing, stopCh>>

RLock(g) == CanRead /\ readers' = [readers EXCEPT ![g] = @ + 1]

\* manageWatchers is called with the lock held, if there are handlers.
MonitorStarts ==
    /\ monitor = "start"
    /\ IF handlers # {}
       THEN RLock("monitor") /\ monitor' = "manage"
       ELSE CanRead /\ monitor' = "select" /\ UNCHANGED readers
    /\ UNCHANGED <<Outside, unsure, fsnotify, writer, scan, dispatching>>

\* Mutant: no ticker, paths are looked at on refresh alone.
NoTick == FALSE /\ UNCHANGED vars

Tick ==
    /\ monitor = "select"
    /\ monitor' = "manage"
    /\ UNCHANGED <<Outside, unsure, fsnotify, lock, scan, dispatching>>

\* The watch of a path that has gone is removed, and with it what fsnotify has
\* not read of its events yet.
ManageWatchers ==
    /\ monitor = "manage"
    /\ RLock("monitor")
    /\ IF handlers = {} \/ (dir /\ watched)
       THEN monitor' = "unlock" /\ UNCHANGED <<watched, inotify>>
       ELSE IF dir
            THEN monitor' = "add" /\ UNCHANGED <<watched, inotify>>
            ELSE monitor' = "unlock" /\ watched' = FALSE /\ inotify' = << >>
    /\ UNCHANGED <<Outside, unsure, attached, unread, writer, scan, dispatching>>

\* fsnotify takes no path that does not exist, and none once it is closed.
AddWatch ==
    /\ monitor = "add"
    /\ IF dir /\ events # "ended"
       THEN watched' = TRUE /\ attached' = TRUE /\ monitor' = "read"
       ELSE monitor' = "unlock" /\ UNCHANGED <<watched, attached>>
    /\ UNCHANGED <<Outside, unsure, inotify, unread, lock, scan, dispatching>>

Announcements(h) ==
    {Trigger("base", h, Dir)} \cup {Trigger("create", h, f) : f \in files \cap Accepts[h]}

\* Mutant: what is in the directory already is not announced.
ReadNothing ==
    /\ monitor = "read"
    /\ monitor' = "send"
    /\ scan' = {Trigger("base", h, Dir) : h \in handlers}
    /\ UNCHANGED <<Outside, unsure, fsnotify, lock, dispatching>>

ReadDir ==
    /\ monitor = "read"
    /\ monitor' = "send"
    /\ scan' = UNION {Announcements(h) : h \in handlers}
    /\ unsure' = unsure \cup files
    /\ UNCHANGED <<Outside, fsnotify, lock, dispatching>>

\* A handler hears of the directory first.
SendAnnouncement ==
    /\ monitor = "send"
    /\ \E t \in scan :
        /\ t.op = "create" => Trigger("base", t.handler, Dir) \notin scan
        /\ Send(t)
        /\ scan' = scan \ {t}
    /\ UNCHANGED <<Outside, unsure, fsnotify, lock, monitor>>

\* Mutant: only the lock of manageWatchers itself is given back.
ManageDoneOnce ==
    /\ monitor = "unlock" \/ (monitor = "send" /\ scan = {})
    /\ monitor' = "select"
    /\ readers' = [readers EXCEPT !["monitor"] = @ - 1]
    /\ UNCHANGED <<Outside, unsure, fsnotify, writer, scan, dispatching>>

\* The deferred unlocks, that of the first call included.
ManageDone ==
    /\ monitor = "unlock" \/ (monitor = "send" /\ scan = {})
    /\ monitor' = "select"
    /\ readers' = [readers EXCEPT !["monitor"] = 0]
    /\ UNCHANGED <<Outside, unsure, fsnotify, writer, scan, dispatching>>

MonitorEnds ==
    /\ monitor = "select"
    /\ stopCh
    /\ monitor' = "ended"
    /\ UNCHANGED <<Outside, unsure, fsnotify, lock, scan, dispatching>>

------------------------------------------------------------------------------
(* processEvents. *)

Besides == <<fileSystem, history, handlers, adding, stopCh>>

Receive ==
    /\ events = "select"
    /\ unread # None
    /\ events' = "filter"
    /\ event' = unread
    /\ unread' = None
    /\ UNCHANGED <<Besides, started, watched, attached, inotify, lock,
                   monitoring, found, dispatching>>

\* Mutant: only names that exist pass the filters.
FilterExisting ==
    /\ events = "filter"
    /\ CanRead
    /\ found' = {Trigger(event.op, h, event.name) :
                    h \in {g \in handlers : event.name \in files \cap Accepts[g]}}
    /\ events' = "send"
    /\ UNCHANGED <<Besides, started, fsnotify, lock, monitoring, event, dispatching>>

\* The handlers that want the event, found under the lock.  Of the operations
\* fsnotify reports, a rename has no case.
FilterHandlers ==
    /\ events = "filter"
    /\ CanRead
    /\ found' = IF event.op = "rename" THEN {}
                ELSE {Trigger(event.op, h, event.name) :
                         h \in {g \in handlers : event.name \in Accepts[g]}}
    /\ events' = "send"
    /\ UNCHANGED <<Besides, started, fsnotify, lock, monitoring, event, dispatching>>

SendTrigger ==
    /\ events = "send"
    /\ \E t \in found : Send(t) /\ found' = found \ {t}
    /\ UNCHANGED <<Besides, started, fsnotify, lock, monitoring, events, event>>

\* After a removal handlerMap is searched for the path, under the lock, which
\* is kept while refresh is sent.
TriggersSent ==
    /\ events = "send"
    /\ found = {}
    /\ event' = None
    /\ IF event.op = "remove" /\ event.name = Dir /\ handlers # {}
       THEN RLock("events") /\ events' = "refresh"
       ELSE /\ event.op = "remove" => CanRead
            /\ events' = "select"
            /\ UNCHANGED readers
    /\ UNCHANGED <<Besides, started, fsnotify, writer, monitoring, found, dispatching>>

Refresh ==
    /\ events = "refresh"
    /\ monitor = "select"
    /\ monitor' = "manage"
    /\ events' = "select"
    /\ readers' = [readers EXCEPT !["events"] = 0]
    /\ UNCHANGED <<Besides, started, fsnotify, writer, scan, event, found, dispatching>>

\* The watcher is closed.
EventsEnd ==
    /\ events = "select"
    /\ stopCh
    /\ events' = "ended"
    /\ started' = FALSE
    /\ watched' = FALSE /\ attached' = FALSE
    /\ inotify' = << >> /\ unread' = None
    /\ UNCHANGED <<Besides, lock, monitoring, event, found, dispatching>>

------------------------------------------------------------------------------
Init ==
    /\ dir \in BOOLEAN /\ files = {} /\ changes = 0
    /\ gone = FALSE /\ unsure = {}
    /\ watched = FALSE /\ attached = FALSE
    /\ inotify = << >> /\ unread = None
    /\ handlers = {} /\ started = FALSE /\ adding = None
    /\ readers = [g \in {"monitor", "events"} |-> 0] /\ writer = "none"
    /\ monitor = "none" /\ scan = {}
    /\ events = "none" /\ event = None /\ found = {}
    /\ dispatcher = "none" /\ job = None /\ late = {} /\ slow = 0
    /\ stopCh = FALSE
    /\ known = [h \in Handler |-> {}]

FileSystem ==
    \/ MakeDir \/ RemoveDir
    \/ \E f \in File : CreateFile(f) \/ WriteFile(f) \/ RemoveFile(f) \/ MoveFile(f)

Caller == (\E h \in Handler : AddCall(h)) \/ AddLocks \/ AddUnlocks \/ Start

Monitor ==
    \/ MonitorStarts \/ Tick \/ ManageWatchers \/ AddWatch \/ ReadDir
    \/ SendAnnouncement \/ ManageDone

Events == Receive \/ FilterHandlers \/ SendTrigger \/ TriggersSent

Dispatcher == CallbackDone \/ DispatcherEnds

Next ==
    \/ FileSystem \/ ReadInotify \/ Caller \/ Stop
    \/ Monitor \/ MonitorEnds
    \/ Events \/ Refresh \/ EventsEnd
    \/ Dispatcher \/ CallbackTimesOut \/ LateCallbackDone

(***************************************************************************)
(* Every goroutine goes on when it can, and callbacks return.  A sender on *)
(* refresh waits in line while monitorPaths comes to its select again and  *)
(* again, and select picks at random among the ready: strong fairness.     *)
(* Nothing makes files change, callbacks slow, or the watcher stop.        *)
(***************************************************************************)
Fairness ==
    /\ WF_vars(ReadInotify) /\ WF_vars(Caller)
    /\ WF_vars(Monitor) /\ WF_vars(Events) /\ SF_vars(Refresh)
    /\ WF_vars(Dispatcher) /\ WF_vars(LateCallbackDone)

Spec == Init /\ [][Next]_vars /\ Fairness

------------------------------------------------------------------------------
(* Properties. *)

Where == {"select", "ended"}

\* The values the variables take, where a goroutine holds locks only in the
\* places the code holds them.
TypeOK ==
    /\ dir \in BOOLEAN /\ files \in SUBSET File /\ unsure \in SUBSET File /\ gone \in BOOLEAN
    /\ files # {} => dir
    /\ changes \in 0..MaxChanges /\ slow \in 0..MaxSlow
    /\ watched \in BOOLEAN /\ attached \in BOOLEAN
    /\ attached => dir /\ watched
    /\ handlers \in SUBSET Handler /\ started \in BOOLEAN
    /\ adding \in Handler \cup {None}
    /\ writer \in {"none", "waiting", "held"}
    /\ adding # None <=> writer # "none"
    /\ monitor \in {"none", "start", "manage", "add", "read", "send", "unlock"} \cup Where
    /\ events \in {"none", "filter", "send", "refresh"} \cup Where
    /\ dispatcher \in {"none", "wait"} \cup Where
    /\ readers["monitor"] \in
           CASE monitor \in {"none", "start"} \cup Where -> {0}
             [] monitor = "manage" -> {0, 1}
             [] OTHER -> {1, 2}
    /\ readers["events"] = IF events = "refresh" THEN 1 ELSE 0
    /\ job # None <=> dispatcher = "wait"
    /\ event # None <=> events \in {"filter", "send"}
    /\ stopCh \in BOOLEAN
    /\ known \in [Handler -> SUBSET File]

\* Everything that happened has been dealt with.
Idle ==
    /\ inotify = << >> /\ unread = None
    /\ monitor = "select" /\ events = "select" /\ dispatcher = "select"
    /\ late = {}
    /\ watched = dir /\ attached = dir

\* No goroutine waits for ever on another, through the lock or the channels
\* (file_watcher.go:128-132, 177-198, 240-250), as long as handlers are added
\* before Start; and a directory that exists comes to be watched, also if it
\* went and came back before fsnotify had read that it went (200-238): the
\* watcher always gets to the end of what it has to do, however files come and
\* go and callbacks drag on.
Settles == []<>Idle \/ <>stopCh

\* A file that exists is known to every handler that accepts it, and was added
\* before Start, when the watcher is idle, whether it was created before Start, before the watch was added,
\* or while the directory was read (file_watcher.go:226-260); unless the
\* directory has gone, whose events may arrive after the announcement of its
\* return, or a slow callback was overtaken by the next.
Announced ==
    Idle /\ ~gone /\ slow = 0 =>
        \A h \in Handler \ AddedLate : files \cap Accepts[h] \subseteq known[h]

\* A file that has been removed is known to no handler when the watcher is idle,
\* under the same conditions; and unless it was renamed, for which
\* processEvents has no case, or there when the directory was read: then
\* its OnCreate may come after its OnRemove.
Withdrawn ==
    Idle /\ ~gone /\ slow = 0 =>
        \A h \in Handler : known[h] \subseteq files \cup unsure

\* Once the watcher is stopped no callback is started any more, whatever the
\* other goroutines have left to send (file_watcher.go:164-167).
Silent == stopCh ~> dispatcher = "ended"

\* Add returns, also when the watcher runs already (file_watcher.go:264-280),
\* unless it is stopped meanwhile.
AddReturns == \A h \in Handler : adding = h ~> adding # h \/ stopCh

=============================================================================

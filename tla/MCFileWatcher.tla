--------------------------- MODULE MCFileWatcher ---------------------------
(***************************************************************************)
(* FileWatcher with a handler added before Start and, in watcher_late_add, *)
(* another that is added to the same path after it, as the test does.      *)
(***************************************************************************)
EXTENDS FileWatcher

CONSTANTS h1, h2, f1

MCAccepts == [h \in Handler |-> {f1}]

MCAddedLate == {h2}

=============================================================================

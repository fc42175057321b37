--------------------------- MODULE Configuration ---------------------------
(***************************************************************************)
(* The configuration manager (src/internal/config/config.go, watcher.go):  *)
(* Load at the start of a command, the snapshot Get hands out, and the     *)
(* watcher that reloads the file when it changes.  Files is what may be in *)
(* the file; a content is named by its index and 0 is no file at all.  A   *)
(* file that is not YAML has "yaml" among its malformed parts.             *)
(*                                                                         *)
(* No command starts the watcher today; the manager offers it.             *)
(***************************************************************************)
EXTENDS ConfigRules

CONSTANTS
  Files,      \* the contents the file may have
  EnvOnly     \* the index of what defaults and environment alone amount to

ASSUME FilesAssumption ==
  /\ Files \in Seq({Files[i] : i \in DOMAIN Files})
  /\ EnvOnly \in DOMAIN Files /\ \A i \in DOMAIN Files : IsConfig(Files[i])

\* What the file may hold: a content, or 0.
Contents == 0..Len(Files)

VARIABLES
  file,     \* what the file holds, or 0
  mgr       \* the server's manager and its watcher

\* ReadInConfig and Unmarshal, then Validate.
Parses == [i \in DOMAIN Files |-> "yaml" \notin Files[i].malformed]

Accepted == [i \in DOMAIN Files |-> Parses[i] /\ Valid(Files[i])]

NoManager == [explicit |-> FALSE, current |-> 0, watch |-> "off", event |-> FALSE,
              timer |-> FALSE, tries |-> 0, read |-> 0, missed |-> FALSE,
              stopping |-> FALSE]

ConfigInit ==
  /\ file \in Contents
  /\ mgr = NoManager

\* What a command reads: with --config a missing file is an error, without it
\* the defaults and the environment are all there is.
ReadBy(explicit) ==
  IF file = 0 THEN (IF explicit THEN {} ELSE {EnvOnly})
  ELSE IF Parses[file] THEN {file} ELSE {}

\* Load: the configuration it makes current, if any.
Load(explicit) == {i \in ReadBy(explicit) : Accepted[i]}

-----------------------------------------------------------------------------
\* WatchConfig needs a file given by --config and a manager that is not stopped.
\* What was written since Load is not noticed.
WatchConfig ==
  /\ mgr.current # 0 /\ mgr.explicit /\ mgr.watch = "off" /\ ~mgr.stopping
  /\ mgr' = [mgr EXCEPT !.watch = "idle", !.missed = file # mgr.current]
  /\ UNCHANGED file

\* Mutant: a file that reappears is not relevant, only one that is written to.
WritesOnly(i) ==
  /\ i # file
  /\ file' = i
  /\ mgr' = IF mgr.watch \in {"off", "stopped"} \/ file = 0 \/ i = 0 THEN mgr
            ELSE [mgr EXCEPT !.event = TRUE, !.missed = FALSE]

\* The file is written, replaced, moved away or removed.  fsnotify reports what
\* happens in its directory, and a removal is not relevant.
Edit(i) ==
  /\ i # file
  /\ file' = i
  /\ \E moved \in BOOLEAN :
       mgr' = IF mgr.watch \in {"off", "stopped"} \/ (i = 0 /\ ~moved) THEN mgr
              ELSE [mgr EXCEPT !.event = TRUE, !.missed = FALSE]

\* An event (re)starts the 200 ms timer; events wait while a reload runs.
TakeEvent ==
  /\ mgr.watch = "idle" /\ mgr.event
  /\ mgr' = [mgr EXCEPT !.event = FALSE, !.timer = TRUE]
  /\ UNCHANGED file

TimerFires ==
  /\ mgr.watch = "idle" /\ mgr.timer /\ ~mgr.stopping
  /\ mgr' = [mgr EXCEPT !.watch = "reading", !.timer = FALSE, !.tries = 0]
  /\ UNCHANGED file

\* Mutant: the tries of one reload are counted up to one more.
ReloadOnceMore ==
  /\ mgr.watch = "reading"
  /\ mgr' = IF file = 0 /\ mgr.tries < 4 THEN [mgr EXCEPT !.tries = @ + 1]
            ELSE IF ReadBy(TRUE) = {} THEN [mgr EXCEPT !.watch = "idle", !.tries = 0]
            ELSE [mgr EXCEPT !.watch = "publishing", !.read = file, !.tries = 0]
  /\ UNCHANGED file

\* reloadFromDiskWithRetry: only a file that is not there is tried again, three
\* times; anything else that cannot be read leaves the old configuration.
ReloadReads ==
  /\ mgr.watch = "reading"
  /\ mgr' = IF file = 0 /\ mgr.tries < 3 THEN [mgr EXCEPT !.tries = @ + 1]
            ELSE IF ReadBy(TRUE) = {} THEN [mgr EXCEPT !.watch = "idle", !.tries = 0]
            ELSE [mgr EXCEPT !.watch = "publishing", !.read = file, !.tries = 0]
  /\ UNCHANGED file

\* Validate, then the new configuration is current and the callbacks run.
Publish ==
  /\ mgr.watch = "publishing"
  /\ mgr' = [mgr EXCEPT !.watch = "idle", !.read = 0,
                        !.current = IF Accepted[mgr.read] THEN mgr.read ELSE @]
  /\ UNCHANGED file

\* Stop closes stopCh; the watcher sees it between two turns of its loop, when
\* a reload it was in is over.
Stopped(m) == [m EXCEPT !.stopping = TRUE]

SeeStop ==
  /\ mgr.watch = "idle" /\ mgr.stopping
  /\ mgr' = [mgr EXCEPT !.watch = "stopped", !.event = FALSE, !.timer = FALSE]
  /\ UNCHANGED file

WatcherStep == TakeEvent \/ TimerFires \/ ReloadReads \/ Publish \/ SeeStop

-----------------------------------------------------------------------------
\* A reload reads the file at most four times.
Tries == 0..3

Managers ==
  [explicit : BOOLEAN, current : Contents, read : Contents,
   watch : {"off", "idle", "reading", "publishing", "stopped"}, tries : Tries,
   event : BOOLEAN, timer : BOOLEAN, missed : BOOLEAN, stopping : BOOLEAN]

ManagerTypes == file \in Contents /\ mgr \in Managers

\* The watcher runs and the file holds an acceptable configuration, written
\* since it started, that is not current.
Behind ==
  /\ mgr.watch \notin {"off", "stopped"} /\ ~mgr.stopping /\ ~mgr.missed
  /\ file # 0 /\ Accepted[file] /\ file # mgr.current
=============================================================================

------------------------------ MODULE AuditLog ------------------------------
(***************************************************************************)
(* The audit log of logger.go: how its file is found at start-up, reopened *)
(* after a rotation and closed, and what becomes of the events that calls  *)
(* log meanwhile.  LogAuditEvent looks at the logger before it takes the   *)
(* mutex, so anything may happen to the file between the look and the      *)
(* write.  The renaming of the file by logrotate is the environment's.     *)
(*                                                                         *)
(* A file is a number given in the order of creation, whatever path it is  *)
(* later found at; 0 stands for no file, and for stderr as a destination.  *)
(***************************************************************************)
EXTENDS Naturals, FiniteSets

CONSTANTS
  Events,    \* events the router logs, once each
  MaxFiles   \* bound on the number of files ever created

ASSUME LogAssumption == MaxFiles \in Nat \ {0}

Paths == {"primary", "fallback"}
Files == 1..MaxFiles
Stderr == 0

VARIABLES
  logPath,   \* AuditLogger.logPath, "none" while globalAuditLogger is nil
  logFile,   \* AuditLogger.logFile: the file the descriptor is for, 0 for nil
  fdOpen,    \* the descriptor has not been closed
  dir,       \* the file found at each path, 0 when there is none
  created,   \* files created so far
  stage,     \* where LogAuditEvent stands for each event
  records,   \* history: the places each event was written to
  rotated    \* history: the logger's file was renamed since it was opened

fileVars == <<logPath, logFile, fdOpen, dir, created, rotated>>
auditVars == <<logPath, logFile, fdOpen, dir, created, stage, records, rotated>>

-----------------------------------------------------------------------------
(* os.OpenFile with O_APPEND|O_CREATE: the file at the path, or a new one. *)
CanOpen(path) == dir[path] # 0 \/ created < MaxFiles

FileAt(path) == IF dir[path] # 0 THEN dir[path] ELSE created + 1

OpenFile(path) ==
  /\ CanOpen(path)
  /\ logFile' = FileAt(path)
  /\ fdOpen' = TRUE
  /\ dir' = [dir EXCEPT ![path] = FileAt(path)]
  /\ created' = IF dir[path] # 0 THEN created ELSE created + 1
  /\ UNCHANGED records
  /\ rotated' = FALSE

\* initAuditLoggerFromConfig: the primary path, else the fallback, else no
\* logger.  (When the configuration requires the log, the last case ends the
\* process before there is anything to model.)
AuditInit ==
  \E path \in Paths \cup {"none"} :
    LET opened == path # "none" IN
    /\ logPath = path
    /\ logFile = IF opened THEN 1 ELSE 0
    /\ fdOpen = opened
    /\ dir = [p \in Paths |-> IF p = path THEN 1 ELSE 0]
    /\ created = IF opened THEN 1 ELSE 0
    /\ stage = [e \in Events |-> "idle"]
    /\ records = {}
    /\ rotated = FALSE

(***************************************************************************)
(* LogAuditEvent: the look at the logger, without the mutex, and the write *)
(* under it.                                                               *)
(***************************************************************************)
Advance(e, s) == stage' = [stage EXCEPT ![e] = s]

WriteTo(e, place) == records' = records \cup {<<e, place>>}

\* The fail-safe: no logger, or no file.
LogFailsafe(e) ==
  /\ stage[e] = "idle"
  /\ logPath = "none" \/ logFile = 0
  /\ Advance(e, "logged")
  /\ WriteTo(e, Stderr)
  /\ UNCHANGED fileVars

LogBegin(e) ==
  /\ stage[e] = "idle"
  /\ logPath # "none" /\ logFile # 0
  /\ Advance(e, "locking")
  /\ UNCHANGED <<fileVars, records>>

\* Mutant of LogWrite: a failed write is not echoed.
LogWriteSilent(e) ==
  /\ stage[e] = "locking"
  /\ Advance(e, "logged")
  /\ IF fdOpen THEN WriteTo(e, logFile) ELSE UNCHANGED records
  /\ UNCHANGED fileVars

\* A nil or closed descriptor makes Write fail, as a full disk may; the event
\* then goes to stderr with the error.
LogWrite(e) ==
  /\ stage[e] = "locking"
  /\ Advance(e, "logged")
  /\ \/ fdOpen /\ WriteTo(e, logFile)
     \/ WriteTo(e, Stderr)
  /\ UNCHANGED fileVars

LogStep(e) == LogFailsafe(e) \/ LogBegin(e) \/ LogWrite(e)

(***************************************************************************)
(* Reopen, Close, and the rotation.                                        *)
(***************************************************************************)
\* Mutant of ReopenPath: the configured path, also in fallback mode.
ReopenPrimary == "primary"

ReopenPath == logPath

ReopenSucceeds ==
  /\ logPath # "none"
  /\ OpenFile(ReopenPath)
  /\ UNCHANGED <<logPath, stage>>

\* The old descriptor is closed before the file is opened again: when that
\* fails, the logger keeps a closed one.
ReopenFails ==
  /\ logPath # "none"
  /\ fdOpen' = FALSE
  /\ UNCHANGED <<logPath, logFile, dir, created, stage, records, rotated>>

Reopen == ReopenSucceeds \/ ReopenFails

\* Mutant of CloseLog: the file is forgotten with its descriptor open.
CloseLogLeaks ==
  /\ logPath # "none"
  /\ logFile' = 0
  /\ UNCHANGED <<logPath, fdOpen, dir, created, stage, records, rotated>>

CloseLog ==
  /\ logPath # "none"
  /\ logFile' = 0
  /\ fdOpen' = FALSE
  /\ UNCHANGED <<logPath, dir, created, stage, records, rotated>>

\* logrotate renames the file at the logger's path, and puts a new one in its
\* place when it is told to.
Rotate(create) ==
  /\ logPath # "none" /\ dir[logPath] # 0
  /\ create => created < MaxFiles
  /\ dir' = [dir EXCEPT ![logPath] = IF create THEN created + 1 ELSE 0]
  /\ created' = IF create THEN created + 1 ELSE created
  /\ rotated' = TRUE
  /\ UNCHANGED <<logPath, logFile, fdOpen, stage, records>>

AuditNext ==
  \/ \E e \in Events : LogStep(e)
  \/ Reopen \/ CloseLog
  \/ \E create \in BOOLEAN : Rotate(create)

AuditSpec == AuditInit /\ [][AuditNext]_auditVars

-----------------------------------------------------------------------------
AuditTypeOK ==
  /\ logPath \in Paths \cup {"none"}
  /\ logFile \in Files \cup {0}
  /\ fdOpen \in BOOLEAN /\ (fdOpen => logFile # 0)
  /\ dir \in [Paths -> Files \cup {0}]
  /\ created \in Files \cup {0}
  /\ stage \in [Events -> {"idle", "locking", "logged"}]
  /\ records \subseteq Events \X (Files \cup {Stderr})
  /\ rotated \in BOOLEAN

Recorded(e) == \E r \in records : r[1] = e

\* "Events are never lost" (the comment of InitAuditLoggerWithFallback): once
\* LogAuditEvent has returned, the event is in one place, a file or stderr,
\* and stays there, whatever fails, is closed or is reopened around it.
EventsKept ==
  \A e \in Events :
    /\ stage[e] = "logged" <=> Recorded(e)
    /\ \A r, s \in records : r[1] = e /\ s[1] = e => r = s

\* After a reload that reopened the log, events go to the file that is at the
\* logger's own path, the fallback's in fallback mode, until it is rotated again.
RotationHonoured ==
  fdOpen /\ ~rotated => logFile = dir[logPath]
=============================================================================

--------------------------- MODULE AuditLogProofs ---------------------------
(***************************************************************************)
(* Proofs about AuditLog, for any number of events and of files.           *)
(***************************************************************************)
EXTENDS AuditLog, TLAPS

\* An event that is not logged has no record, so that logging it makes one.
LogInv == AuditTypeOK /\ EventsKept /\ RotationHonoured

\* Without a logger there is no file.
NoLogger == logPath = "none" => logFile = 0 /\ ~fdOpen

AuditInv == LogInv /\ NoLogger

-----------------------------------------------------------------------------
LEMMA AuditInvInit == AuditInit => AuditInv
<1> SUFFICES ASSUME AuditInit PROVE AuditInv
  OBVIOUS
<1>1. AuditTypeOK
  <2>1. PICK path \in Paths \cup {"none"} :
          /\ logPath = path
          /\ logFile = IF path # "none" THEN 1 ELSE 0
          /\ fdOpen = (path # "none")
          /\ dir = [p \in Paths |-> IF p = path THEN 1 ELSE 0]
          /\ created = IF path # "none" THEN 1 ELSE 0
          /\ stage = [e \in Events |-> "idle"]
          /\ records = {} /\ rotated = FALSE
    BY DEF AuditInit
  <2>2. 1 \in Files
    BY LogAssumption DEF Files
  <2>3. /\ logFile \in Files \cup {0} /\ created \in Files \cup {0}
        /\ dir \in [Paths -> Files \cup {0}]
    BY <2>1, <2>2
  <2>4. fdOpen \in BOOLEAN
    BY <2>1
  <2>5. fdOpen => logFile # 0
    <3>1. CASE path = "none"
      <4>1. ~fdOpen
        BY <2>1, <3>1
      <4> QED BY <4>1
    <3>2. CASE path # "none"
      <4>1. logFile = 1
        BY <2>1, <3>2
      <4> QED BY <4>1
    <3> QED BY <3>1, <3>2
  <2>6. /\ stage \in [Events -> {"idle", "locking", "logged"}]
        /\ records \subseteq Events \X (Files \cup {Stderr})
        /\ rotated \in BOOLEAN
    BY <2>1
  <2> QED BY <2>1, <2>3, <2>4, <2>5, <2>6 DEF AuditTypeOK
<1>2. EventsKept
  BY DEF AuditInit, EventsKept, Recorded
<1>3. RotationHonoured /\ NoLogger
  BY DEF AuditInit, RotationHonoured, NoLogger, Paths
<1> QED BY <1>1, <1>2, <1>3 DEF AuditInv, LogInv

\* Writing an event that has no record leaves it with exactly one.
LEMMA WriteKeeps ==
  ASSUME AuditTypeOK, EventsKept, NEW e \in Events, stage[e] # "logged",
         Advance(e, "logged"), NEW place, WriteTo(e, place)
  PROVE  EventsKept'
<1>1. ~Recorded(e)
  BY DEF EventsKept
<1>2. \A r \in records' : r \in records \/ r = <<e, place>>
  BY DEF WriteTo
<1>3. \A r \in records : r \in records' /\ r[1] # e
  BY <1>1 DEF WriteTo, Recorded
<1>4. <<e, place>> \in records'
  BY DEF WriteTo
<1>5. /\ stage'[e] = "logged"
      /\ \A d \in Events : d # e => stage'[d] = stage[d]
  BY DEF Advance, AuditTypeOK
<1> SUFFICES ASSUME NEW d \in Events
             PROVE  /\ stage'[d] = "logged" <=> Recorded(d)'
                    /\ \A r, s \in records' : r[1] = d /\ s[1] = d => r = s
  BY DEF EventsKept
<1>6. CASE d = e
  <2>1. Recorded(d)'
    BY <1>4, <1>6 DEF Recorded
  <2> QED BY <2>1, <1>2, <1>3, <1>5, <1>6
<1>7. CASE d # e
  <2>1. Recorded(d)' <=> Recorded(d)
    BY <1>2, <1>3, <1>7 DEF Recorded
  <2>2. \A r, s \in records : r[1] = d /\ s[1] = d => r = s
    BY DEF EventsKept
  <2> QED BY <2>1, <2>2, <1>2, <1>5, <1>7 DEF EventsKept
<1> QED BY <1>6, <1>7

LEMMA LogStepKeeps ==
  ASSUME AuditInv, NEW e \in Events, LogStep(e)
  PROVE  AuditInv'
<1> USE DEF AuditInv, LogInv
<1>1. fileVars' = fileVars
  BY DEF LogStep, LogFailsafe, LogBegin, LogWrite
<1>2. RotationHonoured' /\ NoLogger'
  BY <1>1 DEF fileVars, RotationHonoured, NoLogger
<1>3. ASSUME NEW place \in Files \cup {Stderr}, stage[e] # "logged",
             Advance(e, "logged"), WriteTo(e, place)
      PROVE  AuditInv'
  <2>1. EventsKept'
    BY <1>3, WriteKeeps
  <2>2. AuditTypeOK'
    BY <1>1, <1>3 DEF fileVars, Advance, WriteTo, AuditTypeOK
  <2> QED BY <2>1, <2>2, <1>2
<1>4. CASE LogFailsafe(e)
  BY <1>3, <1>4 DEF LogFailsafe
<1>5. CASE LogBegin(e)
  <2>1. AuditTypeOK'
    BY <1>1, <1>5 DEF fileVars, LogBegin, Advance, AuditTypeOK
  <2>2. EventsKept'
    BY <1>5 DEF LogBegin, Advance, AuditTypeOK, EventsKept, Recorded
  <2> QED BY <2>1, <2>2, <1>2
<1>6. CASE LogWrite(e)
  <2>1. fdOpen => logFile \in Files
    BY DEF AuditTypeOK
  <2> QED BY <2>1, <1>3, <1>6 DEF LogWrite
<1> QED BY <1>4, <1>5, <1>6 DEF LogStep

\* What is done to the file keeps every record where it is.
LEMMA FileStepKeeps ==
  ASSUME AuditInv, Reopen \/ CloseLog \/ \E create \in BOOLEAN : Rotate(create)
  PROVE  AuditInv'
<1> USE LogAssumption DEF AuditInv, LogInv
<1>1. stage' = stage /\ records' = records
  BY DEF Reopen, ReopenSucceeds, ReopenFails, OpenFile, CloseLog, Rotate
<1>2. EventsKept'
  BY <1>1 DEF EventsKept, Recorded
<1>3. CASE ReopenSucceeds
  <2>1. logPath \in Paths /\ logPath' = logPath
    BY <1>3 DEF ReopenSucceeds, AuditTypeOK
  <2>2. FileAt(logPath) \in Files
    BY <1>3, <2>1 DEF ReopenSucceeds, ReopenPath, OpenFile, CanOpen, FileAt, AuditTypeOK, Files
  <2>3. /\ logFile' = FileAt(logPath) /\ fdOpen' = TRUE /\ rotated' = FALSE
        /\ dir' = [dir EXCEPT ![logPath] = FileAt(logPath)]
        /\ created' \in {created, created + 1}
        /\ created' \in Files \cup {0}
    BY <1>3, <2>1 DEF ReopenSucceeds, ReopenPath, OpenFile, CanOpen, AuditTypeOK, Files
  <2>4. AuditTypeOK'
    <3>1. dir' \in [Paths -> Files \cup {0}]
      BY <2>2, <2>3 DEF AuditTypeOK
    <3>2. logFile' \in Files
      BY <2>2, <2>3
    <3>3. logFile' # 0
      BY <3>2 DEF Files
    <3>4. fdOpen' \in BOOLEAN /\ rotated' \in BOOLEAN
      BY <2>3
    <3> QED BY <1>1, <2>1, <2>3, <3>1, <3>2, <3>3, <3>4 DEF AuditTypeOK
  <2>5. RotationHonoured' /\ NoLogger'
    BY <2>1, <2>3 DEF RotationHonoured, NoLogger, AuditTypeOK, Paths
  <2> QED BY <1>2, <2>4, <2>5
<1>4. CASE ReopenFails \/ CloseLog
  <2>1. AuditTypeOK'
    BY <1>4 DEF ReopenFails, CloseLog, AuditTypeOK
  <2>2. RotationHonoured' /\ NoLogger'
    BY <1>4 DEF ReopenFails, CloseLog, RotationHonoured, NoLogger
  <2> QED BY <1>2, <2>1, <2>2
<1>5. ASSUME NEW create \in BOOLEAN, Rotate(create)
      PROVE  AuditInv'
  <2>1. /\ created' \in Files \cup {0}
        /\ dir' \in [Paths -> Files \cup {0}]
    BY <1>5 DEF Rotate, AuditTypeOK, Files
  <2>2. AuditTypeOK'
    BY <1>5, <2>1 DEF Rotate, AuditTypeOK
  <2>3. RotationHonoured' /\ NoLogger'
    BY <1>5 DEF Rotate, RotationHonoured, NoLogger
  <2> QED BY <1>2, <2>2, <2>3
<1> QED BY <1>3, <1>4, <1>5 DEF Reopen

LEMMA AuditInvStep == AuditInv /\ [AuditNext]_auditVars => AuditInv'
<1> SUFFICES ASSUME AuditInv, [AuditNext]_auditVars PROVE AuditInv'
  OBVIOUS
<1>1. CASE UNCHANGED auditVars
  BY <1>1 DEF auditVars, AuditInv, LogInv, AuditTypeOK, EventsKept, Recorded,
              RotationHonoured, NoLogger
<1>2. CASE AuditNext
  BY <1>2, LogStepKeeps, FileStepKeeps DEF AuditNext
<1> QED BY <1>1, <1>2

\* The log on its own, with operations in any order, loses and duplicates no
\* event, and writes to the file at its own path.
THEOREM AuditLogSafe == AuditSpec => [](EventsKept /\ RotationHonoured)
<1>1. AuditInv => EventsKept /\ RotationHonoured
  BY DEF AuditInv, LogInv
<1> QED BY <1>1, AuditInvInit, AuditInvStep, PTL DEF AuditSpec
=============================================================================

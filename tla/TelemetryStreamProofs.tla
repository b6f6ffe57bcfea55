------------------------ MODULE TelemetryStreamProofs ------------------------
(***************************************************************************)
(* Theorems about TelemetryStream, for every fsync interval and every      *)
(* bound.                                                                  *)
(***************************************************************************)
EXTENDS TelemetryStream, SequenceTheorems, TLAPS

-----------------------------------------------------------------------------
(* Type correctness.                                                        *)

(* Records a call can be asked to write. *)
LEMMA EmittedRecord ==
    ASSUME TypeOK, NEW kind \in Kinds, NEW e \in elapsed .. MaxElapsed,
           NEW g \in Nat \cup {NoProgress}
    PROVE  NewRecord(kind, e, g) \in Records
BY StreamConstants DEF TypeOK, NewRecord, NextSequence, Records, Kinds

LEMMA FileFacts ==
    ASSUME TypeOK
    PROVE  /\ Len(file) \in Nat
           /\ DOMAIN file = 1 .. Len(file)
           /\ \A i \in 1 .. Len(file) : file[i] \in Records
BY LenProperties, ElementOfSeq DEF TypeOK

LEMMA AppendFacts ==
    ASSUME TypeOK
    PROVE  /\ Append(file, rec) \in Seq(Records)
           /\ Len(Append(file, rec)) = Len(file) + 1
           /\ \A i \in 1 .. Len(file) : Append(file, rec)[i] = file[i]
           /\ Append(file, rec)[Len(file) + 1] = rec
BY AppendProperties DEF TypeOK

(* What a loss of power leaves of the file. *)
LEMMA PrefixFacts ==
    ASSUME TypeOK, NEW n \in 0 .. Len(file)
    PROVE  /\ SubSeq(file, 1, n) \in Seq(Records)
           /\ Len(SubSeq(file, 1, n)) = n
           /\ \A i \in 1 .. n : SubSeq(file, 1, n)[i] = file[i]
<1>1. Len(file) \in Nat /\ \A i \in 1 .. n : file[i] \in Records
  BY FileFacts
<1>2. /\ SubSeq(file, 1, n) \in Seq(Records)
      /\ Len(SubSeq(file, 1, n)) = IF 1 <= n THEN n - 1 + 1 ELSE 0
      /\ \A i \in 1 .. n - 1 + 1 : SubSeq(file, 1, n)[i] = file[1 + i - 1]
  BY <1>1, SubSeqProperties
<1> QED  BY <1>1, <1>2

LEMMA TypeInit == Init => TypeOK
<1> SUFFICES ASSUME Init PROVE TypeOK
  OBVIOUS
<1>1. file \in Seq(Records)
  BY EmptySeq DEF Init
<1>2. rec \in Records
  BY DEF Init, Records, Kinds
<1> QED  BY <1>1, <1>2 DEF Init, TypeOK, Phases, ApiCalls

LEMMA TypeStep == TypeOK /\ [Next]_vars => TypeOK'
<1> SUFFICES ASSUME TypeOK, [Next]_vars
             PROVE  TypeOK'
  OBVIOUS
<1> USE DEF TypeOK, disk, clocks, flags, acks, Phases, ApiCalls
<1> rec.seq \in Nat /\ rec.elapsed \in Nat /\ rec.progress \in Nat \cup {NoProgress}
  BY DEF Records
<1>1. CASE Open
  <2>1. file' \in Seq(Records)
    BY <1>1, EmptySeq DEF Open
  <2>2. rec' \in Records
    BY <1>1 DEF Open, Records, Kinds
  <2> QED  BY <1>1, <2>1, <2>2 DEF Open
<1>2. CASE Close
  <2>1. PICK e \in elapsed .. MaxElapsed : rec' = NewRecord("closed", e, NoProgress)
    BY <1>2 DEF Close, Write
  <2>2. rec' \in Records
    BY <2>1, EmittedRecord DEF Kinds
  <2> QED  BY <1>2, <2>2 DEF Close, Write
<1>3. CASE CloseFails \/ CloseFailed \/ ClockFails
  BY <1>3 DEF CloseFails, CloseFailed, ClockFails, Usable
<1>4. CASE Flush
  <2>1. durable' \in Nat
    BY <1>4, FileFacts DEF Flush
  <2>2. failed' \in BOOLEAN
    BY <1>4 DEF Flush
  <2> QED  BY <1>4, <2>1, <2>2 DEF Flush
<1>5. ASSUME NEW kind \in CallerKinds, NEW g \in {NoProgress} \cup 0 .. MaxProgress,
             Emit(kind, g)
      PROVE  TypeOK'
  <2>1. PICK e \in elapsed .. MaxElapsed : rec' = NewRecord(kind, e, g)
    BY <1>5 DEF Emit, Write
  <2>2. kind \in Kinds /\ g \in Nat \cup {NoProgress}
    BY StreamConstants DEF Kinds
  <2>3. rec' \in Records
    BY <2>1, <2>2, EmittedRecord
  <2> QED  BY <1>5, <2>3 DEF Emit, Write
<1>6. CASE WriteSome \/ Sync
  BY <1>6, FileFacts DEF WriteSome, Sync
<1>7. CASE WriteRest
  <2>1. file' \in Seq(Records)
    BY <1>7, AppendFacts DEF WriteRest
  <2>2. progress' \in Nat \cup {NoProgress}
    BY <1>7 DEF WriteRest
  <2>3. elapsed' \in Nat /\ sequence' \in Nat
    BY <1>7 DEF WriteRest
  <2>4. /\ exists' \in BOOLEAN /\ torn' \in BOOLEAN /\ console' \in BOOLEAN
        /\ failed' \in BOOLEAN /\ closed' \in BOOLEAN
    BY <1>7 DEF WriteRest
  <2>5. /\ durable' \in Nat /\ acked' \in Nat /\ urgent' \in Nat /\ crashes' \in Nat
        /\ phase' \in Phases /\ call' \in ApiCalls /\ rec' \in Records
    BY <1>7 DEF WriteRest
  <2> QED  BY <2>1, <2>2, <2>3, <2>4, <2>5
<1>8. CASE WriteFails
  BY <1>8, EmptySeq DEF WriteFails, RemoveFile, Fail
<1>9. CASE Cadence
  BY <1>9, FileFacts DEF Cadence, AfterWrite
<1>10. CASE CadenceFails \/ SyncFails \/ DiagnosticFails \/ CloseDescriptorFails
  BY <1>10 DEF CadenceFails, SyncFails, DiagnosticFails, CloseDescriptorFails, Fail
<1>11. CASE Render \/ CloseDescriptor
  BY <1>11 DEF Render, CloseDescriptor, Succeed
<1>12. CASE ConsoleBreaks
  <2>1. CASE call = "close"
    BY <1>12, <2>1 DEF ConsoleBreaks
  <2>2. CASE call # "close"
    <3>1. PICK e \in elapsed .. MaxElapsed : rec' = NewRecord("diagnostic", e, NoProgress)
      BY <1>12, <2>2 DEF ConsoleBreaks, Write
    <3>2. rec' \in Records
      BY <3>1, EmittedRecord DEF Kinds
    <3> QED  BY <1>12, <2>2, <3>2 DEF ConsoleBreaks, Write
  <2> QED  BY <2>1, <2>2
<1>13. CASE Die
  BY <1>13 DEF Die
<1>14. CASE LosePower
  <2>1. PICK n \in durable .. Len(file) : file' = SubSeq(file, 1, n)
    BY <1>14 DEF LosePower
  <2>2. n \in 0 .. Len(file)
    BY <2>1, FileFacts
  <2>3. file' \in Seq(Records)
    BY <2>1, <2>2, PrefixFacts
  <2>4. torn' \in BOOLEAN
    BY <1>14 DEF LosePower
  <2> QED  BY <1>14, <2>3, <2>4 DEF LosePower
<1>15. CASE UNCHANGED vars
  BY <1>15 DEF vars
<1> QED
  BY <1>1, <1>2, <1>3, <1>4, <1>5, <1>6, <1>7, <1>8, <1>9, <1>10, <1>11, <1>12,
     <1>13, <1>14, <1>15 DEF Next

(* Every variable of the stream keeps its type.                             *)
THEOREM StreamTyping == Spec => []TypeOK
<1> QED  BY TypeInit, TypeStep, PTL DEF Spec

-----------------------------------------------------------------------------
(* The order of the records.  That the file is accepted is not inductive:   *)
(* the next record is accepted only because the baselines of the writer are *)
(* those of the file, and because a writer that may still write has left no *)
(* unterminated line and no closing record.                                 *)

FileValid == \A i \in DOMAIN file : LineAccepted(file, i)

NoClosure == \A i \in DOMAIN file : file[i].kind # "closed"

(* The baselines of a writer are those of its file. *)
Position ==
    phase # "none" =>
        /\ exists
        /\ sequence = Len(file)
        /\ \A i \in DOMAIN file : file[i].elapsed <= elapsed /\ file[i].progress <= progress

(* Between calls a writer that is usable may continue its file. *)
Continuable ==
    phase = "ready" /\ ~failed /\ ~closed => ~torn /\ NoClosure /\ file # <<>>

(* The record being written is an acceptable next one. *)
Pending ==
    phase = "write" =>
        /\ ~failed /\ ~closed
        /\ NoClosure
        /\ rec.kind # "garbage"
        /\ rec.seq = sequence
        /\ rec.elapsed >= elapsed
        /\ rec.progress # NoProgress => rec.progress >= progress
        /\ sequence = 0 => rec.kind = "opened"
        /\ rec.kind = "closed" <=> call = "close"

(* The record just written ends the file, and only close() closes it. *)
Written ==
    phase \in {"cadence", "sync", "console", "close_fd"} =>
        /\ ~failed /\ ~closed
        /\ ~torn
        /\ file # <<>>
        /\ rec = file[Len(file)]
        /\ call = "close" => rec.kind = "closed"
        /\ call # "close" => NoClosure
        /\ phase = "close_fd" => call = "close"
        /\ rec.kind = "diagnostic" => phase = "cadence"

OrderInv == FileValid /\ Position /\ Continuable /\ Pending /\ Written

LEMMA OrderInit == Init => OrderInv
BY DEF Init, OrderInv, FileValid, Position, Continuable, Pending, Written

(* A step that leaves the file and the baselines alone. *)
LEMMA OrderFrame ==
    ASSUME OrderInv, UNCHANGED <<exists, file, sequence, elapsed, progress>>,
           phase' # "none" => phase # "none",
           Continuable', Pending', Written'
    PROVE  OrderInv'
BY DEF OrderInv, FileValid, Position, LineAccepted

(* A usable writer starts a record. *)
LEMMA OrderWrite ==
    ASSUME TypeOK, OrderInv, NEW c \in ApiCalls,
           NEW kind \in {"event", "urgent", "diagnostic", "closed"},
           NEW g \in Nat \cup {NoProgress},
           kind = "closed" <=> c = "close",
           g # NoProgress => g >= progress,
           phase # "none", ~failed, ~closed, ~torn, NoClosure, file # <<>>,
           Write(c, kind, g)
    PROVE  OrderInv'
<1>1. PICK e \in elapsed .. MaxElapsed : rec' = NewRecord(kind, e, g)
  BY DEF Write
<1>2. sequence = Len(file) /\ sequence # 0 /\ sequence \in Nat
  BY FileFacts, EmptySeq DEF OrderInv, Position, TypeOK
<1>3. e >= elapsed
  BY <1>1, StreamConstants DEF TypeOK
<1>4. UNCHANGED <<exists, file, sequence, elapsed, progress, failed, closed>> /\ phase' = "write"
  BY DEF Write, disk, clocks, flags
<1>5. /\ rec'.kind = kind /\ rec'.seq = sequence
      /\ rec'.elapsed = e /\ rec'.progress = g
  BY <1>1 DEF NewRecord, NextSequence
<1>6. Pending'
  BY <1>2, <1>3, <1>4, <1>5 DEF Pending, NoClosure, Write
<1> QED
  BY <1>4, <1>6, OrderFrame DEF Continuable, Written

(* The record is complete. *)
LEMMA OrderWriteRest ==
    ASSUME TypeOK, OrderInv, WriteRest
    PROVE  OrderInv'
<1> DEFINE n == Len(file)
<1>1. /\ n \in Nat /\ DOMAIN file = 1 .. n
      /\ \A i \in 1 .. n : file[i] \in Records
  BY FileFacts
<1>2. /\ file' \in Seq(Records)
      /\ Len(file') = n + 1
      /\ DOMAIN file' = 1 .. n + 1
      /\ \A i \in 1 .. n : file'[i] = file[i]
      /\ file'[n + 1] = rec
  BY <1>1, AppendFacts, LenProperties DEF WriteRest
<1>3. /\ exists /\ sequence = n /\ NoClosure
      /\ \A i \in 1 .. n : file[i].elapsed <= elapsed /\ file[i].progress <= progress
      /\ rec.kind # "garbage" /\ rec.seq = n /\ rec.elapsed >= elapsed
      /\ rec.progress # NoProgress => rec.progress >= progress
      /\ n = 0 => rec.kind = "opened"
      /\ rec.kind = "closed" <=> call = "close"
      /\ ~failed /\ ~closed
  BY <1>1 DEF OrderInv, Position, Pending, WriteRest
<1>4. /\ rec.elapsed \in Nat /\ rec.progress \in Nat \cup {NoProgress}
      /\ elapsed \in Nat /\ progress \in Nat \cup {NoProgress}
      /\ \A i \in 1 .. n : /\ file[i].elapsed \in Nat
                            /\ file[i].progress \in Nat \cup {NoProgress}
  BY <1>1 DEF TypeOK, Records
<1>5. /\ exists' /\ ~torn' /\ sequence' = n + 1 /\ elapsed' = rec.elapsed
      /\ progress' = IF rec.progress = NoProgress THEN progress ELSE rec.progress
      /\ phase' = "cadence" /\ rec' = rec /\ call' = call
      /\ failed' = failed /\ closed' = closed
  BY <1>3 DEF WriteRest, flags
<1>6. FileValid'
  <2>1. ASSUME NEW i \in 1 .. n
        PROVE  LineAccepted(file', i)
    <3>1. LineAccepted(file, i)
      BY <1>1 DEF OrderInv, FileValid
    <3>2. i \in 1 .. n /\ \A j \in 1 .. i - 1 : j \in 1 .. n
      BY <1>1
    <3>3. i > 1 => i - 1 \in 1 .. n
      BY <1>1
    <3> QED  BY <1>2, <3>1, <3>2, <3>3 DEF LineAccepted
  <2>2. LineAccepted(file', n + 1)
    <3>1. n + 1 > 1 => n \in 1 .. n /\ (n + 1) - 1 = n
      BY <1>1
    <3>2. n + 1 > 1 => rec.elapsed >= file[n].elapsed
      BY <1>3, <1>4, <3>1
    <3>3. \A j \in 1 .. n :
             /\ file[j].kind # "closed"
             /\ rec.progress # NoProgress => rec.progress >= file[j].progress
      BY <1>1, <1>3, <1>4 DEF NoClosure, NoProgress
    <3>4. (n + 1) - 1 = n /\ (n + 1 = 1 => n = 0)
      BY <1>1
    <3> QED  BY <1>2, <1>3, <3>1, <3>2, <3>3, <3>4 DEF LineAccepted
  <2>3. \A i \in 1 .. n + 1 : i \in 1 .. n \/ i = n + 1
    BY <1>1
  <2> QED  BY <1>2, <2>1, <2>2, <2>3 DEF FileValid
<1>7. Position'
  <2>1. ASSUME NEW i \in 1 .. n + 1
        PROVE  file'[i].elapsed <= elapsed' /\ file'[i].progress <= progress'
    <3>1. CASE i \in 1 .. n
      <4>1. file'[i] = file[i] /\ file[i].elapsed <= elapsed /\ file[i].progress <= progress
        BY <1>2, <1>3, <3>1
      <4>2. file[i].elapsed \in Nat /\ file[i].progress \in Nat \cup {NoProgress}
        BY <1>4, <3>1
      <4>3. file[i].elapsed <= rec.elapsed
        <5>1. rec.elapsed >= elapsed /\ rec.elapsed \in Nat /\ elapsed \in Nat
          BY <1>3, <1>4
        <5>. QED  BY <4>1, <4>2, <5>1
      <4>4. CASE rec.progress = NoProgress
        BY <1>5, <4>1, <4>3, <4>4
      <4>5. CASE rec.progress # NoProgress
        <5>1. file[i].progress <= rec.progress
          <6>1. rec.progress >= progress /\ rec.progress \in Nat
                /\ progress \in Nat \cup {NoProgress}
            BY <1>3, <1>4, <4>5
          <6>. QED  BY <4>1, <4>2, <6>1 DEF NoProgress
        <5>. QED  BY <1>5, <4>1, <4>3, <4>5, <5>1
      <4>. QED  BY <4>4, <4>5
    <3>2. CASE i = n + 1
      <4>1. file'[i] = rec
        BY <1>2, <3>2
      <4>2. rec.progress <= IF rec.progress = NoProgress THEN progress ELSE rec.progress
        BY <1>4 DEF NoProgress
      <4>. QED  BY <1>4, <1>5, <4>1, <4>2
    <3> QED  BY <1>1, <3>1, <3>2
  <2> QED  BY <1>2, <1>5, <2>1 DEF Position
<1>8. call # "close" => NoClosure'
  BY <1>1, <1>2, <1>3 DEF NoClosure
<1>9. file' # <<>>
  BY <1>1, <1>2, EmptySeq
<1> QED
  BY <1>2, <1>3, <1>5, <1>6, <1>7, <1>8, <1>9
  DEF OrderInv, Continuable, Pending, Written

LEMMA OrderStep ==
    ASSUME "closed" \notin CallerKinds
    PROVE  TypeOK /\ OrderInv /\ [Next]_vars => OrderInv'
<1> SUFFICES ASSUME TypeOK, OrderInv, [Next]_vars
             PROVE  OrderInv'
  OBVIOUS
<1> USE DEF disk, clocks, flags, acks
<1>1. CASE Open
  <2>1. file' = <<>> /\ phase' = "write" /\ exists'
    BY <1>1 DEF Open
  <2>2. DOMAIN file' = {} /\ Len(file') = 0
    BY <2>1, EmptySeq
  <2> QED  BY <1>1, <2>1, <2>2 DEF Open, OrderInv, FileValid, Position, Continuable,
                                   Pending, Written, NoClosure, NoProgress
<1>2. CASE Close
  BY <1>2, OrderWrite DEF Close, Usable, OrderInv, Continuable, ApiCalls, Write
<1>3. CASE CloseFails \/ CloseFailed \/ ClockFails \/ Flush
  <2>1. /\ UNCHANGED <<exists, file, sequence, elapsed, progress, phase>>
        /\ phase = "ready"
    BY <1>3 DEF CloseFails, CloseFailed, ClockFails, Flush, Usable
  <2>2. Continuable'
    BY <1>3 DEF CloseFails, CloseFailed, ClockFails, Flush, Usable, OrderInv,
                Continuable, NoClosure
  <2> QED  BY <2>1, <2>2, OrderFrame DEF Pending, Written
<1>4. ASSUME NEW kind \in CallerKinds, NEW g \in {NoProgress} \cup 0 .. MaxProgress,
             Emit(kind, g)
      PROVE  OrderInv'
  <2>1. kind \in {"event", "urgent"} /\ g \in Nat \cup {NoProgress}
    BY StreamConstants
  <2>2. PICK c \in {"emit", "emit_urgent"} : Write(c, kind, g)
    BY <1>4 DEF Emit
  <2>3. /\ phase = "ready" /\ ~failed /\ ~closed
        /\ g # NoProgress => g >= progress
    BY <1>4 DEF Emit, Usable, ProgressAllowed
  <2>4. ~torn /\ NoClosure /\ file # <<>>
    BY <2>3 DEF OrderInv, Continuable
  <2>5. /\ c \in ApiCalls /\ kind \in {"event", "urgent", "diagnostic", "closed"}
        /\ kind = "closed" <=> c = "close"
        /\ phase # "none"
    BY <2>1, <2>2, <2>3 DEF ApiCalls
  <2> QED  BY <2>1, <2>2, <2>3, <2>4, <2>5, OrderWrite
<1>5. CASE WriteSome
  BY <1>5, OrderFrame DEF WriteSome, OrderInv, Continuable, Pending, Written, NoClosure
<1>6. CASE WriteRest
  BY <1>6, OrderWriteRest
<1>7. CASE WriteFails
  <2>1. CASE Fail
    BY <1>7, <2>1, OrderFrame DEF WriteFails, Fail, Continuable, Pending, Written
  <2>2. CASE RemoveFile
    <3>1. file' = <<>> /\ phase' = "none"
      BY <2>2 DEF RemoveFile
    <3>2. DOMAIN file' = {}
      BY <3>1, EmptySeq
    <3> QED  BY <3>1, <3>2 DEF OrderInv, FileValid, Position, Continuable, Pending, Written
  <2> QED  BY <1>7, <2>1, <2>2 DEF WriteFails
<1>8. CASE Cadence
  <2>1. /\ UNCHANGED <<exists, file, torn, sequence, elapsed, progress, rec, failed, closed>>
        /\ phase = "cadence"
    BY <1>8 DEF Cadence
  <2>2. phase' \in {"ready", "sync", "console"}
    BY <1>8 DEF Cadence, AfterWrite
  <2>3. CASE phase' = "ready"
    <3>1. rec.kind = "diagnostic"
      BY <1>8, <2>3 DEF Cadence, AfterWrite
    <3>2. Continuable'
      BY <2>1, <3>1 DEF OrderInv, Written, Continuable, NoClosure
    <3> QED  BY <2>1, <2>3, <3>2, OrderFrame DEF Pending, Written
  <2>4. CASE phase' # "ready"
    <3>1. rec.kind # "diagnostic" /\ call' = call
      BY <1>8, <2>4 DEF Cadence, AfterWrite
    <3>2. Written'
      BY <2>1, <2>2, <2>4, <3>1 DEF OrderInv, Written, NoClosure
    <3> QED  BY <2>1, <2>2, <2>4, <3>2, OrderFrame DEF Continuable, Pending
  <2> QED  BY <2>3, <2>4
<1>9. CASE CadenceFails \/ SyncFails \/ DiagnosticFails \/ CloseDescriptorFails
  <2>1. /\ UNCHANGED <<exists, file, sequence, elapsed, progress>>
        /\ phase # "none" /\ phase' \in {"none", "ready"} /\ failed'
    BY <1>9 DEF CadenceFails, SyncFails, DiagnosticFails, CloseDescriptorFails, Fail
  <2> QED  BY <2>1, OrderFrame DEF Continuable, Pending, Written
<1>10. CASE Sync
  BY <1>10, OrderFrame DEF Sync, OrderInv, Continuable, Pending, Written, NoClosure
<1>11. CASE Render
  <2>1. /\ UNCHANGED <<exists, file, torn, sequence, elapsed, progress, rec, failed>>
        /\ phase = "console"
    BY <1>11 DEF Render, Succeed
  <2>2. CASE call = "close"
    BY <1>11, <2>1, <2>2, OrderFrame
    DEF Render, OrderInv, Continuable, Pending, Written, NoClosure
  <2>3. CASE call # "close"
    <3>1. phase' = "ready" /\ ~torn /\ NoClosure /\ file # <<>>
      BY <1>11, <2>1, <2>3 DEF Render, Succeed, OrderInv, Written
    <3>2. Continuable'
      BY <2>1, <3>1 DEF Continuable, NoClosure
    <3> QED  BY <2>1, <3>1, <3>2, OrderFrame DEF Pending, Written
  <2> QED  BY <2>2, <2>3
<1>12. CASE ConsoleBreaks
  <2>1. CASE call = "close"
    BY <1>12, <2>1, OrderFrame
    DEF ConsoleBreaks, OrderInv, Continuable, Pending, Written, NoClosure
  <2>2. CASE call # "close"
    <3>1. Write(call, "diagnostic", NoProgress) /\ phase = "console"
      BY <1>12, <2>2 DEF ConsoleBreaks
    <3>2. ~failed /\ ~closed /\ ~torn /\ NoClosure /\ file # <<>>
      BY <2>2, <3>1 DEF OrderInv, Written
    <3>3. call \in ApiCalls
      BY DEF TypeOK
    <3> QED  BY <2>2, <3>1, <3>2, <3>3, OrderWrite
  <2> QED  BY <2>1, <2>2
<1>13. CASE CloseDescriptor
  <2>1. /\ UNCHANGED <<exists, file, sequence, elapsed, progress>>
        /\ phase = "close_fd" /\ phase' = "ready" /\ closed'
    BY <1>13 DEF CloseDescriptor, Succeed, OrderInv, Written
  <2> QED  BY <2>1, OrderFrame DEF Continuable, Pending, Written
<1>14. CASE Die
  BY <1>14, OrderFrame DEF Die, Continuable, Pending, Written
<1>15. CASE LosePower
  <2>1. PICK n \in durable .. Len(file) : file' = SubSeq(file, 1, n)
    BY <1>15 DEF LosePower
  <2>2. n \in 0 .. Len(file) /\ Len(file) \in Nat
    BY <2>1, FileFacts DEF TypeOK
  <2>3. /\ DOMAIN file' = 1 .. n
        /\ \A i \in 1 .. n : file'[i] = file[i]
    BY <2>1, <2>2, PrefixFacts, LenProperties
  <2>4. ASSUME NEW i \in 1 .. n
        PROVE  LineAccepted(file', i)
    <3>1. LineAccepted(file, i)
      BY <2>2, FileFacts DEF OrderInv, FileValid
    <3>2. /\ \A j \in 1 .. i - 1 : j \in 1 .. n
          /\ i > 1 => i - 1 \in 1 .. n
      BY <2>2
    <3> QED  BY <2>3, <3>1, <3>2 DEF LineAccepted
  <2>5. phase' = "none"
    BY <1>15 DEF LosePower
  <2> QED  BY <2>3, <2>4, <2>5 DEF OrderInv, FileValid, Position, Continuable, Pending, Written
<1>16. CASE UNCHANGED vars
  BY <1>16, OrderFrame DEF vars, OrderInv, Continuable, Pending, Written, NoClosure
<1> QED
  BY <1>1, <1>2, <1>3, <1>4, <1>5, <1>6, <1>7, <1>8, <1>9, <1>10, <1>11, <1>12,
     <1>13, <1>14, <1>15, <1>16 DEF Next

LEMMA OrderSuffices == OrderInv => StreamNeverCorrupt
BY DEF OrderInv, FileValid, StreamNeverCorrupt, ScanStatus

(* Unless callers use the reserved name of the closing record, the scanner  *)
(* of loader.py never finds a stream of this writer corrupt.                *)
THEOREM ScannerAccepts ==
    ASSUME "closed" \notin CallerKinds
    PROVE  Spec => []StreamNeverCorrupt
<1>1. TypeOK /\ OrderInv /\ [Next]_vars => OrderInv'
  BY OrderStep
<1> QED
  BY TypeInit, TypeStep, OrderInit, <1>1, OrderSuffices, PTL DEF Spec

-----------------------------------------------------------------------------
(* What is on the disk.  The cadence is a statement about multiples: no     *)
(* multiple of the interval lies between the last line an fsync covered and *)
(* the last one acknowledged.                                               *)

NoneDue(n) == \A k \in durable + 1 .. n : ~CadenceDue(k)

DiskInv ==
    /\ durable <= Len(file)
    /\ urgent <= durable
    /\ NoneDue(acked)
    /\ phase # "none" => exists /\ sequence = Len(file) /\ acked <= sequence
    /\ phase # "none" /\ call = "open" => acked = 0 /\ urgent = 0

(* While a writer is usable every record before the current one has been    *)
(* offered to the cadence.                                                  *)
CadenceInv ==
    /\ phase \in {"write", "sync", "console", "close_fd"} => NoneDue(sequence)
    /\ phase = "cadence" => NoneDue(sequence - 1) /\ sequence > 0
    /\ phase = "ready" /\ ~failed /\ ~closed => NoneDue(sequence)

(* The step that syncs an urgent event or the closing record comes before   *)
(* the console and its diagnostic.                                          *)
SyncInv ==
    /\ phase \in {"write", "cadence"} /\ rec.kind = "diagnostic" /\ call = "emit_urgent"
           => durable >= rec.seq
    /\ phase \in {"write", "cadence"} => rec.seq = IF phase = "write" THEN sequence ELSE sequence - 1
    /\ phase \in {"console", "close_fd"} /\ NeedsSync(call) => durable = Len(file)

LossInv == DiskInv /\ CadenceInv /\ SyncInv

(* Of Interval consecutive numbers one is a multiple of Interval. *)
LEMMA SomeDue ==
    ASSUME NEW d \in Nat
    PROVE  \E k \in d + 1 .. d + Interval : CadenceDue(k)
<1> DEFINE q == d \div Interval
           r == d % Interval
           k == Interval * (q + 1)
<1>1. Interval \in Nat /\ Interval > 0
  BY StreamConstants
<1>2. q \in Nat /\ r \in 0 .. Interval - 1 /\ d = Interval * q + r
  BY <1>1
<1> HIDE DEF q, r
<1>3. k = Interval * q + Interval
  BY <1>1, <1>2
<1>4. k \in d + 1 .. d + Interval
  BY <1>1, <1>2, <1>3
<1>5. k % Interval = 0
  BY <1>1, <1>2
<1> QED  BY <1>4, <1>5 DEF CadenceDue

LEMMA LossSuffices == TypeOK /\ LossInv => LossIsBounded
<1> SUFFICES ASSUME TypeOK, LossInv
             PROVE  LossIsBounded
  OBVIOUS
<1>1. /\ durable \in Nat /\ acked \in Nat /\ urgent \in Nat /\ Len(file) \in Nat
      /\ Interval \in Nat /\ durable <= Len(file) /\ urgent <= durable
  BY FileFacts, StreamConstants DEF TypeOK, LossInv, DiskInv
<1>2. PICK k \in durable + 1 .. durable + Interval : CadenceDue(k)
  BY <1>1, SomeDue
<1>3. ~(k \in durable + 1 .. acked)
  BY <1>2 DEF LossInv, DiskInv, NoneDue
<1>4. acked - durable < Interval
  BY <1>1, <1>2, <1>3
<1> QED  BY <1>1, <1>4 DEF LossIsBounded

LEMMA LossInit == Init => LossInv
<1> SUFFICES ASSUME Init PROVE LossInv
  OBVIOUS
<1>1. Len(file) = 0
  BY EmptySeq DEF Init
<1> QED  BY <1>1 DEF Init, LossInv, DiskInv, CadenceInv, SyncInv, NoneDue

(* A step that leaves file, disk and acknowledgements alone. *)
LEMMA LossFrame ==
    ASSUME LossInv, UNCHANGED <<exists, file, durable, sequence, acked, urgent>>,
           phase' # "none" => phase # "none",
           phase' # "none" /\ call' = "open" => call = "open",
           CadenceInv', SyncInv'
    PROVE  LossInv'
BY DEF LossInv, DiskInv, NoneDue

(* A usable writer starts a record; when it is a diagnostic of a call that  *)
(* has synced its own, that one is durable.                                 *)
LEMMA LossWrite ==
    ASSUME TypeOK, LossInv, NEW c \in ApiCalls, NEW kind, NEW g,
           phase # "none", NoneDue(sequence), c # "open" \/ call = "open",
           kind = "diagnostic" /\ c = "emit_urgent" => durable = sequence,
           kind # "garbage", ~torn,
           Write(c, kind, g)
    PROVE  LossInv'
<1>1. PICK e \in elapsed .. MaxElapsed : rec' = NewRecord(kind, e, g)
  BY DEF Write
<1>2. rec'.kind = kind /\ rec'.seq = sequence
  BY <1>1 DEF NewRecord, NextSequence
<1>3. /\ UNCHANGED <<exists, file, durable, sequence, acked, urgent>>
      /\ phase' = "write" /\ call' = c /\ sequence \in Nat
  BY DEF Write, disk, acks, TypeOK
<1>4. CadenceInv' /\ SyncInv'
  BY <1>2, <1>3 DEF CadenceInv, SyncInv, NoneDue
<1> QED  BY <1>3, <1>4, LossFrame

LEMMA RangeShrinks ==
    ASSUME NEW a \in Nat, NEW b \in Nat, NEW c \in Nat, a <= b
    PROVE  \A k \in b + 1 .. c : k \in a + 1 .. c
OBVIOUS

LEMMA LossStep ==
    ASSUME "closed" \notin CallerKinds
    PROVE  TypeOK /\ OrderInv /\ LossInv /\ [Next]_vars => LossInv'
<1> SUFFICES ASSUME TypeOK, OrderInv, LossInv, [Next]_vars
             PROVE  LossInv'
  OBVIOUS
<1> USE DEF disk, clocks, flags, acks
<1>a. /\ durable \in Nat /\ sequence \in Nat /\ acked \in Nat /\ urgent \in Nat
      /\ Len(file) \in Nat /\ rec.seq \in Nat
  BY FileFacts DEF TypeOK, Records
<1>b. phase # "none" => sequence = Len(file) /\ durable <= sequence
  BY DEF LossInv, DiskInv
<1>1. CASE Open
  <2>1. /\ file' = <<>> /\ durable' = 0 /\ sequence' = 0 /\ acked' = 0 /\ urgent' = 0
        /\ exists' /\ phase' = "write" /\ rec'.seq = 0 /\ rec'.kind = "opened"
        /\ call' = "open"
    BY <1>1 DEF Open
  <2>2. Len(file') = 0
    BY <2>1, EmptySeq
  <2> QED  BY <2>1, <2>2 DEF LossInv, DiskInv, CadenceInv, SyncInv, NoneDue
<1>2. CASE Close
  <2>1. Write("close", "closed", NoProgress) /\ phase = "ready" /\ ~failed /\ ~closed
    BY <1>2 DEF Close, Usable
  <2>2. NoneDue(sequence) /\ ~torn
    BY <2>1 DEF LossInv, CadenceInv, OrderInv, Continuable
  <2> QED  BY <2>1, <2>2, LossWrite DEF ApiCalls
<1>3. CASE CloseFails \/ CloseFailed \/ ClockFails
  <2>1. /\ UNCHANGED <<exists, file, durable, sequence, acked, urgent, phase, call>>
        /\ phase = "ready" /\ failed'
    BY <1>3 DEF CloseFails, CloseFailed, ClockFails, Usable
  <2> QED  BY <2>1, LossFrame DEF CadenceInv, SyncInv
<1>4. CASE Flush
  <2>1. CASE UNCHANGED durable /\ failed'
    BY <1>4, <2>1, LossFrame DEF Flush, Usable, CadenceInv, SyncInv
  <2>2. CASE durable' = Len(file)
    <3>1. /\ UNCHANGED <<exists, file, sequence, acked, urgent, phase, call>>
          /\ phase = "ready"
      BY <1>4 DEF Flush, Usable
    <3> QED  BY <1>a, <1>b, <2>2, <3>1 DEF LossInv, DiskInv, CadenceInv, SyncInv, NoneDue
  <2> QED  BY <1>4, <2>1, <2>2 DEF Flush
<1>5. ASSUME NEW kind \in CallerKinds, NEW g \in {NoProgress} \cup 0 .. MaxProgress,
             Emit(kind, g)
      PROVE  LossInv'
  <2>1. kind \in {"event", "urgent"}
    BY StreamConstants
  <2>2. PICK c \in {"emit", "emit_urgent"} : Write(c, kind, g)
    BY <1>5 DEF Emit
  <2>3. phase = "ready" /\ ~failed /\ ~closed
    BY <1>5 DEF Emit, Usable
  <2>4. NoneDue(sequence) /\ ~torn
    BY <2>3 DEF LossInv, CadenceInv, OrderInv, Continuable
  <2>5. c \in ApiCalls /\ c # "open"
    BY DEF ApiCalls
  <2> QED  BY <2>1, <2>2, <2>3, <2>4, <2>5, LossWrite
<1>6. CASE WriteSome
  BY <1>6, LossFrame DEF WriteSome, LossInv, CadenceInv, SyncInv, NoneDue
<1>7. CASE WriteRest
  <2>1. /\ UNCHANGED <<exists, durable, call, rec, acked, urgent>>
        /\ sequence' = sequence + 1 /\ phase = "write" /\ phase' = "cadence"
    BY <1>7 DEF WriteRest
  <2>2. Len(file') = Len(file) + 1
    BY <1>7, AppendFacts DEF WriteRest
  <2>3. (sequence + 1) - 1 = sequence
    BY <1>a
  <2> QED  BY <1>a, <1>b, <2>1, <2>2, <2>3 DEF LossInv, DiskInv, CadenceInv, SyncInv, NoneDue
<1>8. CASE WriteFails
  <2>1. CASE Fail
    BY <1>8, <2>1, LossFrame DEF WriteFails, Fail, CadenceInv, SyncInv
  <2>2. CASE call = "open" /\ sequence = 0 /\ RemoveFile
    <3>1. /\ file' = <<>> /\ durable' = 0 /\ phase' = "none"
          /\ acked' = 0 /\ urgent' = 0
      BY <1>8, <2>2 DEF WriteFails, RemoveFile, LossInv, DiskInv
    <3>2. Len(file') = 0
      BY <3>1, EmptySeq
    <3> QED  BY <3>1, <3>2 DEF LossInv, DiskInv, CadenceInv, SyncInv, NoneDue
  <2> QED  BY <1>8, <2>1, <2>2 DEF WriteFails
<1>9. CASE Cadence
  <2>1. /\ UNCHANGED <<exists, file, sequence, rec, failed, closed>>
        /\ phase = "cadence" /\ exists
        /\ sequence > 0 /\ rec.seq = sequence - 1
    BY <1>9 DEF Cadence, LossInv, CadenceInv, SyncInv, DiskInv
  <2>2. /\ durable' = durable \/ durable' = Len(file)
        /\ durable' = durable => ~CadenceDue(sequence) \/ durable = Len(file)
    BY <1>9 DEF Cadence
  <2>3. durable' <= Len(file) /\ durable <= durable' /\ durable' \in Nat
    BY <1>a, <1>b, <2>1, <2>2
  <2>4. \A k \in durable' + 1 .. sequence : ~CadenceDue(k)
    <3> SUFFICES ASSUME NEW k \in durable' + 1 .. sequence
                 PROVE  ~CadenceDue(k)
      OBVIOUS
    <3>1. CASE durable' = Len(file)
      BY <1>a, <1>b, <2>1, <3>1
    <3>2. CASE durable' = durable /\ ~CadenceDue(sequence)
      <4>1. k = sequence \/ k \in durable + 1 .. sequence - 1
        BY <1>a, <3>2
      <4> QED  BY <2>1, <3>2, <4>1 DEF LossInv, CadenceInv, NoneDue
    <3> QED  BY <2>2, <3>1, <3>2
  <2>5. CASE AfterWrite = "done"
    <3>1. /\ phase' = "ready" /\ call' = "none" /\ acked' = sequence
          /\ urgent' = IF call = "emit_urgent" THEN rec.seq ELSE urgent
      BY <1>9, <2>5 DEF Cadence
    <3>2. rec.kind = "diagnostic"
      BY <2>5 DEF AfterWrite
    <3>3. urgent' <= durable'
      BY <1>a, <2>1, <2>3, <3>1, <3>2 DEF LossInv, SyncInv, DiskInv
    <3>4. DiskInv'
      <4>1. NoneDue(acked)'
        BY <2>4, <2>1, <3>1 DEF NoneDue
      <4>2. durable' <= Len(file')
        BY <2>1, <2>3
      <4>3. sequence' = Len(file') /\ acked' <= sequence' /\ exists'
        BY <1>a, <1>b, <2>1, <3>1
      <4> QED  BY <3>1, <3>3, <4>1, <4>2, <4>3 DEF DiskInv
    <3>5. CadenceInv' /\ SyncInv'
      BY <2>1, <2>4, <3>1 DEF CadenceInv, SyncInv, NoneDue
    <3> QED  BY <3>4, <3>5 DEF LossInv
  <2>6. CASE AfterWrite # "done"
    <3>1. /\ phase' = AfterWrite /\ UNCHANGED <<call, acked, urgent>>
          /\ phase' = IF NeedsSync(call) THEN "sync" ELSE "console"
      BY <1>9, <2>6 DEF Cadence, AfterWrite
    <3>2. DiskInv'
      <4>1. NoneDue(acked)'
        <5>1. \A k \in durable + 1 .. acked : ~CadenceDue(k)
          BY DEF LossInv, DiskInv, NoneDue
        <5>2. \A k \in durable' + 1 .. acked : k \in durable + 1 .. acked
          BY <1>a, <2>3, RangeShrinks
        <5> QED  BY <3>1, <5>1, <5>2 DEF NoneDue
      <4>2. durable' <= Len(file') /\ urgent' <= durable'
        BY <1>a, <2>1, <2>3, <3>1 DEF LossInv, DiskInv
      <4>3. sequence' = Len(file') /\ acked' <= sequence' /\ exists'
        BY <1>a, <1>b, <2>1, <3>1 DEF LossInv, DiskInv
      <4>4. call' = "open" => acked' = 0 /\ urgent' = 0
        BY <2>1, <3>1 DEF LossInv, DiskInv
      <4> QED  BY <4>1, <4>2, <4>3, <4>4 DEF DiskInv
    <3>3. CadenceInv' /\ SyncInv'
      BY <2>1, <2>4, <3>1 DEF CadenceInv, SyncInv, NoneDue
    <3> QED  BY <3>2, <3>3 DEF LossInv
  <2> QED  BY <2>5, <2>6
<1>10. CASE CadenceFails \/ SyncFails \/ DiagnosticFails \/ CloseDescriptorFails
  <2>1. /\ UNCHANGED <<exists, file, durable, sequence, acked, urgent>>
        /\ phase # "none" /\ phase' \in {"none", "ready"} /\ failed' /\ call' = "none"
    BY <1>10 DEF CadenceFails, SyncFails, DiagnosticFails, CloseDescriptorFails, Fail
  <2> QED  BY <2>1, LossFrame DEF CadenceInv, SyncInv
<1>11. CASE Sync
  <2>1. /\ UNCHANGED <<exists, file, sequence, acked, urgent, call, rec>>
        /\ phase = "sync" /\ phase' = "console" /\ durable' = Len(file)
    BY <1>11 DEF Sync
  <2> QED  BY <1>a, <1>b, <2>1 DEF LossInv, DiskInv, CadenceInv, SyncInv, NoneDue
<1>12. CASE phase \in {"console", "close_fd"} /\ Succeed
  <2>1. /\ UNCHANGED <<exists, file, durable, sequence>>
        /\ phase' = "ready" /\ call' = "none" /\ acked' = sequence
        /\ urgent' = IF call = "emit_urgent" THEN sequence ELSE urgent
    BY <1>12 DEF Succeed
  <2>2. call = "emit_urgent" => durable = sequence
    BY <1>12, <1>b DEF LossInv, SyncInv, NeedsSync
  <2>3. NoneDue(sequence)
    BY <1>12 DEF LossInv, CadenceInv
  <2>4. DiskInv'
    BY <1>a, <1>b, <1>12, <2>1, <2>2, <2>3 DEF LossInv, DiskInv, NoneDue
  <2>5. CadenceInv' /\ SyncInv'
    BY <2>1, <2>3 DEF CadenceInv, SyncInv, NoneDue
  <2> QED  BY <2>4, <2>5 DEF LossInv
<1>13. CASE phase = "console" /\ call = "close" /\ (Render \/ ConsoleBreaks)
  <2>1. /\ UNCHANGED <<exists, file, durable, sequence, acked, urgent, call>>
        /\ phase' = "close_fd"
    BY <1>13 DEF Render, ConsoleBreaks
  <2> QED  BY <1>13, <2>1, LossFrame DEF LossInv, CadenceInv, SyncInv, NoneDue
<1>14. CASE call # "close" /\ ConsoleBreaks
  <2>1. Write(call, "diagnostic", NoProgress) /\ phase = "console" /\ ~torn
    BY <1>14 DEF ConsoleBreaks, OrderInv, Written
  <2>2. NoneDue(sequence) /\ (call = "emit_urgent" => durable = sequence)
    BY <1>b, <2>1 DEF LossInv, CadenceInv, SyncInv, NeedsSync
  <2>3. call \in ApiCalls
    BY DEF TypeOK
  <2> QED  BY <2>1, <2>2, <2>3, LossWrite
<1>15. CASE Die
  BY <1>15, LossFrame DEF Die, CadenceInv, SyncInv
<1>16. CASE LosePower
  <2>1. PICK n \in durable .. Len(file) : file' = SubSeq(file, 1, n)
    BY <1>16 DEF LosePower
  <2>2. n \in 0 .. Len(file) /\ durable <= n
    BY <1>a, <2>1
  <2>3. Len(file') = n
    BY <2>1, <2>2, PrefixFacts
  <2>4. phase' = "none" /\ UNCHANGED <<exists, durable, sequence, acked, urgent>>
    BY <1>16 DEF LosePower
  <2> QED  BY <2>2, <2>3, <2>4 DEF LossInv, DiskInv, CadenceInv, SyncInv, NoneDue
<1>17. CASE UNCHANGED vars
  BY <1>17, LossFrame DEF vars, LossInv, CadenceInv, SyncInv, NoneDue
<1>18. CASE Render \/ ConsoleBreaks \/ CloseDescriptor
  BY <1>12, <1>13, <1>14, <1>18 DEF Render, ConsoleBreaks, CloseDescriptor
<1> QED
  BY <1>1, <1>2, <1>3, <1>4, <1>5, <1>6, <1>7, <1>8, <1>9, <1>10, <1>11,
     <1>15, <1>16, <1>17, <1>18 DEF Next

(* Unless callers use the reserved name, an urgent event whose call has     *)
(* returned survives a loss of power, and of the other acknowledged records *)
(* fewer than the fsync interval are lost.                                  *)
THEOREM LossBound ==
    ASSUME "closed" \notin CallerKinds
    PROVE  Spec => []LossIsBounded
<1>1. TypeOK /\ OrderInv /\ [Next]_vars => OrderInv'
  BY OrderStep
<1>2. TypeOK /\ OrderInv /\ LossInv /\ [Next]_vars => LossInv'
  BY LossStep
<1> QED
  BY TypeInit, TypeStep, OrderInit, <1>1, LossInit, <1>2, LossSuffices, PTL DEF Spec

-----------------------------------------------------------------------------
(* Closing.                                                                 *)

CloseInv ==
    phase = "ready" /\ closed /\ ~failed =>
        /\ exists /\ ~torn /\ file # <<>>
        /\ file[Len(file)].kind = "closed"
        /\ durable = Len(file)

LEMMA CloseInit == Init => CloseInv
BY DEF Init, CloseInv

LEMMA CloseStep == OrderInv /\ LossInv /\ CloseInv /\ [Next]_vars => CloseInv'
<1> SUFFICES ASSUME OrderInv, LossInv, CloseInv, [Next]_vars
             PROVE  CloseInv'
  OBVIOUS
<1> USE DEF disk, clocks, flags, acks, CloseInv
<1>1. CASE Open \/ WriteSome \/ WriteRest \/ Sync \/ Die \/ LosePower
  BY <1>1 DEF Open, WriteSome, WriteRest, Sync, Die, LosePower
<1>2. CASE Close \/ \E kind \in CallerKinds, g \in {NoProgress} \cup 0 .. MaxProgress : Emit(kind, g)
  BY <1>2 DEF Close, Emit, Write
<1>3. CASE CloseFails \/ CloseFailed \/ ClockFails \/ Flush
  BY <1>3 DEF CloseFails, CloseFailed, ClockFails, Flush, Usable
<1>4. CASE WriteFails \/ CadenceFails \/ SyncFails \/ DiagnosticFails \/ CloseDescriptorFails
  BY <1>4 DEF WriteFails, CadenceFails, SyncFails, DiagnosticFails, CloseDescriptorFails,
              Fail, RemoveFile
<1>5. CASE Cadence
  BY <1>5 DEF Cadence, OrderInv, Written
<1>6. CASE Render \/ ConsoleBreaks
  BY <1>6 DEF Render, ConsoleBreaks, Succeed, Write, OrderInv, Written
<1>7. CASE CloseDescriptor
  <2>1. /\ UNCHANGED <<exists, file, torn, durable>>
        /\ phase = "close_fd"
    BY <1>7 DEF CloseDescriptor, Succeed
  <2>2. /\ exists /\ ~torn /\ file # <<>> /\ file[Len(file)].kind = "closed"
        /\ call = "close"
    BY <2>1 DEF OrderInv, Written, Position
  <2>3. durable = Len(file)
    BY <2>1, <2>2 DEF LossInv, SyncInv, NeedsSync
  <2> QED  BY <2>1, <2>2, <2>3
<1>8. CASE UNCHANGED vars
  BY <1>8 DEF vars
<1> QED
  BY <1>1, <1>2, <1>3, <1>4, <1>5, <1>6, <1>7, <1>8 DEF Next

LEMMA CloseSuffices == OrderInv /\ CloseInv => CleanCloseIsComplete
BY DEF OrderInv, FileValid, CloseInv, CleanCloseIsComplete, Loadable, ScanStatus

(* Unless callers use the reserved name, a close() that returned normally   *)
(* has left a stream that loads, and all of it on the disk.                 *)
THEOREM CleanClose ==
    ASSUME "closed" \notin CallerKinds
    PROVE  Spec => []CleanCloseIsComplete
<1>1. TypeOK /\ OrderInv /\ [Next]_vars => OrderInv'
  BY OrderStep
<1>2. TypeOK /\ OrderInv /\ LossInv /\ [Next]_vars => LossInv'
  BY LossStep
<1> QED
  BY TypeInit, TypeStep, OrderInit, <1>1, LossInit, <1>2, CloseInit, CloseStep,
     CloseSuffices, PTL DEF Spec

(* What a step does to a complete stream that is on the disk. *)
Kept == Loadable /\ durable = Len(file) => UNCHANGED <<exists, file, torn>>

LEMMA KeptStep == TypeOK /\ OrderInv /\ [Next]_vars => Kept
<1> SUFFICES ASSUME TypeOK, OrderInv, [Next]_vars, Loadable, durable = Len(file)
             PROVE  UNCHANGED <<exists, file, torn>>
  BY DEF Kept
<1> USE DEF disk, clocks, flags, acks
<1>1. exists /\ ~torn /\ file # <<>> /\ file[Len(file)].kind = "closed"
  BY DEF Loadable, ScanStatus
<1>2. ~NoClosure
  <2>1. Len(file) \in DOMAIN file
    BY <1>1, FileFacts, EmptySeq DEF TypeOK
  <2> QED  BY <1>1, <2>1 DEF NoClosure
<1>3. phase # "write"
  BY <1>2 DEF OrderInv, Pending
<1>4. ~Open /\ ~WriteSome /\ ~WriteRest /\ ~WriteFails
  BY <1>1, <1>3 DEF Open, MayCreate, WriteSome, WriteRest, WriteFails
<1>5. CASE LosePower
  <2>1. PICK n \in durable .. Len(file) :
            /\ file' = SubSeq(file, 1, n)
            /\ torn' \in IF n < Len(file) \/ torn THEN BOOLEAN ELSE {FALSE}
    BY <1>5 DEF LosePower
  <2>2. n = Len(file)
    BY <2>1, FileFacts
  <2>3. file' = file
    BY <2>1, <2>2, SubSeqFull DEF TypeOK
  <2>4. ~(n < Len(file) \/ torn)
    BY <1>1, <2>2, FileFacts
  <2>5. torn' = FALSE
    BY <2>1, <2>4
  <2>6. torn = FALSE
    BY <1>1 DEF TypeOK
  <2>7. exists' = exists
    BY <1>5 DEF LosePower
  <2> QED  BY <2>3, <2>5, <2>6, <2>7
<1>6. CASE Close \/ CloseFails \/ CloseFailed \/ ClockFails \/ Flush
           \/ \E kind \in CallerKinds, g \in {NoProgress} \cup 0 .. MaxProgress : Emit(kind, g)
  BY <1>6 DEF Close, CloseFails, CloseFailed, ClockFails, Flush, Emit, Write
<1>7. CASE Cadence \/ CadenceFails \/ Sync \/ SyncFails
  BY <1>7 DEF Cadence, CadenceFails, Sync, SyncFails, Fail
<1>8. CASE Render \/ ConsoleBreaks \/ DiagnosticFails \/ CloseDescriptor \/ CloseDescriptorFails \/ Die
  BY <1>8 DEF Render, ConsoleBreaks, DiagnosticFails, CloseDescriptor, CloseDescriptorFails,
              Die, Succeed, Fail, Write
<1>9. CASE UNCHANGED vars
  BY <1>9 DEF vars
<1> QED
  BY <1>4, <1>5, <1>6, <1>7, <1>8, <1>9 DEF Next

(* Unless callers use the reserved name, a complete stream on the disk is   *)
(* final: no failure, restart or loss of power changes it.                  *)
THEOREM Closure ==
    ASSUME "closed" \notin CallerKinds
    PROVE  Spec => ClosureIsFinal
<1>1. TypeOK /\ OrderInv /\ [Next]_vars => OrderInv'
  BY OrderStep
<1>2. TypeOK /\ OrderInv /\ [Next]_vars
        => (Loadable /\ durable = Len(file) => UNCHANGED <<exists, file, torn>>)
  BY KeptStep DEF Kept
<1> QED
  BY TypeInit, TypeStep, OrderInit, <1>1, <1>2, PTL DEF Spec, ClosureIsFinal
=============================================================================

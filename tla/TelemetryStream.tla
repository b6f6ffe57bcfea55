--------------------------- MODULE TelemetryStream ---------------------------
(***************************************************************************)
(* The telemetry stream of one process of an attempt: the writer of        *)
(* telemetry/writer.py appends records to a file that only it may create,  *)
(* and the scanner of telemetry/loader.py judges whatever it finds there.  *)
(* A call of the writer is a sequence of steps (write, periodic fsync,     *)
(* fsync of an urgent event, console line, diagnostic of a broken          *)
(* console), each of which may fail, be cut short by the death of the      *)
(* process, or be undone by a loss of power as far as it was not synced.   *)
(***************************************************************************)
EXTENDS Integers, Sequences

CONSTANTS
    Interval,     \* fsync_interval_records
    CallerKinds,  \* kinds of the records callers emit
    MaxRecords,   \* bound: records in the stream
    MaxElapsed,   \* bound: readings of the monotonic clock
    MaxProgress,  \* bound: progress positions reported with a record
    MaxCrashes    \* bound: deaths of the process

NoProgress == -1

(* "urgent" is an event of severity ERROR or CRITICAL, "event" any other    *)
(* event or metric; "garbage" is a line no schema accepts.                  *)
Kinds == {"opened", "event", "urgent", "diagnostic", "closed", "garbage"}

Records == [kind : Kinds, seq : Nat, elapsed : Nat, progress : Nat \cup {NoProgress}]

ASSUME StreamConstants ==
    /\ Interval \in Nat \ {0}
    /\ CallerKinds \subseteq {"event", "urgent", "closed"}
    /\ MaxRecords \in Nat /\ MaxElapsed \in Nat
    /\ MaxProgress \in Nat /\ MaxCrashes \in Nat

VARIABLES
    exists,    \* is there a file at the path of the stream?
    file,      \* its complete lines
    torn,      \* does it end in an unterminated line?
    durable,   \* number of lines an fsync has covered
    phase,     \* what the writer does next, "none" without a writer
    call,      \* the call it executes
    rec,       \* the record it is writing
    sequence,  \* number of records written: the next sequence number
    elapsed,   \* _last_elapsed_ns
    progress,  \* _last_progress
    console,   \* is the console still rendered to?
    failed, closed,  \* the terminal flags of the writer
    acked,     \* records written by calls that have returned normally
    urgent,    \* records up to the last urgent event so acknowledged
    crashes

disk   == <<exists, file, torn, durable>>
clocks == <<elapsed, progress>>
flags  == <<failed, closed>>
acks   == <<acked, urgent>>
vars   == <<disk, phase, call, rec, sequence, clocks, console, flags, acks, crashes>>

Phases == {"none", "ready", "write", "cadence", "sync", "console", "close_fd"}

ApiCalls == {"none", "open", "emit", "emit_urgent", "close"}

TypeOK ==
    /\ exists \in BOOLEAN
    /\ file \in Seq(Records)
    /\ torn \in BOOLEAN
    /\ durable \in Nat
    /\ phase \in Phases
    /\ call \in ApiCalls
    /\ rec \in Records
    /\ sequence \in Nat
    /\ elapsed \in Nat
    /\ progress \in Nat \cup {NoProgress}
    /\ console \in BOOLEAN
    /\ failed \in BOOLEAN /\ closed \in BOOLEAN
    /\ acked \in Nat /\ urgent \in Nat
    /\ crashes \in Nat

Init ==
    /\ exists = FALSE
    /\ file = <<>>
    /\ torn = FALSE
    /\ durable = 0
    /\ phase = "none"
    /\ call = "none"
    /\ rec = [kind |-> "opened", seq |-> 0, elapsed |-> 0, progress |-> NoProgress]
    /\ sequence = 0
    /\ elapsed = 0
    /\ progress = NoProgress
    /\ console = TRUE
    /\ failed = FALSE /\ closed = FALSE
    /\ acked = 0 /\ urgent = 0
    /\ crashes = 0

-----------------------------------------------------------------------------
(* The scanner.                                                             *)

(* Line i of f is accepted after the lines before it. *)
LineAccepted(f, i) ==
    /\ f[i].kind # "garbage"
    /\ f[i].seq = i - 1
    /\ i = 1 => f[i].kind = "opened"
    /\ i > 1 => f[i].elapsed >= f[i - 1].elapsed
    /\ \A j \in 1 .. i - 1 :
          /\ f[j].kind # "closed"
          /\ f[i].progress # NoProgress => f[i].progress >= f[j].progress

(* scan_telemetry_stream. *)
ScanStatus ==
    IF ~exists \/ \E i \in DOMAIN file : ~LineAccepted(file, i) THEN "corrupt"
    ELSE IF torn \/ file = <<>> \/ file[Len(file)].kind # "closed" THEN "incomplete"
    ELSE "complete"

(* load_telemetry_stream accepts what the scanner calls complete. *)
Loadable == ScanStatus = "complete"

-----------------------------------------------------------------------------
(* How a call ends.                                                         *)

(* The call returns normally. *)
Succeed ==
    /\ phase' = "ready"
    /\ call' = "none"
    /\ acked' = sequence
    /\ urgent' = IF call = "emit_urgent" THEN sequence ELSE urgent
    /\ closed' = (closed \/ call = "close")
    /\ UNCHANGED <<disk, rec, sequence, clocks, failed, crashes>>

(* Mutant of Fail: a failed write leaves the writer usable.                 *)
Fail_Usable ==
    /\ phase' = IF call = "open" THEN "none" ELSE "ready"
    /\ call' = "none"
    /\ closed' = (closed \/ call = "close")
    /\ UNCHANGED <<disk, rec, sequence, clocks, failed, acks, crashes>>

(* _terminal_failure: the descriptor is closed and WriterFailedError leaves *)
(* the call; a constructor that fails leaves no writer behind.              *)
Fail ==
    /\ phase' = IF call = "open" THEN "none" ELSE "ready"
    /\ call' = "none"
    /\ failed' = TRUE
    /\ closed' = (closed \/ call = "close")
    /\ UNCHANGED <<disk, rec, sequence, clocks, acks, crashes>>

(* The first record was not written: the constructor removes its file.      *)
RemoveFile ==
    /\ exists' = FALSE
    /\ file' = <<>>
    /\ torn' = FALSE
    /\ durable' = 0
    /\ phase' = "none"
    /\ call' = "none"
    /\ UNCHANGED <<rec, sequence, clocks, flags, acks, crashes>>

-----------------------------------------------------------------------------
(* Starting a record.                                                       *)

(* Mutant of NextSequence: one less than that of the last record.           *)
NextSequence_Behind == sequence - 2

NextSequence == sequence

(* Bytes written behind an unterminated line become part of that line.      *)
NewRecord(kind, e, g) ==
    [kind |-> IF torn THEN "garbage" ELSE kind,
     seq |-> NextSequence, elapsed |-> e, progress |-> g]

(* A record is built: the clock gives no less than its last reading.        *)
Write(c, kind, g) ==
    /\ call' = c
    /\ \E e \in elapsed .. MaxElapsed : rec' = NewRecord(kind, e, g)
    /\ phase' = "write"
    /\ UNCHANGED <<disk, sequence, clocks, flags, acks, crashes>>

(* Mutant of MayCreate: the file is opened without O_EXCL.                  *)
MayCreate_Anyway == TRUE

(* O_CREAT with O_EXCL: an existing stream is never opened again.           *)
MayCreate == ~exists

Open ==
    /\ phase = "none"
    /\ MayCreate
    /\ exists' = TRUE
    /\ file' = <<>>
    /\ torn' = FALSE
    /\ durable' = 0
    /\ rec' = [kind |-> "opened", seq |-> 0, elapsed |-> 0, progress |-> NoProgress]
    /\ call' = "open"
    /\ phase' = "write"
    /\ sequence' = 0
    /\ elapsed' = 0
    /\ progress' = NoProgress
    /\ console' \in BOOLEAN
    /\ failed' = FALSE /\ closed' = FALSE
    /\ acked' = 0 /\ urgent' = 0
    /\ UNCHANGED crashes

Usable == phase = "ready" /\ ~failed /\ ~closed

(* Mutant of ProgressAllowed: any position is written.                      *)
ProgressAllowed_Any(g) == TRUE

(* _validate_progress: a regressing position is a ValueError of the caller. *)
ProgressAllowed(g) == g # NoProgress => g >= progress

(* emit_event and emit_metric; an event with the reserved name of the       *)
(* closing record is a ValueError unless it has no progress, as that has.   *)
Emit(kind, g) ==
    /\ Usable
    /\ sequence < MaxRecords
    /\ kind = "closed" => g = NoProgress
    /\ ProgressAllowed(g)
    /\ Write(IF kind = "urgent" THEN "emit_urgent" ELSE "emit", kind, g)
    /\ UNCHANGED console

(* The monotonic clock regresses below the last reading or its baseline. *)
ClockFails ==
    /\ Usable
    /\ failed' = TRUE
    /\ UNCHANGED <<disk, phase, call, rec, sequence, clocks, console, closed,
                   acks, crashes>>

(* The same while closing, or no record can be built of the outcome and the *)
(* diagnostic code: the writer is closed without a closing record.          *)
CloseFails ==
    /\ Usable
    /\ failed' = TRUE /\ closed' = TRUE
    /\ UNCHANGED <<disk, phase, call, rec, sequence, clocks, console, acks, crashes>>

Flush ==
    /\ Usable
    /\ \/ durable' = Len(file) /\ UNCHANGED failed
       \/ failed' = TRUE /\ UNCHANGED durable
    /\ UNCHANGED <<exists, file, torn, phase, call, rec, sequence, clocks, console,
                   closed, acks, crashes>>

Close ==
    /\ Usable
    /\ Write("close", "closed", NoProgress)
    /\ UNCHANGED console

(* Closing a failed writer raises, once. *)
CloseFailed ==
    /\ phase = "ready" /\ failed /\ ~closed
    /\ closed' = TRUE
    /\ UNCHANGED <<disk, phase, call, rec, sequence, clocks, console, failed, acks, crashes>>

-----------------------------------------------------------------------------
(* The steps of a call.                                                     *)

(* Mutant of CadenceDue: the interval is counted from one too many.         *)
CadenceDue_Late(n) == n % (Interval + 1) = 0

CadenceDue(n) == n % Interval = 0

(* Mutant of NeedsSync: closing relies on the cadence.                      *)
NeedsSync_UrgentOnly(c) == c = "emit_urgent"

NeedsSync(c) == c \in {"emit_urgent", "close"}

(* Where a call goes once its record is written and the cadence is served.  *)
AfterWrite ==
    IF rec.kind = "diagnostic" THEN "done"
    ELSE IF NeedsSync(call) THEN "sync" ELSE "console"

(* os.write took only a part. *)
WriteSome ==
    /\ phase = "write"
    /\ ~torn
    /\ torn' = TRUE
    /\ UNCHANGED <<exists, file, durable, phase, call, rec, sequence, clocks, console,
                   flags, acks, crashes>>

(* The line is complete and the bookkeeping of the writer follows it. *)
WriteRest ==
    /\ phase = "write"
    /\ file' = Append(file, rec)
    /\ torn' = FALSE
    /\ sequence' = sequence + 1
    /\ elapsed' = rec.elapsed
    /\ progress' = IF rec.progress = NoProgress THEN progress ELSE rec.progress
    /\ phase' = "cadence"
    /\ UNCHANGED <<exists, durable, call, rec, console, flags, acks, crashes>>

WriteFails ==
    /\ phase = "write"
    /\ \/ call = "open" /\ sequence = 0 /\ RemoveFile
       \/ Fail
    /\ UNCHANGED console

(* The periodic fsync, when it is due; a diagnostic ends the call there, and *)
(* follows the record the call was asked to write.                          *)
Cadence ==
    /\ phase = "cadence"
    /\ \/ /\ ~CadenceDue(sequence) \/ durable = Len(file)
          /\ UNCHANGED durable
       \/ CadenceDue(sequence) /\ durable' = Len(file)
    /\ IF AfterWrite = "done"
       THEN /\ phase' = "ready" /\ call' = "none"
            /\ acked' = sequence
            /\ urgent' = IF call = "emit_urgent" THEN rec.seq ELSE urgent
       ELSE /\ phase' = AfterWrite
            /\ UNCHANGED <<call, acks>>
    /\ UNCHANGED <<exists, file, torn, rec, sequence, clocks, console, flags, crashes>>

CadenceFails ==
    phase = "cadence" /\ CadenceDue(sequence) /\ Fail /\ UNCHANGED console

Sync ==
    /\ phase = "sync"
    /\ durable' = Len(file)
    /\ phase' = "console"
    /\ UNCHANGED <<exists, file, torn, call, rec, sequence, clocks, console, flags,
                   acks, crashes>>

SyncFails == phase = "sync" /\ Fail /\ UNCHANGED console

(* The console line, if the console still works. *)
Render ==
    /\ phase = "console"
    /\ IF call = "close"
       THEN /\ phase' = "close_fd"
            /\ UNCHANGED <<disk, call, rec, sequence, clocks, flags, acks, crashes>>
       ELSE Succeed
    /\ UNCHANGED console

(* The first failure of the console is recorded in the stream, but not      *)
(* behind the record that closes it.                                        *)
ConsoleBreaks ==
    /\ phase = "console"
    /\ console
    /\ console' = FALSE
    /\ IF call = "close"
       THEN /\ phase' = "close_fd"
            /\ UNCHANGED <<disk, call, rec, sequence, clocks, flags, acks, crashes>>
       ELSE Write(call, "diagnostic", NoProgress)

(* The clock regresses while that diagnostic is built. *)
DiagnosticFails ==
    /\ phase = "console"
    /\ console /\ call # "close"
    /\ console' = FALSE
    /\ Fail

CloseDescriptor ==
    /\ phase = "close_fd"
    /\ Succeed /\ UNCHANGED console

CloseDescriptorFails == phase = "close_fd" /\ Fail /\ UNCHANGED console

-----------------------------------------------------------------------------
(* What the environment does.                                               *)

(* The process dies; its file stays. *)
Die ==
    /\ phase # "none"
    /\ crashes < MaxCrashes
    /\ phase' = "none"
    /\ call' = "none"
    /\ crashes' = crashes + 1
    /\ UNCHANGED <<disk, rec, sequence, clocks, console, flags, acks>>

(* The power goes: of what no fsync covered, a prefix is left. *)
LosePower ==
    /\ exists
    /\ crashes < MaxCrashes
    /\ \E n \in durable .. Len(file) :
        /\ file' = SubSeq(file, 1, n)
        /\ torn' \in IF n < Len(file) \/ torn THEN BOOLEAN ELSE {FALSE}
    /\ phase' = "none"
    /\ call' = "none"
    /\ crashes' = crashes + 1
    /\ UNCHANGED <<exists, durable, rec, sequence, clocks, console, flags, acks>>

-----------------------------------------------------------------------------
Next ==
    \/ Open \/ Close \/ CloseFails \/ CloseFailed \/ ClockFails \/ Flush
    \/ \E kind \in CallerKinds, g \in {NoProgress} \cup 0 .. MaxProgress : Emit(kind, g)
    \/ WriteSome \/ WriteRest \/ WriteFails
    \/ Cadence \/ CadenceFails \/ Sync \/ SyncFails
    \/ Render \/ ConsoleBreaks \/ DiagnosticFails
    \/ CloseDescriptor \/ CloseDescriptorFails
    \/ Die \/ LosePower

Spec == Init /\ [][Next]_vars

-----------------------------------------------------------------------------
(* Whatever failed or was cut short, a scan finds a valid prefix: no        *)
(* sequence gap, no regression, nothing behind a closure, no glued lines.   *)
StreamNeverCorrupt == exists => ScanStatus # "corrupt"

(* An urgent event whose call has returned is in the stream for good, and   *)
(* fewer than Interval acknowledged records are ever lost, also when the    *)
(* power goes.                                                              *)
LossIsBounded == urgent <= Len(file) /\ acked - Len(file) < Interval

(* A close that returned normally has left a complete stream on the disk.   *)
CleanCloseIsComplete ==
    phase = "ready" /\ closed /\ ~failed => Loadable /\ durable = Len(file)

(* A complete stream that is on the disk never changes again: no restart    *)
(* opens it, no failed call adds to it.                                     *)
ClosureIsFinal ==
    [][Loadable /\ durable = Len(file) => UNCHANGED <<exists, file, torn>>]_vars

=============================================================================

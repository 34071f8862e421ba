------------------------------- MODULE LogFile -------------------------------
(***************************************************************************)
(* The file device of fn_log: how a dispatched log reaches a file, when the *)
(* file is closed, rolled back and opened again (DispatchLog,               *)
(* EnterProcOutFileDevice, OpenFileDevice, FileHandler).  Time counts        *)
(* seconds, of which DaySeconds make a day; the size of a log counts units.  *)
(* A file is named by the day in its name (0 if the name has no date field)  *)
(* and by its generation: 0 is the one being written, k the k-th older one.  *)
(* A log carries the time it was created at, which in a synchronous channel  *)
(* can lie before that of the log dispatched before it.                      *)
(***************************************************************************)
EXTENDS Integers, Sequences

CONSTANTS
    Devices,      \* configurations: [limit, rollback, dated, priority, able] of a device
    DaySeconds,   \* seconds in a day
    RetrySeconds, \* 5: how long a failed open keeps the device quiet
    Sizes,        \* sizes of logs
    MaxLines,     \* bound: logs
    MaxTime       \* bound: the clock

ASSUME LogFileAssumption ==
    /\ Devices \subseteq [limit : Nat, rollback : Nat, dated : BOOLEAN, priority : Nat, able : BOOLEAN]
    /\ DaySeconds \in Nat \ {0} /\ MaxLines \in Nat /\ MaxTime \in Nat
    /\ RetrySeconds \in 1 .. MaxTime
    /\ Sizes \subseteq Nat \ {0}

VARIABLES
    dev,          \* the device's configuration
    handler,      \* [folder, writer, size, day, last_try]: the files by path, the path the
                  \* FileHandler has open, and the device's log_fields_
    now,          \* the clock
    written,      \* ghost: the logs written under each name, [day, id, size], in order
    lines         \* ghost: the logs dispatched

logFileVars == <<dev, handler, now, written, lines>>

Closed == <<>>
DayOf(t) == (t \div DaySeconds) * DaySeconds

SizeOf(logs) ==
    LET size[i \in 0 .. Len(logs)] == IF i = 0 THEN 0 ELSE size[i - 1] + logs[i].size
    IN size[Len(logs)]

\* MakeFileName: of the fields it replaces only the date can make two names of
\* one device in one process differ.
MakeFileName(t) == IF dev.dated THEN DayOf(t) ELSE 0

\* The generations that are kept; with a limit and no rollback it is one.
limit_roll == IF dev.rollback > 0 THEN dev.rollback ELSE 1

LogFileInit ==
    /\ dev \in Devices
    /\ handler = [folder |-> <<>>, writer |-> Closed, size |-> 0, day |-> 0, last_try |-> 0]
    /\ now = RetrySeconds /\ written = [day \in 0 .. MaxTime |-> <<>>] /\ lines = 0

-----------------------------------------------------------------------------
\* Mutants: with all generations there only the newest moves, over the next one;
\* the oldest is not removed.
rollback_Full(folder, day, max) ==
    LET moved == IF <<day, max>> \in DOMAIN folder THEN {0}
                 ELSE {k \in 0 .. max : \A j \in 0 .. k : <<day, j>> \in DOMAIN folder}
        next == {<<day, k + 1>> : k \in {j \in moved : <<day, j>> \in DOMAIN folder}}
    IN [p \in next \cup {q \in DOMAIN folder : ~(q[1] = day /\ q[2] \in moved)} |->
           IF p \in next THEN folder[<<day, p[2] - 1>>] ELSE folder[p]]

rollback_Keeps(folder, day, max) ==
    LET moved == {k \in 0 .. max + 1 : \A j \in 0 .. k : <<day, j>> \in DOMAIN folder}
        next == {<<day, k + 1>> : k \in moved}
    IN [p \in next \cup {q \in DOMAIN folder : ~(q[1] = day /\ q[2] \in moved)} |->
           IF p \in next THEN folder[<<day, p[2] - 1>>] ELSE folder[p]]

\* FileHandler::rollback: the generations up to the first one missing move on by
\* one, and the one that would pass max is removed.
rollback(folder, day, max) ==
    LET moved == {k \in 0 .. max : \A j \in 0 .. k : <<day, j>> \in DOMAIN folder}
        kept == {p \in DOMAIN folder : ~(p[1] = day /\ p[2] \in moved)}
        next == {<<day, k + 1>> : k \in moved \ {max}}
    IN [p \in kept \cup next |-> IF p \in next THEN folder[<<day, p[2] - 1>>] ELSE folder[p]]

SameDay(h, t) == t >= h.day /\ t < h.day + DaySeconds

\* Mutant: the log that passes the limit is still put into the file.
FileOver_Late(h, size) == dev.limit > 0 /\ dev.rollback > 0 /\ h.size > dev.limit

FileOver(h, size) == dev.limit > 0 /\ dev.rollback > 0 /\ h.size + size > dev.limit

\* Mutant: the size of a file opened for appending counts from nothing.
Opened_Empty(h, t, path) ==
    [h EXCEPT !.folder = [p \in DOMAIN @ \cup {path} |-> IF p \in DOMAIN @ \ {path} THEN @[p] ELSE <<>>],
              !.writer = path, !.day = DayOf(t), !.last_try = 0]

\* The file is opened for appending: its size is that of what is in it.
Opened(h, t, path) ==
    LET folder == [p \in DOMAIN h.folder \cup {path} |->
                      IF p \in DOMAIN h.folder THEN h.folder[p] ELSE <<>>]
    IN [h EXCEPT !.folder = folder, !.writer = path,
                 !.size = SizeOf(folder[path]), !.day = DayOf(t), !.last_try = 0]

\* OpenFileDevice: another day or a passed limit closes the file; unless it is
\* (still) open its generations are rolled back and it is opened, if it can be.
OpenFileDevice(h, t, size, opens) ==
    LET over == ~SameDay(h, t) \/ FileOver(h, size)
        h1 == IF over THEN [h EXCEPT !.size = 0, !.writer = Closed] ELSE h
        path == <<MakeFileName(t), 0>>
        h2 == IF dev.rollback > 0 \/ dev.limit > 0
              THEN [h1 EXCEPT !.folder = rollback(@, path[1], limit_roll)]
              ELSE h1
    IN IF h1.writer # Closed THEN h1
       ELSE IF opens THEN Opened(h2, t, path) ELSE [h2 EXCEPT !.last_try = t]

\* A device whose open failed is left alone for RetrySeconds.
Quiet(t) == handler.writer = Closed /\ handler.last_try + RetrySeconds > t

\* FileHandler::write: a write that fails closes the file.  The caller counts
\* the log's size either way.
write(h, log, writes) ==
    LET h1 == [h EXCEPT !.size = @ + log.size]
    IN IF writes THEN [h1 EXCEPT !.folder[h.writer] = Append(@, log)]
       ELSE [h1 EXCEPT !.writer = Closed]

\* EnterProcOutFileDevice.
EnterProcOutFileDevice(t, size) ==
    IF Quiet(t) THEN UNCHANGED <<handler, written>>
    ELSE \E opens, writes \in BOOLEAN :
            LET h == OpenFileDevice(handler, t, size, opens)
                log == [day |-> MakeFileName(t), id |-> lines', size |-> size]
            IN IF h.writer = Closed THEN handler' = h /\ UNCHANGED written
               ELSE /\ handler' = write(h, log, writes)
                    /\ written' = IF writes THEN [written EXCEPT ![h.writer[1]] = Append(@, log)] ELSE written

\* DispatchLog, for one device: one that is switched off or whose priority is
\* above the log's is passed over.
DispatchLog(t, size, priority) ==
    /\ lines < MaxLines
    /\ lines' = lines + 1
    /\ IF dev.able /\ priority >= dev.priority THEN EnterProcOutFileDevice(t, size)
       ELSE UNCHANGED <<handler, written>>
    /\ UNCHANGED <<dev, now>>

Tick(t) ==
    /\ t \in {now + 1, now + DaySeconds} /\ t <= MaxTime
    /\ now' = t
    /\ UNCHANGED <<dev, handler, written, lines>>

LogFileNext ==
    \/ \E t \in {now - 1, now}, size \in Sizes, priority \in 0 .. 1 : DispatchLog(t, size, priority)
    \/ \E t \in now .. MaxTime : Tick(t)

LogFileSpec == LogFileInit /\ [][LogFileNext]_logFileVars

-----------------------------------------------------------------------------
(* Properties *)

\* Type invariant of the file device.
LogFileTypeOK ==
    /\ handler.writer = Closed \/ (handler.writer \in DOMAIN handler.folder /\ handler.writer[2] = 0)
    /\ DOMAIN handler.folder \subseteq (0 .. MaxTime) \X (0 .. limit_roll)
    /\ handler.last_try \in 0 .. MaxTime /\ handler.size \in Nat

Generation(folder, day, k) == IF <<day, k>> \in DOMAIN folder THEN folder[<<day, k>>] ELSE <<>>

\* The logs in the files of a name up to generation max, the oldest first.
Generations(folder, day, max) ==
    LET upTo[k \in 0 .. max] ==
            IF k = 0 THEN Generation(folder, day, 0) ELSE Generation(folder, day, k) \o upTo[k - 1]
    IN upTo[max]

\* Rolling back drops whole logs from the old end only: whatever failed to open
\* or to be written, the generations of a name, oldest first, are the last logs
\* written under that name, in order and without a gap.
GenerationsAreSuffix ==
    \A day \in 0 .. MaxTime :
        \E n \in 0 .. Len(written[day]) :
            written[day] = SubSeq(written[day], 1, n) \o Generations(handler.folder, day, limit_roll)

\* A file with a date in its name has the logs of that day and no other's.
LogsOfTheDay ==
    \A p \in DOMAIN handler.folder :
        \A i \in DOMAIN handler.folder[p] : handler.folder[p][i].day = p[1]

\* CUR_FILE_SIZE, from which OpenFileDevice decides to roll back, is the size of
\* the file that is open, also after failed writes and reopening.
SizeIsTracked == handler.writer # Closed => handler.size = SizeOf(handler.folder[handler.writer])

\* With a limit and generations to roll back, no file passes the limit unless
\* it holds a single log that is larger.
SizeLimit ==
    dev.limit > 0 /\ dev.rollback > 0 =>
        \A p \in DOMAIN handler.folder :
            SizeOf(handler.folder[p]) <= dev.limit \/ Len(handler.folder[p]) = 1

\* The file device across failed opens and writes, days and rollbacks: its files
\* are the last logs in order, each under its day, and none grows past the limit.
LogFileIsKept ==
    LogFileTypeOK /\ GenerationsAreSuffix /\ LogsOfTheDay /\ SizeIsTracked /\ SizeLimit
=============================================================================

------------------------------- MODULE LogRing -------------------------------
(***************************************************************************)
(* The log channel of fn_log (include/util/fn_log.h) as the SDK's logger    *)
(* uses it: any thread may log, a log is held in a slot of a ring, filled,  *)
(* pushed, and dispatched to the devices by the channel's own thread        *)
(* (CHANNEL_ASYNC) or by whichever thread pushes (CHANNEL_SYNC).  The four  *)
(* indices and the marks of the slots are the only synchronisation.         *)
(*                                                                         *)
(* One step per atomic access that another thread can race with.  The four  *)
(* indices are kept as counters: the code's index is the counter modulo     *)
(* BUFFER_LEN, and the code compares indices only.  The counter tells a     *)
(* compare-and-swap that succeeds on the value it loaded from one that      *)
(* succeeds because the index has gone round the whole ring in between.     *)
(* Memory is sequentially consistent, as on the builds' x86 targets.        *)
(***************************************************************************)
EXTENDS Naturals, Sequences, FiniteSets

CONSTANTS
    Threads,      \* the threads that log
    Modes         \* the builds and configurations: see LogRingAssumption

\* A mode gives channel_type_, hot_update_, FN_LOG_USE_SHM (shm) and
\* FN_LOG_MAX_LOG_QUEUE_SIZE (len), and the two bounds: how many log statements
\* are executed (logs) and how often the logger is started (starts).
ASSUME LogRingAssumption ==
    /\ "async" \notin Threads
    /\ \A m \in Modes :
        /\ m.type \in {"ASYNC", "SYNC"} /\ m.hot_update \in BOOLEAN /\ m.shm \in BOOLEAN
        /\ m.len \in Nat /\ m.len > 1 /\ m.logs \in Nat /\ m.starts \in Nat

VARIABLES
    mode,           \* the mode, which never changes
    hold_idx, write_idx, proc_idx, read_idx,   \* RingBuffer, as counters
    buffer,         \* slot -> its mark and the log written in it
    channel_state,  \* NULL, RUNNING, WAITING_FINISH, FINISH
    logger_state,   \* UNINIT, INITING, RUNNING, CLOSING
    proc,           \* where each thread is, and what it has loaded
    ctl,            \* the thread that starts and stops the logger
    starts, issued, \* counters of the two bounds
    dispatched,     \* the logs given to the devices, in order
    ready,          \* ghost: the logs marked READY
    clean, quiet    \* ghost: see Clean and stop below

vars == <<mode, hold_idx, write_idx, proc_idx, read_idx, buffer, channel_state,
          logger_state, proc, ctl, starts, issued, dispatched, ready, clean, quiet>>

Indices == <<hold_idx, write_idx, proc_idx, read_idx>>
Life == <<channel_state, logger_state, ctl, starts, quiet>>
Async == "async"                    \* the channel's own thread
Procs == Threads \cup {Async}
BUFFER_LEN == mode.len
Slots == 0 .. BUFFER_LEN - 1
NoLog == <<"none", 0>>
Slot(i) == i % BUFFER_LEN
Free == [mark |-> "INVALID", log |-> NoLog]
Idle == [pc |-> "idle", at |-> 0, slot |-> 0, log |-> NoLog]
At(p, pc) == proc[p].pc = pc
Goto(p, pc) == proc' = [proc EXCEPT ![p].pc = pc, ![p].at = 0]
Begin(p, pc) == proc' = [proc EXCEPT ![p] = [Idle EXCEPT !.pc = pc]]
Load(p, pc, i) == proc' = [proc EXCEPT ![p].pc = pc, ![p].at = i]
Unlocked == ctl = "idle"     \* state_lock is free

\* Nobody slept through a whole lap of the ring between a load and its
\* compare-and-swap, and no stop found a thread inside a log statement.
Clean(i, p) == clean' = (clean /\ i = proc[p].at)
Swapped(i, p) == Slot(i) = Slot(proc[p].at)   \* compare_exchange_strong

Init ==
    /\ mode \in Modes
    /\ hold_idx = 0 /\ write_idx = 0 /\ proc_idx = 0 /\ read_idx = 0
    /\ buffer = [s \in Slots |-> Free]
    /\ channel_state = "NULL" /\ logger_state = "UNINIT"
    /\ proc = [p \in Procs |-> Idle]
    /\ ctl = "idle" /\ starts = 0 /\ issued = 0
    /\ dispatched = <<>> /\ ready = {} /\ clean = TRUE /\ quiet = TRUE

-----------------------------------------------------------------------------
(* HoldChannel *)

\* A log statement: LogStream's constructor calls HoldChannel.  A log that is
\* refused (the logger or the channel does not run, or the channel's filter
\* stops its priority or category) changes nothing.
LogStream(t) ==
    /\ At(t, "idle") /\ issued < mode.logs
    /\ logger_state = "RUNNING" /\ channel_state = "RUNNING"
    /\ issued' = issued + 1
    /\ proc' = [proc EXCEPT ![t] = [Idle EXCEPT !.pc = "hold_load", !.log = <<t, issued + 1>>]]
    /\ UNCHANGED <<mode, Indices, buffer, Life, dispatched, ready, clean>>

\* The head of the retry loop: the channel still runs, hold_idx_ is loaded.
HoldLoad(t) ==
    /\ At(t, "hold_load")
    /\ IF channel_state = "RUNNING" THEN Load(t, "hold_full", hold_idx)
       ELSE Begin(t, "idle")
    /\ UNCHANGED <<mode, Indices, buffer, Life, issued, dispatched, ready, clean>>

\* Mutant: the full ring is not noticed.
HoldFull_Never(t) ==
    /\ At(t, "hold_full") /\ Load(t, "hold_cas", proc[t].at)
    /\ UNCHANGED <<mode, Indices, buffer, Life, issued, dispatched, ready, clean>>

\* A full ring sends the thread back to the head after a sleep of 10 ms.
HoldFull(t) ==
    /\ At(t, "hold_full")
    /\ IF Slot(proc[t].at + 1) = Slot(read_idx) THEN Goto(t, "hold_load") ELSE Load(t, "hold_cas", proc[t].at)
    /\ UNCHANGED <<mode, Indices, buffer, Life, issued, dispatched, ready, clean>>

\* Mutant: the slot after the one that was held is returned.
HoldCas_Next(t) ==
    /\ At(t, "hold_cas")
    /\ hold_idx' = hold_idx + 1 /\ Clean(hold_idx, t)
    /\ proc' = [proc EXCEPT ![t].pc = "hold_mark", ![t].slot = Slot(hold_idx) + 1]
    /\ UNCHANGED <<mode, write_idx, proc_idx, read_idx, buffer, Life, issued, dispatched, ready>>

HoldCas(t) ==
    /\ At(t, "hold_cas")
    /\ IF Swapped(hold_idx, t)
       THEN /\ hold_idx' = hold_idx + 1 /\ Clean(hold_idx, t)
            /\ proc' = [proc EXCEPT ![t].pc = "hold_mark", ![t].at = 0, ![t].slot = Slot(hold_idx)]
       ELSE Goto(t, "hold_load") /\ UNCHANGED <<hold_idx, clean>>
    /\ UNCHANGED <<mode, write_idx, proc_idx, read_idx, buffer, Life, issued, dispatched, ready>>

\* The mark is stored after the compare-and-swap.
HoldMark(t) ==
    /\ At(t, "hold_mark")
    /\ buffer' = [buffer EXCEPT ![proc[t].slot].mark = "HOLD"]
    /\ Goto(t, "push")
    /\ UNCHANGED <<mode, Indices, Life, issued, dispatched, ready, clean>>

-----------------------------------------------------------------------------
(* PushChannel, called by LogStream's destructor *)

\* InitLogData and the << operators have filled the slot.  If the channel no
\* longer runs the log is dropped and its slot stays held.
PushCheck(t) ==
    /\ At(t, "push")
    /\ buffer' = [buffer EXCEPT ![proc[t].slot].log = proc[t].log]
    /\ IF channel_state = "RUNNING" THEN Goto(t, "push_mark")
       ELSE Begin(t, "idle")
    /\ UNCHANGED <<mode, Indices, Life, issued, dispatched, ready, clean>>

PushMark(t) ==
    /\ At(t, "push_mark")
    /\ buffer' = [buffer EXCEPT ![proc[t].slot].mark = "READY"]
    /\ ready' = ready \cup {proc[t].log}
    /\ Begin(t, "push_load")
    /\ UNCHANGED <<mode, Indices, Life, issued, dispatched, clean>>

PushLoad(t) ==
    /\ At(t, "push_load")
    /\ Load(t, "push_test", write_idx)
    /\ UNCHANGED <<mode, Indices, buffer, Life, issued, dispatched, ready, clean>>

\* Mutant: write_idx_ moves over slots that are still being filled.
PushTest_Unmarked(t) ==
    /\ At(t, "push_test")
    /\ IF Slot(proc[t].at) = Slot(hold_idx) THEN Goto(t, "push_done") ELSE Load(t, "push_cas", proc[t].at)
    /\ UNCHANGED <<mode, Indices, buffer, Life, issued, dispatched, ready, clean>>

\* write_idx_ moves over every slot marked READY up to hold_idx_.
PushTest(t) ==
    /\ At(t, "push_test")
    /\ IF \/ Slot(proc[t].at) = Slot(hold_idx)
          \/ buffer[Slot(proc[t].at)].mark # "READY"
       THEN Goto(t, "push_done") ELSE Load(t, "push_cas", proc[t].at)
    /\ UNCHANGED <<mode, Indices, buffer, Life, issued, dispatched, ready, clean>>

PushCas(t) ==
    /\ At(t, "push_cas")
    /\ Goto(t, IF channel_state = "RUNNING" THEN "push_load" ELSE "push_done")
    /\ IF Swapped(write_idx, t)
       THEN write_idx' = write_idx + 1 /\ Clean(write_idx, t)
       ELSE UNCHANGED <<write_idx, clean>>
    /\ UNCHANGED <<mode, hold_idx, proc_idx, read_idx, buffer, Life, issued, dispatched, ready>>

\* A synchronous channel processes in the thread that pushed.
PushDone(t) ==
    /\ At(t, "push_done")
    /\ IF mode.type = "SYNC" /\ channel_state = "RUNNING" THEN Goto(t, "proc_load")
       ELSE Begin(t, "idle")
    /\ UNCHANGED <<mode, Indices, buffer, Life, issued, dispatched, ready, clean>>

-----------------------------------------------------------------------------
(* EnterProcChannel *)

\* proc_idx_ is compared with write_idx_: equal means empty.
ProcLoad(p) ==
    /\ At(p, "proc_load")
    /\ IF Slot(proc_idx) = Slot(write_idx) THEN Goto(p, "proc_state") ELSE Load(p, "proc_cas", proc_idx)
    /\ UNCHANGED <<mode, Indices, buffer, Life, issued, dispatched, ready, clean>>

ProcCas(p) ==
    /\ At(p, "proc_cas")
    /\ IF Swapped(proc_idx, p)
       THEN /\ proc_idx' = proc_idx + 1 /\ Clean(proc_idx, p)
            /\ proc' = [proc EXCEPT ![p].pc = "dispatch", ![p].at = 0, ![p].slot = Slot(proc_idx)]
       ELSE Goto(p, "proc_state") /\ UNCHANGED <<proc_idx, clean>>
    /\ UNCHANGED <<mode, hold_idx, write_idx, read_idx, buffer, Life, issued, dispatched, ready>>

\* Mutant: the slot at proc_idx_, already moved on, is dispatched.
Dispatch_Moved(p) ==
    /\ At(p, "dispatch")
    /\ dispatched' = Append(dispatched, buffer[Slot(proc_idx)].log)
    /\ Goto(p, "proc_mark")
    /\ UNCHANGED <<mode, Indices, buffer, Life, issued, ready, clean>>

\* DispatchLog hands the slot to the devices, under the read lock if SYNC.
Dispatch(p) ==
    /\ At(p, "dispatch")
    /\ dispatched' = Append(dispatched, buffer[proc[p].slot].log)
    /\ Goto(p, "proc_mark")
    /\ UNCHANGED <<mode, Indices, buffer, Life, issued, ready, clean>>

\* Mutant: the mark of a dispatched slot is not reset.
ProcMark_Keeps(p) ==
    /\ At(p, "proc_mark") /\ Begin(p, "read_load")
    /\ UNCHANGED <<mode, Indices, buffer, Life, issued, dispatched, ready, clean>>

ProcMark(p) ==
    /\ At(p, "proc_mark")
    /\ buffer' = [buffer EXCEPT ![proc[p].slot].mark = "INVALID"]
    /\ Begin(p, "read_load")
    /\ UNCHANGED <<mode, Indices, Life, issued, dispatched, ready, clean>>

\* read_idx_ moves over the slots already processed, up to proc_idx_.
ReadLoad(p) ==
    /\ At(p, "read_load")
    /\ IF \/ Slot(read_idx) = Slot(proc_idx)
          \/ buffer[Slot(read_idx)].mark # "INVALID"
       THEN Goto(p, "proc_load") ELSE Load(p, "read_cas", read_idx)
    /\ UNCHANGED <<mode, Indices, buffer, Life, issued, dispatched, ready, clean>>

ReadCas(p) ==
    /\ At(p, "read_cas")
    /\ IF Swapped(read_idx, p)
       THEN read_idx' = read_idx + 1 /\ Clean(read_idx, p)
       ELSE UNCHANGED <<read_idx, clean>>
    /\ Goto(p, "read_load")
    /\ UNCHANGED <<mode, hold_idx, write_idx, proc_idx, buffer, Life, issued, dispatched, ready>>

\* Mutant: whatever the state, the channel runs again.
HotUpdateLogger_Runs(p) ==
    /\ At(p, "proc_state") /\ Goto(p, "proc_loop")
    /\ channel_state' = "RUNNING"
    /\ UNCHANGED <<mode, Indices, buffer, logger_state, ctl, starts, quiet, issued, dispatched, ready, clean>>

\* After the inner loop NULL becomes RUNNING, whoever set it to NULL.  Then
\* HotUpdateLogger returns at once unless hot updates are on and the file has
\* changed; if so it needs state_lock.
HotUpdateLogger(p) ==
    /\ At(p, "proc_state")
    /\ channel_state' = IF channel_state = "NULL" THEN "RUNNING" ELSE channel_state
    /\ \/ Goto(p, "proc_loop")
       \/ mode.hot_update /\ Goto(p, "hot_lock")
    /\ UNCHANGED <<mode, Indices, buffer, logger_state, ctl, starts, quiet, issued, dispatched, ready, clean>>

HotLocked(p) ==
    /\ At(p, "hot_lock") /\ Unlocked
    /\ Goto(p, "proc_loop")
    /\ UNCHANGED <<mode, Indices, buffer, Life, issued, dispatched, ready, clean>>

\* Mutant: a channel that is told to finish does not look at the logs left.
ProcLoop_NoDrain(p) ==
    /\ At(p, "proc_loop")
    /\ IF mode.type = "ASYNC" /\ channel_state = "RUNNING"
       THEN Goto(p, "proc_load") /\ UNCHANGED channel_state
       ELSE Begin(p, IF p = Async THEN "joinable" ELSE "idle") /\ channel_state' = "FINISH"
    /\ UNCHANGED <<mode, Indices, buffer, logger_state, ctl, starts, quiet, issued, dispatched, ready, clean>>

\* The channel's own thread goes on while the channel runs or logs are left.
ProcLoop(p) ==
    /\ At(p, "proc_loop")
    /\ LET again == \/ channel_state = "RUNNING"
                    \/ Slot(write_idx) # Slot(read_idx)
       IN IF mode.type = "ASYNC" /\ again
          THEN Goto(p, "proc_load") /\ UNCHANGED channel_state
          ELSE /\ Begin(p, IF p = Async THEN "joinable" ELSE "idle")
               /\ channel_state' = IF mode.type = "ASYNC" THEN "FINISH" ELSE channel_state
    /\ UNCHANGED <<mode, Indices, buffer, logger_state, ctl, starts, quiet, issued, dispatched, ready, clean>>

-----------------------------------------------------------------------------
(* StartLogger, StopLogger, ~Logger: one controlling thread, which holds
   state_lock from its first step to its last. *)

\* StartLogger up to StartChannels.
StartLogger ==
    /\ ctl = "idle" /\ logger_state = "UNINIT" /\ starts < mode.starts
    /\ starts' = starts + 1 /\ logger_state' = "INITING"
    /\ IF mode.type = "SYNC" THEN channel_state' = "RUNNING" /\ UNCHANGED proc
       ELSE Begin(Async, "proc_load") /\ UNCHANGED channel_state
    /\ ctl' = "start" /\ quiet' = TRUE
    /\ UNCHANGED <<mode, Indices, buffer, issued, dispatched, ready, clean>>

\* StartChannels has seen the channel run.
Started ==
    /\ ctl = "start" /\ channel_state = "RUNNING"
    /\ logger_state' = "RUNNING" /\ ctl' = "idle"
    /\ UNCHANGED <<mode, Indices, buffer, channel_state, proc, starts, quiet, issued, dispatched, ready, clean>>

\* The channel's thread has not run within 100 sleeps of 10 ms: StartChannels
\* fails, and StopChannels joins the thread without asking it to finish.
StartTimeout ==
    /\ ctl = "start" /\ channel_state = "NULL"
    /\ ctl' = "start_failed"
    /\ UNCHANGED <<mode, Indices, buffer, channel_state, logger_state, proc, starts, quiet, issued, dispatched, ready, clean>>

\* StopChannels of a failed start: WAITING_FINISH if the channel runs by now.
StartFailed ==
    /\ ctl = "start_failed"
    /\ channel_state' = IF channel_state = "RUNNING" THEN "WAITING_FINISH" ELSE channel_state
    /\ ctl' = "join_failed"
    /\ UNCHANGED <<mode, Indices, buffer, logger_state, proc, starts, quiet, issued, dispatched, ready, clean>>

StartJoined ==
    /\ ctl = "join_failed" /\ At(Async, "joinable")
    /\ Begin(Async, "idle")
    /\ channel_state' = "NULL" /\ logger_state' = "UNINIT" /\ ctl' = "idle"
    /\ UNCHANGED <<mode, Indices, buffer, starts, quiet, issued, dispatched, ready, clean>>

\* StopLogger, called by ~Logger or by the program.
StopLogger ==
    /\ ctl = "idle" /\ logger_state = "RUNNING"
    /\ logger_state' = "CLOSING" /\ ctl' = "stop"
    /\ UNCHANGED <<mode, Indices, buffer, channel_state, proc, starts, quiet, issued, dispatched, ready, clean>>

\* StopChannels tells the channel; quiet and clean record whether a thread is
\* inside a log statement at this moment.
StopChannels ==
    /\ ctl = "stop"
    /\ channel_state' = CASE mode.type = "SYNC" -> "NULL"
                          [] mode.type = "ASYNC" /\ channel_state = "RUNNING" -> "WAITING_FINISH"
                          [] OTHER -> channel_state
    /\ ctl' = "join"
    /\ quiet' = \A t \in Threads : At(t, "idle")
    /\ clean' = (clean /\ quiet')
    /\ UNCHANGED <<mode, Indices, buffer, logger_state, proc, starts, issued, dispatched, ready>>

\* join has returned: CleanChannels drops what is between read and write and
\* resets the indices; marks between write and hold stay as they are.
CleanChannels ==
    /\ ctl = "join"
    /\ mode.type = "ASYNC" => At(Async, "joinable")
    /\ Begin(Async, "idle")
    /\ channel_state' = "NULL" /\ logger_state' = "UNINIT" /\ ctl' = "idle"
    /\ LET left == (Slot(write_idx) + BUFFER_LEN - Slot(read_idx)) % BUFFER_LEN
           dropped == {Slot(read_idx + k) : k \in 0 .. left - 1}
       IN buffer' = [s \in Slots |-> IF s \in dropped THEN [buffer[s] EXCEPT !.mark = "INVALID"] ELSE buffer[s]]
    /\ hold_idx' = 0 /\ write_idx' = 0 /\ proc_idx' = 0 /\ read_idx' = 0
    /\ UNCHANGED <<mode, starts, quiet, issued, dispatched, ready, clean>>

\* The process dies and a new one attaches the shared memory (FN_LOG_USE_SHM):
\* LoadSharedMemory declares every held slot ready and reads again from
\* read_idx_; logger_init clears the channels.
Crash ==
    /\ mode.shm /\ starts < mode.starts /\ logger_state # "UNINIT"
    /\ LET left == (Slot(hold_idx) + BUFFER_LEN - Slot(write_idx)) % BUFFER_LEN
           held == {Slot(write_idx + k) : k \in 0 .. left - 1}
       IN /\ buffer' = [s \in Slots |-> IF s \in held THEN [buffer[s] EXCEPT !.mark = "READY"] ELSE buffer[s]]
          /\ write_idx' = write_idx + left /\ hold_idx' = write_idx'
    /\ proc_idx' = read_idx
    /\ channel_state' = "NULL" /\ logger_state' = "UNINIT" /\ ctl' = "idle"
    /\ proc' = [p \in Procs |-> Idle]
    /\ UNCHANGED <<mode, read_idx, starts, quiet, issued, dispatched, ready, clean>>

-----------------------------------------------------------------------------
Log(t) == \/ LogStream(t) \/ HoldLoad(t) \/ HoldFull(t) \/ HoldCas(t) \/ HoldMark(t)
          \/ PushCheck(t) \/ PushMark(t) \/ PushLoad(t) \/ PushTest(t) \/ PushCas(t) \/ PushDone(t)

EnterProcChannel(p) ==
    \/ ProcLoad(p) \/ ProcCas(p) \/ Dispatch(p) \/ ProcMark(p)
    \/ ReadLoad(p) \/ ReadCas(p) \/ HotUpdateLogger(p) \/ HotLocked(p) \/ ProcLoop(p)

Control == \/ StartLogger \/ Started \/ StartTimeout \/ StartFailed \/ StartJoined
           \/ StopLogger \/ StopChannels \/ CleanChannels \/ Crash

\* The behaviour is followed until it is no longer clean.
Next == clean /\ (\/ \E t \in Threads : Log(t)
                  \/ \E p \in Procs : EnterProcChannel(p)
                  \/ Control)
Spec == Init /\ [][Next]_vars

\* A thread inside a log statement and the channel's thread keep running; a
\* start or a stop, once called, goes on as soon as what it waits for is there.
Fairness ==
    /\ \A t \in Threads : WF_vars(~At(t, "idle") /\ Log(t))
    /\ \A p \in Procs : WF_vars(EnterProcChannel(p))
    /\ WF_vars(Started) /\ WF_vars(StartFailed) /\ WF_vars(StartJoined)
    /\ WF_vars(StopChannels) /\ WF_vars(CleanChannels)
FairSpec == Spec /\ Fairness

-----------------------------------------------------------------------------
(* Properties *)

Logs == {NoLog} \cup (Threads \X (1 .. mode.logs))
Given == {dispatched[i] : i \in 1 .. Len(dispatched)}

\* The exception to what follows: a synchronous channel over shared memory.  Nobody
\* processes what a crash left until the next log statement does, which waits for
\* ever if the ring was left full; and the thread that processes an old log may free
\* a slot that another is filling.
Recoverable == mode.shm => mode.type = "ASYNC"

\* Type invariant of the ring, the threads and the controller.
TypeOK ==
    /\ mode \in Modes
    /\ {hold_idx, write_idx, proc_idx, read_idx} \subseteq Nat
    /\ buffer \in [Slots -> [mark : {"INVALID", "HOLD", "READY"}, log : Logs]]
    /\ channel_state \in {"NULL", "RUNNING", "WAITING_FINISH", "FINISH"}
    /\ logger_state \in {"UNINIT", "INITING", "RUNNING", "CLOSING"}
    /\ DOMAIN proc = Procs
    /\ \A p \in Procs : proc[p].slot \in Slots /\ proc[p].at \in Nat /\ proc[p].log \in Logs
    /\ issued \in 0 .. mode.logs /\ starts \in 0 .. mode.starts
    /\ Given \subseteq Logs /\ ready \subseteq Logs
    /\ clean \in BOOLEAN /\ quiet \in BOOLEAN

\* What EnterProcChannel hands to the devices is exactly what PushChannel has
\* marked ready, each log once: no slot is handed over half filled or twice,
\* although HoldChannel marks a slot only after hold_idx_ has moved past it.
DispatchedOnce ==
    clean /\ ~mode.shm =>
        /\ Given \subseteq ready
        /\ Cardinality(Given) = Len(dispatched)

\* A slot a thread is filling is not freed or taken by another: its owner's
\* mark or log stays until PushChannel passes it on.
HeldSlotIsOwned ==
    clean /\ Recoverable => \A t, u \in Threads :
        /\ At(t, "push") => buffer[proc[t].slot].mark = "HOLD"
        /\ t # u /\ {proc[t].pc, proc[u].pc} \subseteq {"hold_mark", "push", "push_mark"}
              => proc[t].slot # proc[u].slot

\* The logs of one thread reach the devices of an asynchronous channel in the
\* order of its log statements, whatever the other threads do.
ThreadOrder ==
    clean /\ mode.type = "ASYNC" /\ ~mode.shm =>
        \A i, j \in 1 .. Len(dispatched) :
            i < j /\ dispatched[i][1] = dispatched[j][1] => dispatched[i][2] < dispatched[j][2]

\* StopLogger loses nothing if no thread is logging when it is called: when
\* join returns, every log ever marked ready has been dispatched, those found
\* in the shared memory after a crash included.
StopDrains ==
    clean /\ Recoverable /\ ctl = "join" /\ (mode.type = "ASYNC" => At(Async, "joinable")) => ready \subseteq Given

\* A log statement returns, also when the ring is full.
LogReturns == \A t \in Threads : ~At(t, "idle") ~> (At(t, "idle") \/ ~clean \/ ~Recoverable)

\* StopLogger returns, with one exception: StopLogger holds state_lock while it
\* joins the channel's thread, which may be waiting for it in HotUpdateLogger.
StopReturns == (ctl = "join") ~> (ctl = "idle" \/ At(Async, "hot_lock") \/ ~clean)

\* The ring under any number of logging threads and one reader: a slot belongs to
\* one thread while it is filled, and each log reaches the devices once, complete
\* and in the order of its thread.
RingIsSound == TypeOK /\ HeldSlotIsOwned /\ DispatchedOnce /\ ThreadOrder

\* Neither a log statement on a full ring nor StopLogger waits for ever.
CallsReturn == LogReturns /\ StopReturns
=============================================================================

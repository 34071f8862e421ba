--------------------------------- MODULE File ---------------------------------
(***************************************************************************)
(* lidig_file (base/lidig_file.cpp) and the three sample applications that   *)
(* use one of its objects: sync reads a file whenever it changes and sends   *)
(* it (apps/sync.cpp), sync_server writes the files it receives              *)
(* (apps/sync_server.cpp), gateway samples two files in turn from a timer    *)
(* (apps/gateway.cpp).                                                       *)
(*                                                                         *)
(* Calls are posted to libuv's thread pool and completed in any order.  Reads *)
(* and closes share the object's one uv_fs_t, handle_, and on_write closes     *)
(* whatever file is open by then: opening a file while a request of the        *)
(* previous one is in flight ends the behaviour (orderly becomes FALSE), since *)
(* what libuv does then is undefined.  Sizes count units of which CHUNK make the   *)
(* 1024 bytes of one read.                                                   *)
(***************************************************************************)
EXTENDS Integers, FiniteSets, Sequences

CONSTANTS
    Names,       \* file names
    CHUNK,       \* units per read of readfile
    MaxSize,     \* bound: size of a file
    MaxCalls     \* bound: changes, events, packets and timer ticks; so of descriptors too

ASSUME FileAssumption == CHUNK \in Nat \ {0} /\ MaxSize \in Nat /\ CHUNK < MaxSize /\ MaxCalls \in Nat

VARIABLES
    app,         \* which application runs
    disk,        \* file -> its size, -1 if it does not exist
    os,          \* descriptors the system has open, with their files
    fd,          \* fd_
    file,        \* file_name_, file_size_, file_offset_
    reqs,        \* requests in flight
    cpu,         \* gateway: cpu_
    calls, files,\* counters: calls made, descriptors handed out
    sent,        \* sync: what was sent; gateway: what was published
    orderly, changed, failed   \* ghost: see above; a file changed while read; an open or read failed

fileVars == <<app, disk, os, fd, file, reqs, cpu, calls, files, sent, orderly, changed, failed>>
callVars == <<app, cpu>>

NoFile == [name |-> "", size |-> 0, offset |-> 0]
Req(op, d, n) == [op |-> op, fd |-> d, n |-> n]
Read(d, offset) == Req("read", d, offset)
FileMin(a, b) == IF a < b THEN a ELSE b

\* fd_ and cpu_ are not initialised by the constructors: any value is possible.
FileInit ==
    /\ app \in {"sync", "sync_server", "gateway"}
    /\ disk \in [Names -> {-1, CHUNK + 1}]
    /\ fd \in {0, -1} /\ cpu \in {"CPULOAD", "TEMPERATURE", "RES_MAX"}
    /\ os = {} /\ file = NoFile /\ reqs = {} /\ calls = 0 /\ files = 0
    /\ sent = <<>>
    /\ orderly = TRUE /\ changed = FALSE /\ failed = FALSE

-----------------------------------------------------------------------------
(* lidig_file *)

\* open: synchronous, on handle_, with the flags O_RDONLY | flags: the result
\* can be read, and written only if the caller asks for O_RDWR, which none of
\* these does.  A file that is not there is an error unless it is created.
open(n, create, refused) ==
    LET ok == ~refused /\ (create \/ disk[n] >= 0)
    IN /\ fd' = IF ok THEN files + 1 ELSE -1
       /\ os' = IF ok THEN os \cup {[fd |-> files + 1, name |-> n]} ELSE os
       /\ files' = IF ok THEN files + 1 ELSE files
       /\ disk' = IF ok /\ create THEN [disk EXCEPT ![n] = 0] ELSE disk
       /\ failed' = (failed \/ ~ok)
       /\ orderly' = (orderly /\ reqs = {})

\* close: nothing unless fd_ is a descriptor; fd_ is forgotten at once.
close(pending) ==
    /\ reqs' = IF fd > 0 THEN pending \cup {Req("close", fd, 0)} ELSE pending
    /\ fd' = IF fd > 0 THEN 0 ELSE fd

\* Mutant: the whole file is assumed after the first read.
readfile_Once(r, nread) ==
    /\ close(reqs \ {r})
    /\ IF nread <= 0 THEN UNCHANGED <<file, sent>>
       ELSE /\ file' = [file EXCEPT !.offset = @ + nread]
            /\ sent' = Append(sent, [name |-> file.name, size |-> file.size, n |-> file.offset + nread, changed |-> changed])

\* readfile's callback: end of file or an error closes; otherwise the chunk is
\* copied, and the next one is read or the whole is given to on_read, which
\* sends it, and the file is closed.
readfile_cb(r, nread) ==
    IF nread <= 0 THEN close(reqs \ {r}) /\ UNCHANGED <<file, sent>>
    ELSE /\ file' = [file EXCEPT !.offset = @ + nread]
         /\ IF file'.offset < file.size
            THEN reqs' = (reqs \ {r}) \cup {Read(fd, file'.offset)} /\ UNCHANGED <<fd, sent>>
            ELSE /\ close(reqs \ {r})
                 /\ sent' = Append(sent, [name |-> file.name, size |-> file.size, n |-> file'.offset, changed |-> changed])

-----------------------------------------------------------------------------
(* The applications' handlers *)

\* Mutant: readfile goes on although open failed.
on_changed_Unchecked(n) ==
    /\ app = "sync" /\ calls < MaxCalls
    /\ calls' = calls + 1 /\ open(n, FALSE, FALSE)
    /\ file' = [name |-> n, size |-> disk[n], offset |-> 0]
    /\ reqs' = reqs \cup {Read(fd', 0)}
    /\ changed' = FALSE
    /\ UNCHANGED <<callVars, sent>>

\* sync_file::on_changed: readfile of the file that changed.
on_changed(n) ==
    /\ app = "sync" /\ calls < MaxCalls
    /\ calls' = calls + 1
    /\ \E refused \in BOOLEAN : open(n, FALSE, refused)
    /\ file' = IF fd' < 0 THEN [file EXCEPT !.name = n] ELSE [name |-> n, size |-> disk[n], offset |-> 0]
    /\ reqs' = IF fd' < 0 THEN reqs ELSE reqs \cup {Read(fd', 0)}
    /\ changed' = (changed /\ fd' < 0)
    /\ UNCHANGED <<callVars, sent>>

\* A read completes: readfile's callback in sync; on_read in gateway, which
\* closes, publishes and turns to the other file unless the read failed.
ReadDone(r, nread) ==
    \/ /\ app = "sync" /\ readfile_cb(r, nread)
       /\ failed' = (failed \/ nread <= 0)
       /\ UNCHANGED <<callVars, disk, os, calls, files, orderly, changed>>
    \/ /\ app = "gateway"
       /\ IF nread < 0 THEN reqs' = reqs \ {r} /\ failed' = TRUE /\ UNCHANGED <<fd, cpu, sent>>
          ELSE /\ close(reqs \ {r})
               /\ cpu' = CASE cpu = "CPULOAD" -> "TEMPERATURE" [] cpu = "TEMPERATURE" -> "RES_MAX" [] OTHER -> cpu
               /\ sent' = Append(sent, [name |-> file.name, size |-> 0, n |-> nread, changed |-> FALSE])
               /\ UNCHANGED failed
       /\ UNCHANGED <<app, disk, os, file, calls, files, orderly, changed>>

\* Mutant: a failed open is remembered as no open at all, and read from.
on_time_AnyFd(n) ==
    /\ app = "gateway" /\ calls < MaxCalls /\ cpu # "RES_MAX"
    /\ calls' = calls + 1 /\ open(n, FALSE, FALSE)
    /\ reqs' = reqs \cup {Read(fd', 0)} /\ file' = [file EXCEPT !.name = n]
    /\ UNCHANGED <<callVars, sent, changed>>

\* test_mqtt::on_time: nothing while fd_ is not 0; the file of the current
\* sample is opened and read, whether open succeeded or not.
on_time(n) ==
    /\ app = "gateway" /\ fd = 0 /\ calls < MaxCalls
    /\ calls' = calls + 1
    /\ IF cpu = "RES_MAX"
       THEN cpu' = "CPULOAD" /\ UNCHANGED <<fd, os, files, disk, failed, orderly, reqs, file>>
       ELSE /\ \E refused \in BOOLEAN : open(n, FALSE, refused)
            /\ reqs' = reqs \cup {Read(fd', 0)} /\ file' = [file EXCEPT !.name = n]
            /\ UNCHANGED cpu
    /\ UNCHANGED <<app, sent, changed>>

\* sync_file_client::on_packet: the file is created or truncated, and the
\* data written to it.
on_packet(n) ==
    /\ app = "sync_server" /\ calls < MaxCalls
    /\ calls' = calls + 1
    /\ \E refused \in BOOLEAN : open(n, TRUE, refused)
    /\ reqs' = reqs \cup {Req("write", fd', 0)}
    /\ UNCHANGED <<callVars, file, sent, changed>>

\* Mutant: on_write leaves the file open.
WriteDone_Open(r) ==
    /\ reqs' = reqs \ {r}
    /\ UNCHANGED <<callVars, disk, os, fd, file, calls, files, sent, orderly, changed, failed>>

\* A write completes: it has failed, because open gave a descriptor that can
\* only be read, which on_write is not told; on_write closes whatever fd_ is
\* by now.
WriteDone(r) ==
    /\ close(reqs \ {r})
    /\ UNCHANGED <<callVars, disk, os, file, calls, files, sent, orderly, changed, failed>>

\* A close completes; on_close is empty in these applications.
CloseDone(r) ==
    /\ os' = {d \in os : d.fd # r.fd} /\ reqs' = reqs \ {r}
    /\ UNCHANGED <<callVars, disk, fd, file, calls, files, sent, orderly, changed, failed>>

\* Another program writes a file.
Change(n, size) ==
    /\ app = "sync" /\ disk[n] # size /\ calls < MaxCalls
    /\ calls' = calls + 1
    /\ disk' = [disk EXCEPT ![n] = size]
    /\ changed' = (changed \/ n = file.name)
    /\ UNCHANGED <<callVars, os, fd, file, reqs, files, sent, orderly, failed>>

-----------------------------------------------------------------------------
\* What a read of a request's descriptor may return: a chunk, less at the end
\* of the file, or an error.
Results(r) ==
    {-1} \cup {FileMin(CHUNK, disk[d.name] - r.n) : d \in {e \in os : e.fd = r.fd /\ disk[e.name] >= r.n}}

FileDone == \E r \in reqs : \/ r.op = "read" /\ \E nread \in Results(r) : ReadDone(r, nread)
                            \/ r.op = "write" /\ WriteDone(r)
                            \/ r.op = "close" /\ CloseDone(r)
FileNext == orderly /\ (\/ FileDone
                        \/ \E n \in Names : \/ on_changed(n) \/ on_time(n)
                                            \/ on_packet(n)
                                            \/ \E s \in 1 .. MaxSize : Change(n, s))

FileSpec == FileInit /\ [][FileNext]_fileVars

-----------------------------------------------------------------------------
(* Properties *)

\* Type invariant of lidig_file and its requests.
FileTypeOK ==
    /\ disk \in [Names -> -1 .. MaxSize] /\ fd \in -1 .. MaxCalls
    /\ \A r \in reqs : r.op \in {"read", "write", "close"} /\ r.n \in 0 .. MaxSize
    /\ \A d \in os : d.name \in Names /\ d.fd \in 1 .. MaxCalls
    /\ file.size \in 0 .. MaxSize

\* No descriptor is forgotten: what the system has open is fd_ or is being
\* closed, on every error path of open, readfile and the handlers.
NoDescriptorLost ==
    orderly => {d.fd : d \in os} = {d \in {fd} : d > 0} \cup {r.fd : r \in {q \in reqs : q.op = "close"}}

\* readfile hands over the whole file, in one piece, if nobody wrote to it in
\* between; and it copies past the buffer that stat sized only if somebody did.
WholeFile ==
    orderly /\ app = "sync" =>
        /\ ~changed => file.offset <= file.size
        /\ \A i \in 1 .. Len(sent) : ~sent[i].changed => sent[i].n = sent[i].size

\* Everything that was begun ends with the file closed; only the gateway can
\* keep a descriptor or an error in fd_, and only after an open or read failed
\* (from then on on_time does nothing for ever), or because fd_ was never set.
FileClosed == [](reqs # {} => <>(~orderly \/ (reqs = {} /\ os = {}) \/ (app = "gateway" /\ failed)))

\* lidig_file under sync, sync_server and the gateway: no descriptor is lost and a
\* file that nobody writes to is handed over whole, however the requests fail.
FileIsWhole == FileTypeOK /\ NoDescriptorLost /\ WholeFile
=============================================================================

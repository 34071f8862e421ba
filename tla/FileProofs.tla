----------------------------- MODULE FileProofs -----------------------------
(***************************************************************************)
(* Proofs about lidig_file and the applications that use it (File), and about  *)
(* fn_log: its configuration (LogConfig), its file device (LogFile), its ring  *)
(* (LogRing) and its lines (LogText).                                         *)
(***************************************************************************)
EXTENDS File, LogConfig, LogFile, LogRing, LogText, RecursionLemmas, FiniteSetTheorems, SequenceTheorems, TLAPS

(***************************************************************************)
(* lidig_file                                                              *)
(***************************************************************************)
FileNames == Names \cup {""}
OpenFile == [fd : Nat, name : Names]
Request == [op : {"read", "write", "close"}, fd : Int, n : 0 .. MaxSize]
SentFile == [name : FileNames, size : 0 .. MaxSize, n : Nat, changed : BOOLEAN]

FileStateOK ==
    /\ app \in {"sync", "sync_server", "gateway"} /\ disk \in [Names -> -1 .. MaxSize]
    /\ calls \in 0 .. MaxCalls /\ files \in 0 .. calls /\ fd \in -1 .. files
    /\ os \subseteq OpenFile /\ \A d \in os : d.fd \in 1 .. files
    /\ reqs \subseteq Request
    /\ file \in [name : FileNames, size : 0 .. MaxSize, offset : Nat]
    /\ sent \in Seq(SentFile)
    /\ orderly \in BOOLEAN /\ changed \in BOOLEAN /\ failed \in BOOLEAN

\* The requests of an orderly object: one at a time, for the file that fd_ has open,
\* which fd_ has forgotten while it is closed; without one, only the gateway may
\* keep a file open.
OneRequest ==
    /\ \A q, r \in reqs : q = r
    /\ \A r \in reqs : IF r.op = "close" THEN fd = 0 /\ r.fd > 0 ELSE r.fd = fd
    /\ app # "gateway" /\ reqs = {} => fd <= 0

Descriptors == {d.fd : d \in os} = {d \in {fd} : d > 0} \cup {r.fd : r \in {q \in reqs : q.op = "close"}}

\* readfile goes on where it is, in the file that is open, whose size is the one it
\* began with unless somebody wrote to it.
Reading ==
    app = "sync" =>
        \A r \in reqs : r.op = "read" =>
            /\ r.n = file.offset /\ file.name \in Names
            /\ ~changed => disk[file.name] = file.size
            /\ \A d \in os : d.fd = fd => d.name = file.name

Whole ==
    app = "sync" =>
        /\ ~changed => file.offset <= file.size
        /\ \A i \in 1 .. Len(sent) : ~sent[i].changed => sent[i].n = sent[i].size

\* The inductive invariant of lidig_file in its applications.
FileInv == FileStateOK /\ (orderly => OneRequest /\ Descriptors /\ Reading /\ Whole)

LEMMA FileInvWhole == FileInv => FileIsWhole
<1> SUFFICES ASSUME FileInv PROVE FileIsWhole
  OBVIOUS
<1>1. FileTypeOK
  <2>1. MaxCalls \in Nat /\ calls \in 0 .. MaxCalls /\ files \in 0 .. calls
    BY FileAssumption DEF FileInv, FileStateOK
  <2>2. -1 .. files \subseteq -1 .. MaxCalls /\ 1 .. files \subseteq 1 .. MaxCalls
    BY <2>1
  <2> QED BY <2>2 DEF FileInv, FileStateOK, FileTypeOK, Request, OpenFile
<1>2. NoDescriptorLost
  BY DEF FileInv, Descriptors, NoDescriptorLost
<1>3. WholeFile
  BY DEF FileInv, Whole, WholeFile
<1> QED BY <1>1, <1>2, <1>3 DEF FileIsWhole

LEMMA FileInitInv == FileInit => FileInv
<1> SUFFICES ASSUME FileInit PROVE FileInv
  OBVIOUS
<1>1. FileStateOK
  <2>1. {-1, CHUNK + 1} \subseteq -1 .. MaxSize /\ 0 \in 0 .. MaxSize /\ 0 \in 0 .. MaxCalls
    BY FileAssumption
  <2>2. disk \in [Names -> -1 .. MaxSize]
    BY <2>1 DEF FileInit
  <2>3. file \in [name : FileNames, size : 0 .. MaxSize, offset : Nat]
    BY <2>1 DEF FileInit, NoFile, FileNames
  <2>4. /\ files = 0 /\ calls = 0 /\ os = {} /\ reqs = {} /\ sent = <<>>
        /\ orderly = TRUE /\ changed = FALSE /\ failed = FALSE
        /\ app \in {"sync", "sync_server", "gateway"}
    BY DEF FileInit
  <2>5. fd \in -1 .. files /\ files \in 0 .. calls /\ calls \in 0 .. MaxCalls
    BY <2>1, <2>4 DEF FileInit
  <2>6. sent \in Seq(SentFile)
    BY <2>4, EmptySeq
  <2> QED BY <2>2, <2>3, <2>4, <2>5, <2>6 DEF FileStateOK
<1>2. OneRequest /\ Descriptors /\ Reading /\ Whole
  <2>1. fd \in {0, -1} /\ os = {} /\ reqs = {} /\ file.offset = 0 /\ file.size = 0 /\ sent = <<>>
    BY DEF FileInit, NoFile
  <2>2. fd <= 0 /\ {d \in {fd} : d > 0} = {}
    BY <2>1
  <2>3. Descriptors
    BY <2>1, <2>2 DEF Descriptors
  <2> QED BY <2>1, <2>2, <2>3 DEF OneRequest, Reading, Whole
<1> QED BY <1>1, <1>2 DEF FileInv

\* What open does: the new descriptor is one that the system has not open.
LEMMA OpenDone ==
    ASSUME FileInv, orderly, calls < MaxCalls, calls' = calls + 1,
           NEW n \in Names, NEW create \in BOOLEAN, NEW refused \in BOOLEAN, open(n, create, refused)
    PROVE  /\ disk' \in [Names -> -1 .. MaxSize] /\ (~create => disk' = disk)
           /\ calls' \in 0 .. MaxCalls /\ files' \in 0 .. calls' /\ fd' \in -1 .. files'
           /\ os' \subseteq OpenFile /\ \A d \in os' : d.fd \in 1 .. files'
           /\ orderly' \in BOOLEAN /\ failed' \in BOOLEAN
           /\ orderly' => reqs = {}
           /\ \/ fd' = -1 /\ os' = os
              \/ /\ fd' > 0 /\ os' = os \cup {[fd |-> fd', name |-> n]}
                 /\ \A d \in os : d.fd # fd'
                 /\ ~create => disk[n] \in 0 .. MaxSize
<1> DEFINE ok == ~refused /\ (create \/ disk[n] >= 0)
           f == files + 1
<1>1. /\ calls \in 0 .. MaxCalls /\ files \in 0 .. calls /\ MaxCalls \in Nat /\ MaxSize \in Nat
      /\ disk \in [Names -> -1 .. MaxSize] /\ failed \in BOOLEAN
      /\ os \subseteq OpenFile /\ \A d \in os : d.fd \in 1 .. files
  BY FileAssumption DEF FileInv, FileStateOK
<1>2. /\ calls' \in 0 .. MaxCalls /\ f \in 1 .. calls' /\ files \in 0 .. calls' /\ f > 0 /\ f \in Nat
      /\ 1 .. files \subseteq 1 .. f /\ f \notin 1 .. files /\ 0 \in -1 .. MaxSize
      /\ f \in 0 .. calls' /\ f \in -1 .. f /\ -1 \in -1 .. files /\ f \in 1 .. f
  BY <1>1
<1>3. /\ fd' = IF ok THEN f ELSE -1
      /\ os' = IF ok THEN os \cup {[fd |-> f, name |-> n]} ELSE os
      /\ files' = IF ok THEN f ELSE files
      /\ disk' = IF ok /\ create THEN [disk EXCEPT ![n] = 0] ELSE disk
      /\ failed' = (failed \/ ~ok)
      /\ orderly' = (orderly /\ reqs = {})
  BY DEF open
<1>4. disk' \in [Names -> -1 .. MaxSize] /\ (~create => disk' = disk) /\ failed' \in BOOLEAN
      /\ orderly' \in BOOLEAN /\ (orderly' => reqs = {})
  BY <1>1, <1>2, <1>3
<1>5. CASE ~ok
  BY <1>1, <1>2, <1>3, <1>4, <1>5
<1>6. CASE ok
  <2>1. fd' = f /\ files' = f /\ os' = os \cup {[fd |-> f, name |-> n]}
    BY <1>3, <1>6
  <2>2. [fd |-> f, name |-> n] \in OpenFile
    BY <1>2 DEF OpenFile
  <2>3. ~create => disk[n] \in 0 .. MaxSize
    BY <1>1, <1>6
  <2> HIDE DEF f, ok
  <2> QED BY <1>1, <1>2, <1>4, <2>1, <2>2, <2>3
<1> QED BY <1>5, <1>6

\* What close does when it is given all there was to wait for: the file that was
\* open is now being closed.
LEMMA CloseDescriptors ==
    ASSUME FileStateOK, NEW pending, pending = {}, Descriptors, close(pending), UNCHANGED os,
           \A q \in reqs : q.op # "close"
    PROVE  /\ fd' \in -1 .. files /\ reqs' \subseteq Request
           /\ \A q, r \in reqs' : q = r
           /\ \A r \in reqs' : r.op = "close" /\ fd' = 0 /\ r.fd > 0
           /\ fd' <= 0 /\ Descriptors'
<1>1. fd \in -1 .. files /\ files \in Nat /\ fd \in Int /\ 0 \in 0 .. MaxSize /\ 0 \in -1 .. files
  BY FileAssumption DEF FileStateOK
<1>2. {r.fd : r \in {q \in reqs : q.op = "close"}} = {}
  OBVIOUS
<1>3. CASE fd > 0
  <2> DEFINE c == Req("close", fd, 0)
  <2>1. reqs' = {c} /\ fd' = 0
    BY <1>3 DEF close
  <2>2. c \in Request /\ c.op = "close" /\ c.fd = fd
    BY <1>1 DEF Req, Request
  <2>3. {d.fd : d \in os} = {fd}
    BY <1>2, <1>3 DEF Descriptors
  <2> HIDE DEF c
  <2>4. {r.fd : r \in {q \in reqs' : q.op = "close"}} = {fd} /\ {d \in {fd'} : d > 0} = {}
    BY <2>1, <2>2
  <2>5. Descriptors'
    BY <2>3, <2>4 DEF Descriptors
  <2> QED BY <1>1, <1>3, <2>1, <2>2, <2>5
<1>4. CASE ~(fd > 0)
  <2>1. reqs' = {} /\ fd' = fd
    BY <1>4 DEF close
  <2>2. {d \in {fd} : d > 0} = {} /\ {d \in {fd'} : d > 0} = {}
    BY <1>4, <2>1
  <2>3. Descriptors'
    BY <1>2, <2>1, <2>2 DEF Descriptors
  <2> QED BY <1>1, <1>4, <2>1, <2>3
<1> QED BY <1>3, <1>4

\* The descriptors after open, when fd_ had none and nothing was in flight.
LEMMA OpenDescriptors ==
    ASSUME FileInv, orderly, reqs = {}, fd <= 0, NEW n,
           \/ fd' = -1 /\ os' = os
           \/ fd' > 0 /\ os' = os \cup {[fd |-> fd', name |-> n]},
           \A q \in reqs' : q.op # "close"
    PROVE  Descriptors'
<1>1. {d.fd : d \in os} = {}
  <2>1. fd \in Int /\ FileInv /\ orderly
    BY DEF FileInv, FileStateOK
  <2>2. {d \in {fd} : d > 0} = {}
    BY <2>1
  <2>3. {r.fd : r \in {q \in reqs : q.op = "close"}} = {}
    OBVIOUS
  <2> QED BY <2>2, <2>3 DEF FileInv, Descriptors
<1>2. {r.fd : r \in {q \in reqs' : q.op = "close"}} = {}
  OBVIOUS
<1>3. CASE fd' = -1 /\ os' = os
  <2>1. {d \in {fd'} : d > 0} = {}
    BY <1>3
  <2> QED BY <1>1, <1>2, <1>3, <2>1 DEF Descriptors
<1>4. CASE fd' > 0 /\ os' = os \cup {[fd |-> fd', name |-> n]}
  <2> DEFINE new == [fd |-> fd', name |-> n]
  <2>1. os' = os \cup {new} /\ new.fd = fd'
    BY <1>4
  <2> HIDE DEF new
  <2>2. {d.fd : d \in os'} = {fd'}
    BY <1>1, <2>1
  <2>3. {d \in {fd'} : d > 0} = {fd'}
    BY <1>4
  <2> QED BY <1>2, <2>2, <2>3 DEF Descriptors
<1> QED BY <1>3, <1>4

\* sync: the file that changed is opened and read from its beginning.
LEMMA ChangedInv ==
    ASSUME FileInv, orderly, NEW n \in Names, on_changed(n)
    PROVE  FileInv'
<1>0. /\ app = "sync" /\ calls < MaxCalls /\ calls' = calls + 1
      /\ file' = IF fd' < 0 THEN [file EXCEPT !.name = n] ELSE [name |-> n, size |-> disk[n], offset |-> 0]
      /\ reqs' = IF fd' < 0 THEN reqs ELSE reqs \cup {Read(fd', 0)}
      /\ changed' = (changed /\ fd' < 0)
      /\ UNCHANGED <<callVars, sent>>
  BY DEF on_changed
<1>1. PICK refused \in BOOLEAN : open(n, FALSE, refused)
  BY DEF on_changed
<1>2. /\ disk' \in [Names -> -1 .. MaxSize] /\ disk' = disk
      /\ calls' \in 0 .. MaxCalls /\ files' \in 0 .. calls' /\ fd' \in -1 .. files'
      /\ os' \subseteq OpenFile /\ \A d \in os' : d.fd \in 1 .. files'
      /\ orderly' \in BOOLEAN /\ failed' \in BOOLEAN
      /\ orderly' => reqs = {}
      /\ \/ fd' = -1 /\ os' = os
         \/ /\ fd' > 0 /\ os' = os \cup {[fd |-> fd', name |-> n]}
            /\ \A d \in os : d.fd # fd'
            /\ disk[n] \in 0 .. MaxSize
  <2> DEFINE create == FALSE
  <2>1. create \in BOOLEAN /\ open(n, create, refused) /\ ~create
    BY <1>1
  <2> HIDE DEF create
  <2> QED BY <1>0, <2>1, OpenDone
<1>3. FileStateOK
  BY DEF FileInv
<1> DEFINE r == Read(fd', 0)
<1>4. fd' \in Int /\ 0 \in 0 .. MaxSize
  BY <1>2, FileAssumption
<1>5. r \in Request /\ r.op = "read" /\ r.fd = fd' /\ r.n = 0
  BY <1>4 DEF Request, Read, Req
<1> HIDE DEF r
<1>6. file' \in [name : FileNames, size : 0 .. MaxSize, offset : Nat]
  <2>1. n \in FileNames
    BY DEF FileNames
  <2>2. CASE fd' < 0
    <3>1. file' = [file EXCEPT !.name = n]
      BY <1>0, <2>2
    <3> QED BY <1>3, <2>1, <3>1 DEF FileStateOK
  <2>3. CASE ~(fd' < 0)
    <3>1. file' = [name |-> n, size |-> disk[n], offset |-> 0]
      BY <1>0, <2>3
    <3>2. disk[n] \in 0 .. MaxSize
      BY <1>2, <2>3
    <3> QED BY <2>1, <3>1, <3>2
  <2> QED BY <2>2, <2>3
<1>7. FileStateOK'
  <2>1. reqs' \subseteq Request
    BY <1>0, <1>3, <1>5 DEF FileStateOK, r
  <2>2. changed' \in BOOLEAN
    BY <1>0, <1>3 DEF FileStateOK
  <2> QED BY <1>0, <1>2, <1>3, <1>6, <2>1, <2>2 DEF FileStateOK, callVars
<1>8. ASSUME orderly' PROVE (OneRequest /\ Descriptors /\ Reading /\ Whole)'
  <2>1. reqs = {} /\ fd <= 0
    BY <1>0, <1>2, <1>8 DEF FileInv, OneRequest
  <2>2. Whole
    BY DEF FileInv
  <2>3. CASE fd' = -1 /\ os' = os
    <3>1. reqs' = {} /\ file' = [file EXCEPT !.name = n] /\ changed' = changed /\ fd' <= 0
      BY <1>0, <1>3, <2>1, <2>3 DEF FileStateOK
    <3>2. file'.offset = file.offset /\ file'.size = file.size
      BY <1>3, <3>1 DEF FileStateOK
    <3>3. Descriptors'
      BY <2>1, <2>3, <3>1, OpenDescriptors
    <3> QED BY <1>0, <2>2, <3>1, <3>2, <3>3 DEF OneRequest, Reading, Whole
  <2>4. CASE fd' > 0 /\ os' = os \cup {[fd |-> fd', name |-> n]} /\ disk[n] \in 0 .. MaxSize
                /\ \A d \in os : d.fd # fd'
    <3>1. ~(fd' < 0)
      BY <1>4, <2>4
    <3>2. reqs' = {r} /\ file' = [name |-> n, size |-> disk[n], offset |-> 0] /\ changed' = FALSE
      BY <1>0, <2>1, <3>1 DEF r
    <3>3. file'.name = n /\ file'.offset = 0 /\ file'.size = disk'[n] /\ 0 <= file'.size
      BY <1>2, <2>4, <3>2
    <3>4. Descriptors'
      BY <1>5, <2>1, <2>4, <3>2, OpenDescriptors
    <3>5. Reading'
      <4>1. \A d \in os' : d.fd = fd' => d.name = n
        BY <2>4
      <4> QED BY <1>5, <3>2, <3>3, <4>1 DEF Reading
    <3>6. OneRequest'
      BY <1>5, <3>2 DEF OneRequest
    <3>7. Whole'
      BY <1>0, <2>2, <3>3 DEF Whole, callVars
    <3> QED BY <3>4, <3>5, <3>6, <3>7
  <2> QED BY <1>2, <2>3, <2>4
<1> QED BY <1>7, <1>8 DEF FileInv

\* gateway: a file is opened only while fd_ is 0.
LEMMA TimeInv ==
    ASSUME FileInv, orderly, NEW n \in Names, on_time(n)
    PROVE  FileInv'
<1>0. app = "gateway" /\ fd = 0 /\ calls < MaxCalls /\ calls' = calls + 1 /\ UNCHANGED <<app, sent, changed>>
  BY DEF on_time
<1>1. FileStateOK
  BY DEF FileInv
<1>2. CASE cpu = "RES_MAX"
  <2>1. UNCHANGED <<fd, os, files, disk, failed, orderly, reqs, file>>
    BY <1>2 DEF on_time
  <2>2. calls' \in 0 .. MaxCalls /\ files \in 0 .. calls'
    BY <1>0, <1>1, FileAssumption DEF FileStateOK
  <2> QED BY <1>0, <1>1, <2>1, <2>2 DEF FileInv, FileStateOK, OneRequest, Descriptors, Reading, Whole
<1>3. CASE cpu # "RES_MAX"
  <2>1. PICK refused \in BOOLEAN : open(n, FALSE, refused)
    BY <1>3 DEF on_time
  <2>2. reqs' = reqs \cup {Read(fd', 0)} /\ file' = [file EXCEPT !.name = n]
    BY <1>3 DEF on_time
  <2>3. /\ disk' \in [Names -> -1 .. MaxSize] /\ calls' \in 0 .. MaxCalls /\ files' \in 0 .. calls' /\ fd' \in -1 .. files'
        /\ os' \subseteq OpenFile /\ \A d \in os' : d.fd \in 1 .. files'
        /\ orderly' \in BOOLEAN /\ failed' \in BOOLEAN /\ (orderly' => reqs = {})
        /\ \/ fd' = -1 /\ os' = os
           \/ fd' > 0 /\ os' = os \cup {[fd |-> fd', name |-> n]}
    <3> DEFINE create == FALSE
    <3>1. create \in BOOLEAN /\ open(n, create, refused)
      BY <2>1
    <3> HIDE DEF create
    <3> QED BY <1>0, <3>1, OpenDone
  <2> DEFINE r == Read(fd', 0)
  <2>4. fd' \in Int /\ 0 \in 0 .. MaxSize
    BY <2>3, FileAssumption
  <2>5. r \in Request /\ r.op = "read" /\ r.fd = fd'
    BY <2>4 DEF Request, Read, Req
  <2>6. reqs' = reqs \cup {r}
    BY <2>2
  <2> HIDE DEF r
  <2>7. FileStateOK'
    <3>1. file' \in [name : FileNames, size : 0 .. MaxSize, offset : Nat]
      BY <1>1, <2>2 DEF FileStateOK, FileNames
    <3> QED BY <1>0, <1>1, <2>3, <2>5, <2>6, <3>1 DEF FileStateOK
  <2>8. ASSUME orderly' PROVE (OneRequest /\ Descriptors /\ Reading /\ Whole)'
    <3>1. reqs = {} /\ reqs' = {r} /\ fd <= 0
      BY <1>0, <2>3, <2>6, <2>8
    <3>2. Descriptors'
      <4>1. \A q \in reqs' : q.op # "close"
        BY <2>5, <3>1
      <4> QED BY <2>3, <3>1, <4>1, OpenDescriptors
    <3> QED BY <1>0, <2>5, <3>1, <3>2 DEF OneRequest, Reading, Whole
  <2> QED BY <2>7, <2>8 DEF FileInv
<1> QED BY <1>2, <1>3

\* sync_server: a packet creates the file and writes it.
LEMMA PacketInv ==
    ASSUME FileInv, orderly, NEW n \in Names, on_packet(n)
    PROVE  FileInv'
<1>0. app = "sync_server" /\ calls < MaxCalls /\ calls' = calls + 1 /\ UNCHANGED <<callVars, file, sent, changed>>
  BY DEF on_packet
<1>1. FileStateOK
  BY DEF FileInv
<1>2. PICK refused \in BOOLEAN : open(n, TRUE, refused)
  BY DEF on_packet
<1>3. /\ disk' \in [Names -> -1 .. MaxSize] /\ calls' \in 0 .. MaxCalls /\ files' \in 0 .. calls' /\ fd' \in -1 .. files'
      /\ os' \subseteq OpenFile /\ \A d \in os' : d.fd \in 1 .. files'
      /\ orderly' \in BOOLEAN /\ failed' \in BOOLEAN /\ (orderly' => reqs = {})
      /\ \/ fd' = -1 /\ os' = os
         \/ fd' > 0 /\ os' = os \cup {[fd |-> fd', name |-> n]}
  <2> DEFINE create == TRUE
  <2>1. create \in BOOLEAN /\ open(n, create, refused)
    BY <1>2
  <2> HIDE DEF create
  <2> QED BY <1>0, <2>1, OpenDone
<1> DEFINE r == Req("write", fd', 0)
<1>4. fd' \in Int /\ 0 \in 0 .. MaxSize
  BY <1>3, FileAssumption
<1>5. r \in Request /\ r.op = "write" /\ r.fd = fd'
  BY <1>4 DEF Request, Req
<1>6. reqs' = reqs \cup {r}
  BY DEF on_packet
<1> HIDE DEF r
<1>7. FileStateOK'
  BY <1>0, <1>1, <1>3, <1>5, <1>6 DEF FileStateOK, callVars
<1>8. ASSUME orderly' PROVE (OneRequest /\ Descriptors /\ Reading /\ Whole)'
  <2>1. reqs = {} /\ reqs' = {r} /\ fd <= 0
    BY <1>0, <1>3, <1>6, <1>8 DEF FileInv, OneRequest
  <2>2. Descriptors'
    <3>1. \A q \in reqs' : q.op # "close"
      BY <1>5, <2>1
    <3> QED BY <1>3, <2>1, <3>1, OpenDescriptors
  <2> QED BY <1>0, <1>5, <2>1, <2>2 DEF OneRequest, Reading, Whole, callVars
<1> QED BY <1>7, <1>8 DEF FileInv

LEMMA ChangeInv ==
    ASSUME FileInv, orderly, NEW n \in Names, NEW s \in 1 .. MaxSize, Change(n, s)
    PROVE  FileInv'
<1>1. /\ calls < MaxCalls /\ calls' = calls + 1 /\ disk' = [disk EXCEPT ![n] = s]
      /\ changed' = (changed \/ n = file.name)
      /\ UNCHANGED <<callVars, os, fd, file, reqs, files, sent, orderly, failed>>
  BY DEF Change
<1>2. FileStateOK /\ OneRequest /\ Descriptors /\ Reading /\ Whole
  BY DEF FileInv
<1>3. calls' \in 0 .. MaxCalls /\ files \in 0 .. calls' /\ s \in -1 .. MaxSize
  BY <1>1, <1>2, FileAssumption DEF FileStateOK
<1>4. disk' \in [Names -> -1 .. MaxSize]
  BY <1>1, <1>2, <1>3 DEF FileStateOK
<1>5. changed' \in BOOLEAN
  BY <1>1, <1>2 DEF FileStateOK
<1>6. FileStateOK'
  BY <1>1, <1>2, <1>3, <1>4, <1>5 DEF FileStateOK, callVars
<1>7. OneRequest' /\ Descriptors'
  BY <1>1, <1>2 DEF OneRequest, Descriptors, callVars
<1>8. Reading'
  <2>1. ~changed' => ~changed /\ (file.name \in Names => disk'[file.name] = disk[file.name])
    BY <1>1, <1>2 DEF FileStateOK
  <2> QED BY <1>1, <1>2, <2>1 DEF Reading, callVars
<1>9. Whole'
  BY <1>1, <1>2 DEF Whole, callVars
<1> QED BY <1>6, <1>7, <1>8, <1>9 DEF FileInv
\* What a read may return: an error, or what is there of a chunk.
LEMMA ResultsTyped ==
    ASSUME FileStateOK, NEW r \in reqs, NEW nread \in Results(r)
    PROVE  /\ nread \in Int /\ nread >= -1
           /\ nread > 0 => \E d \in os : d.fd = r.fd /\ r.n + nread <= disk[d.name] /\ d.name \in Names
<1>1. CASE nread = -1
  BY <1>1
<1>2. CASE nread # -1
  <2>1. PICK d \in os : d.fd = r.fd /\ disk[d.name] >= r.n /\ nread = FileMin(CHUNK, disk[d.name] - r.n)
    BY <1>2 DEF Results
  <2>2. d.name \in Names /\ disk[d.name] \in -1 .. MaxSize /\ r.n \in 0 .. MaxSize
    BY DEF FileStateOK, OpenFile, Request
  <2> DEFINE size == disk[d.name]
             k == r.n
  <2>3. size \in Int /\ k \in Nat /\ size >= k /\ CHUNK \in Nat /\ CHUNK # 0
    BY <2>1, <2>2, FileAssumption
  <2>4. nread = IF CHUNK < size - k THEN CHUNK ELSE size - k
    BY <2>1 DEF FileMin
  <2>5. nread \in Int /\ nread >= -1 /\ k + nread <= size
    <3> HIDE DEF size, k
    <3> QED BY <2>3, <2>4
  <2> QED BY <2>1, <2>2, <2>5
<1> QED BY <1>1, <1>2

\* A request that ends with close: what was open is being closed.
LEMMA CloseInv ==
    ASSUME FileInv, orderly, NEW r \in reqs, r.op # "close", close(reqs \ {r}), UNCHANGED os
    PROVE  /\ fd' \in -1 .. files /\ reqs' \subseteq Request
           /\ \A q, s \in reqs' : q = s
           /\ \A q \in reqs' : q.op = "close" /\ fd' = 0 /\ q.fd > 0
           /\ fd' <= 0 /\ Descriptors'
<1> DEFINE pending == reqs \ {r}
<1>1. FileStateOK /\ pending = {} /\ Descriptors /\ \A q \in reqs : q.op # "close"
  BY DEF FileInv, OneRequest
<1>2. close(pending)
  OBVIOUS
<1> HIDE DEF pending
<1> QED BY <1>1, <1>2, CloseDescriptors

\* sync: a chunk was read, or nothing more; with the last one the whole file is
\* handed over.
LEMMA ChunkInv ==
    ASSUME FileInv, orderly, NEW r \in reqs, r.op = "read", NEW nread \in Results(r),
           app = "sync", readfile_cb(r, nread), failed' = (failed \/ nread <= 0),
           UNCHANGED <<callVars, disk, os, calls, files, orderly, changed>>
    PROVE  FileInv'
<1>1. FileStateOK /\ OneRequest /\ Descriptors /\ Reading /\ Whole
  BY DEF FileInv
<1>2. nread \in Int /\ (nread > 0 => \E d \in os : d.fd = r.fd /\ r.n + nread <= disk[d.name] /\ d.name \in Names)
  BY <1>1, ResultsTyped
<1>3. r.n = file.offset /\ file.name \in Names /\ r.fd = fd /\ reqs \ {r} = {}
      /\ (~changed => disk[file.name] = file.size)
      /\ \A d \in os : d.fd = fd => d.name = file.name
  BY <1>1 DEF Reading, OneRequest
<1>4. failed' \in BOOLEAN
  BY <1>1 DEF FileStateOK
<1>5. CASE nread <= 0
  <2>1. close(reqs \ {r}) /\ UNCHANGED <<file, sent>>
    BY <1>5 DEF readfile_cb
  <2>2. /\ fd' \in -1 .. files /\ reqs' \subseteq Request
        /\ \A q, s \in reqs' : q = s
        /\ \A q \in reqs' : q.op = "close" /\ fd' = 0 /\ q.fd > 0
        /\ fd' <= 0 /\ Descriptors'
    BY <2>1, CloseInv
  <2>3. FileStateOK'
    BY <1>1, <1>4, <2>1, <2>2 DEF FileStateOK, callVars
  <2> QED BY <1>1, <2>1, <2>2, <2>3 DEF FileInv, OneRequest, Reading, Whole, callVars
<1>6. CASE ~(nread <= 0)
  <2> DEFINE next == file.offset + nread
  <2>1. file' = [file EXCEPT !.offset = next]
    BY <1>6 DEF readfile_cb
  <2>2. /\ file.offset \in Nat /\ file.size \in 0 .. MaxSize /\ file.size \in Int /\ nread > 0
        /\ file \in [name : FileNames, size : 0 .. MaxSize, offset : Nat]
    BY <1>1, <1>2, <1>6, FileAssumption DEF FileStateOK
  <2>3. next \in Nat
    BY <1>2, <2>2
  <2>4. next <= disk[file.name] /\ disk[file.name] \in -1 .. MaxSize
    <3>1. PICK d \in os : d.fd = r.fd /\ r.n + nread <= disk[d.name] /\ d.name \in Names
      BY <1>2, <2>2
    <3>2. d.name = file.name
      BY <1>3, <3>1
    <3> QED BY <1>1, <1>3, <3>1, <3>2 DEF FileStateOK
  <2>5. ~changed => next <= file.size
    BY <1>3, <2>4
  <2>6. next \in 0 .. MaxSize
    BY <2>3, <2>4, FileAssumption
  <2> HIDE DEF next
  <2>7. /\ file'.offset = next /\ file'.size = file.size /\ file'.name = file.name
        /\ file' \in [name : FileNames, size : 0 .. MaxSize, offset : Nat]
    BY <2>1, <2>2, <2>3
  <2>8. CASE next < file.size
    <3> DEFINE new == Read(fd, next)
    <3>1. reqs' = (reqs \ {r}) \cup {new} /\ UNCHANGED <<fd, sent>>
      BY <1>6, <2>7, <2>8 DEF readfile_cb
    <3>2. reqs' = {new}
      BY <1>3, <3>1
    <3>3. fd \in Int
      BY <1>1 DEF FileStateOK
    <3>4. new \in Request /\ new.op = "read" /\ new.fd = fd /\ new.n = next
      BY <2>6, <3>3 DEF Request, Read, Req
    <3> HIDE DEF new
    <3>5. FileStateOK'
      BY <1>1, <1>4, <2>7, <3>1, <3>2, <3>4 DEF FileStateOK, callVars
    <3>6. OneRequest' /\ Descriptors'
      <4>1. {q.fd : q \in {s \in reqs' : s.op = "close"}} = {} /\ {q.fd : q \in {s \in reqs : s.op = "close"}} = {}
        BY <1>1, <3>2, <3>4 DEF OneRequest
      <4> QED BY <1>1, <3>1, <3>2, <3>4, <4>1 DEF OneRequest, Descriptors, callVars
    <3>7. Reading'
      BY <1>3, <2>7, <3>1, <3>2, <3>4 DEF Reading
    <3>8. Whole'
      BY <1>1, <2>5, <2>7, <3>1 DEF Whole, callVars
    <3> QED BY <3>5, <3>6, <3>7, <3>8 DEF FileInv
  <2>9. CASE ~(next < file.size)
    <3> DEFINE new == [name |-> file.name, size |-> file.size, n |-> next, changed |-> changed]
               k == Len(sent)
    <3>1. close(reqs \ {r}) /\ sent' = Append(sent, new)
      BY <1>6, <2>7, <2>9 DEF readfile_cb
    <3>2. /\ fd' \in -1 .. files /\ reqs' \subseteq Request
          /\ \A q, s \in reqs' : q = s
          /\ \A q \in reqs' : q.op = "close" /\ fd' = 0 /\ q.fd > 0
          /\ fd' <= 0 /\ Descriptors'
      BY <3>1, CloseInv
    <3>3. new \in SentFile /\ new.n = next /\ new.size = file.size /\ new.changed = changed
      BY <1>1, <2>2, <2>3 DEF SentFile, FileStateOK
    <3> HIDE DEF new
    <3>4. /\ sent' \in Seq(SentFile) /\ k \in Nat /\ Len(sent') = k + 1 /\ sent'[k + 1] = new
          /\ \A i \in 1 .. k : sent'[i] = sent[i]
      BY <1>1, <3>1, <3>3, AppendProperties DEF FileStateOK
    <3>5. FileStateOK'
      BY <1>1, <1>4, <2>7, <3>2, <3>4 DEF FileStateOK, callVars
    <3>6. ~changed => next = file.size
      BY <2>2, <2>3, <2>5, <2>9
    <3>7. Whole'
      <4> SUFFICES /\ ~changed => file'.offset <= file'.size
                   /\ \A i \in 1 .. Len(sent') : ~sent'[i].changed => sent'[i].n = sent'[i].size
        BY DEF Whole
      <4>1. ASSUME NEW i \in 1 .. k + 1, ~sent'[i].changed PROVE sent'[i].n = sent'[i].size
        <5> HIDE DEF k
        <5>1. CASE i = k + 1
          BY <3>3, <3>4, <3>6, <4>1, <5>1
        <5>2. CASE i \in 1 .. k
          <6>1. i \in 1 .. Len(sent)
            BY <5>2 DEF k
          <6> QED BY <1>1, <3>4, <4>1, <5>2, <6>1 DEF Whole
        <5> QED BY <3>4, <5>1, <5>2
      <4>2. ~changed => file'.offset <= file'.size
        BY <2>5, <2>7
      <4> HIDE DEF k
      <4> QED BY <3>4, <4>1, <4>2
    <3> QED BY <3>2, <3>5, <3>7 DEF FileInv, OneRequest, Reading, callVars
  <2> QED BY <2>8, <2>9
<1> QED BY <1>5, <1>6

\* gateway: what was read is published and the file closed; after an error it stays open.
LEMMA SampleInv ==
    ASSUME FileInv, orderly, NEW r \in reqs, r.op = "read", NEW nread \in Results(r),
           app = "gateway", ReadDone(r, nread)
    PROVE  FileInv'
<1>1. FileStateOK /\ OneRequest /\ Descriptors
  BY DEF FileInv
<1>2. nread \in Int
  BY <1>1, ResultsTyped
<1>3. /\ UNCHANGED <<app, disk, os, file, calls, files, orderly, changed>>
      /\ IF nread < 0 THEN reqs' = reqs \ {r} /\ failed' = TRUE /\ UNCHANGED <<fd, cpu, sent>>
         ELSE /\ close(reqs \ {r}) /\ UNCHANGED failed
              /\ sent' = Append(sent, [name |-> file.name, size |-> 0, n |-> nread, changed |-> FALSE])
  BY DEF ReadDone
<1>4. CASE nread < 0
  <2>1. reqs' = {} /\ failed' = TRUE /\ UNCHANGED <<fd, sent>>
    BY <1>1, <1>3, <1>4 DEF OneRequest
  <2>2. {q.fd : q \in {s \in reqs' : s.op = "close"}} = {} /\ {q.fd : q \in {s \in reqs : s.op = "close"}} = {}
    BY <1>1, <2>1 DEF OneRequest
  <2>3. FileStateOK'
    BY <1>1, <1>3, <2>1 DEF FileStateOK
  <2> QED BY <1>1, <1>3, <2>1, <2>2, <2>3 DEF FileInv, OneRequest, Descriptors, Reading, Whole
<1>5. CASE ~(nread < 0)
  <2> DEFINE new == [name |-> file.name, size |-> 0, n |-> nread, changed |-> FALSE]
  <2>1. close(reqs \ {r}) /\ failed' = failed /\ sent' = Append(sent, new) /\ UNCHANGED os
    BY <1>3, <1>5
  <2>2. /\ fd' \in -1 .. files /\ reqs' \subseteq Request
        /\ \A q, s \in reqs' : q = s
        /\ \A q \in reqs' : q.op = "close" /\ fd' = 0 /\ q.fd > 0
        /\ fd' <= 0 /\ Descriptors'
    BY <2>1, CloseInv
  <2>3. new \in SentFile
    BY <1>1, <1>2, <1>5, FileAssumption DEF SentFile, FileStateOK
  <2> HIDE DEF new
  <2>4. sent' \in Seq(SentFile)
    BY <1>1, <2>1, <2>3, AppendProperties DEF FileStateOK
  <2>5. FileStateOK'
    BY <1>1, <1>3, <2>1, <2>2, <2>4 DEF FileStateOK
  <2> QED BY <1>3, <2>2, <2>5 DEF FileInv, OneRequest, Reading, Whole
<1> QED BY <1>4, <1>5

LEMMA WriteInv ==
    ASSUME FileInv, orderly, NEW r \in reqs, r.op = "write", WriteDone(r)
    PROVE  FileInv'
<1>1. FileStateOK /\ OneRequest /\ Reading /\ Whole
  BY DEF FileInv
<1>2. close(reqs \ {r}) /\ UNCHANGED <<callVars, disk, os, file, calls, files, sent, orderly, changed, failed>>
  BY DEF WriteDone
<1>3. /\ fd' \in -1 .. files /\ reqs' \subseteq Request
      /\ \A q, s \in reqs' : q = s
      /\ \A q \in reqs' : q.op = "close" /\ fd' = 0 /\ q.fd > 0
      /\ fd' <= 0 /\ Descriptors'
  BY <1>2, CloseInv
<1>4. FileStateOK'
  BY <1>1, <1>2, <1>3 DEF FileStateOK, callVars
<1> QED BY <1>1, <1>2, <1>3, <1>4 DEF FileInv, OneRequest, Reading, Whole, callVars

LEMMA CloseDoneInv ==
    ASSUME FileInv, orderly, NEW r \in reqs, r.op = "close", CloseDone(r)
    PROVE  FileInv'
<1>1. FileStateOK /\ OneRequest /\ Descriptors /\ Reading /\ Whole
  BY DEF FileInv
<1>2. /\ os' = {d \in os : d.fd # r.fd} /\ reqs' = reqs \ {r}
      /\ UNCHANGED <<callVars, disk, fd, file, calls, files, sent, orderly, changed, failed>>
  BY DEF CloseDone
<1>3. reqs = {r} /\ reqs' = {} /\ fd = 0 /\ fd' = 0
  BY <1>1, <1>2 DEF OneRequest
<1>4. {q.fd : q \in {s \in reqs : s.op = "close"}} = {r.fd} /\ {q.fd : q \in {s \in reqs' : s.op = "close"}} = {}
  BY <1>3
<1>5. {d \in {fd} : d > 0} = {} /\ {d \in {fd'} : d > 0} = {}
  BY <1>3
<1>6. \A d \in os : d.fd = r.fd
  <2>1. {d.fd : d \in os} = {r.fd}
    BY <1>1, <1>4, <1>5 DEF Descriptors
  <2> QED BY <2>1
<1>7. os' = {}
  BY <1>2, <1>6
<1>8. Descriptors'
  BY <1>4, <1>5, <1>7 DEF Descriptors
<1>9. FileStateOK'
  BY <1>1, <1>2 DEF FileStateOK, callVars
<1> QED BY <1>1, <1>2, <1>3, <1>8, <1>9 DEF FileInv, OneRequest, Reading, Whole, callVars

\* lidig_file under sync, sync_server and the gateway, for any files, sizes and
\* number of calls: no descriptor is lost, and a file nobody writes to is handed
\* over whole.
THEOREM FileSound == FileSpec => []FileIsWhole
<1>1. FileInv /\ [FileNext]_fileVars => FileInv'
  <2> SUFFICES ASSUME FileInv, [FileNext]_fileVars PROVE FileInv'
    OBVIOUS
  <2>1. CASE UNCHANGED fileVars
    BY <2>1 DEF fileVars, FileInv, FileStateOK, OneRequest, Descriptors, Reading, Whole
  <2>2. CASE orderly /\ FileDone
    <3>1. ASSUME NEW r \in reqs, r.op = "read", NEW nread \in Results(r), ReadDone(r, nread) PROVE FileInv'
      <4>1. CASE app = "sync"
        <5>1. /\ readfile_cb(r, nread) /\ failed' = (failed \/ nread <= 0)
              /\ UNCHANGED <<callVars, disk, os, calls, files, orderly, changed>>
          BY <3>1, <4>1 DEF ReadDone
        <5> QED BY <2>2, <3>1, <4>1, <5>1, ChunkInv
      <4>2. CASE app = "gateway"
        BY <2>2, <3>1, <4>2, SampleInv
      <4> QED BY <3>1, <4>1, <4>2 DEF ReadDone
    <3> QED BY <2>2, <3>1, WriteInv, CloseDoneInv DEF FileDone
  <2>3. ASSUME orderly, NEW n \in Names, on_changed(n) \/ on_time(n) \/ on_packet(n) PROVE FileInv'
    BY <2>3, ChangedInv, TimeInv, PacketInv
  <2>4. ASSUME orderly, NEW n \in Names, NEW s \in 1 .. MaxSize, Change(n, s) PROVE FileInv'
    BY <2>4, ChangeInv
  <2> QED BY <2>1, <2>2, <2>3, <2>4 DEF FileNext
<1> QED BY <1>1, FileInitInv, FileInvWhole, PTL DEF FileSpec

(***************************************************************************)
(* The configuration of fn_log                                             *)
(***************************************************************************)
ChannelState ==
    [fields : FieldSets, devices : Seq(FieldSets), yaml_mtime : Nat, age : 0 .. HOTUPDATE_INTERVEL]

ConfigTypeOK ==
    /\ yaml \in [there : BOOLEAN, text : Configs, mtime : Nat]
    /\ hot_update \in BOOLEAN /\ same_second \in BOOLEAN
    /\ channel \in [DOMAIN channel -> ChannelState]

\* No channel has seen a file younger than the one there is: an edit in another
\* second is new to every channel.
SeenIsPast == \A i \in DOMAIN channel : channel[i].yaml_mtime <= yaml.mtime

ConfigInv == ConfigTypeOK /\ SeenIsPast /\ SeenIsApplied

LEMMA ConfigShape ==
    ASSUME NEW c \in Configs
    PROVE  /\ c.hot_update \in BOOLEAN /\ c.channels \in Seq([fields : FieldSets, devices : Seq(FieldSets)])
           /\ \A i \in DOMAIN c.channels :
                 c.channels[i].fields \in FieldSets /\ c.channels[i].devices \in Seq(FieldSets)
<1>1. c \in [hot_update : BOOLEAN, channels : Seq([fields : FieldSets, devices : Seq(FieldSets)])]
  BY LogConfigAssumption
<1>2. c.hot_update \in BOOLEAN /\ c.channels \in Seq([fields : FieldSets, devices : Seq(FieldSets)])
  BY <1>1
<1> DEFINE T == [fields : FieldSets, devices : Seq(FieldSets)]
           s == c.channels
<1>3. \A t \in T : t.fields \in FieldSets /\ t.devices \in Seq(FieldSets)
  OBVIOUS
<1>4. s \in Seq(T)
  BY <1>2
<1> HIDE DEF T, s
<1>5. \A i \in DOMAIN s : s[i] \in T
  BY <1>4
<1>6. \A i \in DOMAIN s : s[i].fields \in FieldSets /\ s[i].devices \in Seq(FieldSets)
  BY <1>3, <1>5
<1> QED BY <1>2, <1>6 DEF s

\* What a hot update makes of a channel's devices begins with those of the file.
LEMMA NewDevicesBegin ==
    ASSUME NEW old \in Seq(FieldSets), NEW new \in Seq(FieldSets)
    PROVE  /\ NewDevices(old, new) \in Seq(FieldSets)
           /\ \A d \in DOMAIN new : NewDevices(old, new)[d] = new[d]
<1> DEFINE n == IF Len(old) < Len(new) THEN Len(new) ELSE Len(old)
<1>1. n \in Nat /\ Len(old) <= n /\ Len(new) <= n
  OBVIOUS
<1>2. n = Len(old) \/ n = Len(new)
  OBVIOUS
<1>3. \A d \in 1 .. n : (IF d <= Len(new) THEN new[d] ELSE old[d]) \in FieldSets
  BY <1>2
<1> HIDE DEF n
<1>4. NewDevices(old, new) = [d \in 1 .. n |-> IF d <= Len(new) THEN new[d] ELSE old[d]]
  BY DEF NewDevices, n
<1>5. NewDevices(old, new) \in Seq(FieldSets)
  BY <1>1, <1>3, <1>4
<1>6. \A d \in DOMAIN new : d \in 1 .. n /\ d <= Len(new)
  BY <1>1
<1> QED BY <1>4, <1>5, <1>6

LEMMA ConfigInitInv == ConfigInit => ConfigInv
<1> SUFFICES ASSUME ConfigInit PROVE ConfigInv
  OBVIOUS
<1> PICK c \in Configs \ {ParseError} :
        /\ yaml = [there |-> TRUE, text |-> c, mtime |-> 0]
        /\ hot_update = c.hot_update
        /\ channel = [i \in DOMAIN c.channels |->
                        [fields |-> c.channels[i].fields, devices |-> c.channels[i].devices,
                         yaml_mtime |-> 0, age |-> HOTUPDATE_INTERVEL]]
  BY DEF ConfigInit, InitFromYMALFile
<1>1. HOTUPDATE_INTERVEL \in 0 .. HOTUPDATE_INTERVEL
  BY LogConfigAssumption
<1>2. \A i \in DOMAIN c.channels :
         [fields |-> c.channels[i].fields, devices |-> c.channels[i].devices,
          yaml_mtime |-> 0, age |-> HOTUPDATE_INTERVEL] \in ChannelState
  BY <1>1, ConfigShape DEF ChannelState
<1>3. ConfigTypeOK
  BY <1>2, ConfigShape DEF ConfigTypeOK, ConfigInit
<1>4. SeenIsPast
  BY DEF SeenIsPast
<1>5. SeenIsApplied
  BY DEF SeenIsApplied
<1> QED BY <1>3, <1>4, <1>5 DEF ConfigInv

\* Every channel but the one that reads the file stays as it is, and that one
\* has seen the file and has what is in it.
LEMMA HotUpdateInv == ConfigInv /\ (\E i \in DOMAIN channel : HotUpdate(i)) => ConfigInv'
<1> SUFFICES ASSUME ConfigInv, NEW i \in DOMAIN channel, HotUpdate(i) PROVE ConfigInv'
  OBVIOUS
<1> USE DEF ConfigInv
<1>0. yaml' = yaml /\ same_second' = same_second /\ channel[i] \in ChannelState
  BY DEF HotUpdate, ConfigTypeOK
<1>1. 0 \in 0 .. HOTUPDATE_INTERVEL /\ yaml.mtime \in Nat /\ yaml.text \in Configs
  BY LogConfigAssumption DEF ConfigTypeOK
<1>2. SUFFICES ASSUME NEW new \in ChannelState, channel' = [channel EXCEPT ![i] = new],
                      hot_update' \in BOOLEAN,
                      new.yaml_mtime = channel[i].yaml_mtime \/ new.yaml_mtime = yaml.mtime,
                      ~same_second /\ yaml.text # ParseError /\ i \in DOMAIN yaml.text.channels
                      /\ new.yaml_mtime = yaml.mtime =>
                          /\ new.fields = yaml.text.channels[i].fields
                          /\ \A d \in DOMAIN yaml.text.channels[i].devices :
                                new.devices[d] = yaml.text.channels[i].devices[d]
               PROVE  ConfigInv'
  <2>1. CASE ~yaml.there \/ yaml.mtime = channel[i].yaml_mtime
    <3> DEFINE new == [channel[i] EXCEPT !.age = 0]
    <3>1. channel' = [channel EXCEPT ![i] = new] /\ hot_update' \in BOOLEAN
      BY <2>1, <1>0 DEF HotUpdate, ConfigTypeOK, ChannelState
    <3>2. /\ new \in ChannelState /\ new.yaml_mtime = channel[i].yaml_mtime
          /\ new.fields = channel[i].fields /\ new.devices = channel[i].devices
      BY <1>0, <1>1 DEF ChannelState
    <3> HIDE DEF new
    <3>3. ~same_second /\ yaml.text # ParseError /\ i \in DOMAIN yaml.text.channels
             /\ channel[i].yaml_mtime = yaml.mtime =>
               /\ channel[i].fields = yaml.text.channels[i].fields
               /\ \A d \in DOMAIN yaml.text.channels[i].devices :
                     channel[i].devices[d] = yaml.text.channels[i].devices[d]
      BY DEF SeenIsApplied
    <3> QED BY <3>1, <3>2, <3>3, <1>2
  <2>2. CASE ~(~yaml.there \/ yaml.mtime = channel[i].yaml_mtime)
    <3> DEFINE seen == [channel[i] EXCEPT !.yaml_mtime = yaml.mtime, !.age = 0]
    <3>1. Applied(i)
      BY <2>2 DEF HotUpdate
    <3>2. seen \in ChannelState /\ seen.yaml_mtime = yaml.mtime /\ seen.devices \in Seq(FieldSets)
      BY <1>0, <1>1 DEF ChannelState
    <3>3. CASE yaml.text = ParseError \/ i \notin DOMAIN yaml.text.channels
      <4>1. channel' = [channel EXCEPT ![i] = seen]
        BY <3>1, <3>3, <1>0 DEF Applied, ConfigTypeOK
      <4>2. hot_update' \in BOOLEAN
        BY <3>1, <1>1, ConfigShape DEF Applied, ConfigTypeOK
      <4> HIDE DEF seen
      <4> QED BY <4>1, <4>2, <3>2, <3>3, <1>2
    <3>4. CASE ~(yaml.text = ParseError \/ i \notin DOMAIN yaml.text.channels)
      <4> DEFINE f == yaml.text.channels[i]
                 devices == NewDevices(channel[i].devices, f.devices)
                 new == [seen EXCEPT !.fields = f.fields, !.devices = devices]
      <4>1. channel' = [channel EXCEPT ![i] = new]
        BY <3>1, <3>4, <1>0 DEF Applied, ConfigTypeOK, ChannelState
      <4>2. hot_update' \in BOOLEAN
        BY <3>1, <3>4, <1>1, ConfigShape DEF Applied
      <4>3. f.fields \in FieldSets /\ f.devices \in Seq(FieldSets) /\ channel[i].devices \in Seq(FieldSets)
        BY <3>4, <1>0, <1>1, ConfigShape DEF ChannelState
      <4> HIDE DEF f
      <4>4. devices \in Seq(FieldSets) /\ \A d \in DOMAIN f.devices : devices[d] = f.devices[d]
        BY <4>3, NewDevicesBegin
      <4> HIDE DEF devices
      <4>5. /\ new \in ChannelState /\ new.yaml_mtime = yaml.mtime
            /\ new.fields = f.fields /\ new.devices = devices
        BY <4>3, <4>4, <1>0, <1>1 DEF ChannelState
      <4> HIDE DEF new
      <4> QED BY <4>1, <4>2, <4>4, <4>5, <1>2 DEF f
    <3> QED BY <3>3, <3>4
  <2> QED BY <2>1, <2>2
<1>3. DOMAIN channel' = DOMAIN channel /\ channel'[i] = new /\ \A j \in DOMAIN channel \ {i} : channel'[j] = channel[j]
  BY <1>2 DEF ConfigTypeOK
<1>4. ConfigTypeOK'
  BY <1>0, <1>2, <1>3 DEF ConfigTypeOK
<1>5. SeenIsPast'
  BY <1>0, <1>1, <1>2, <1>3 DEF SeenIsPast
<1>6. SeenIsApplied'
  BY <1>0, <1>2, <1>3 DEF SeenIsApplied
<1> QED BY <1>4, <1>5, <1>6

\* Another file in another second: no channel has seen its time.
LEMMA EditInv ==
    ConfigInv /\ (\E c \in Configs, there, same \in BOOLEAN : Edit(c, there, same)) => ConfigInv'
<1> SUFFICES ASSUME ConfigInv, NEW c \in Configs, NEW there \in BOOLEAN, NEW same \in BOOLEAN,
                    Edit(c, there, same)
             PROVE  ConfigInv'
  OBVIOUS
<1> USE DEF ConfigInv
<1>1. /\ channel' = channel /\ hot_update' = hot_update
      /\ yaml' = [there |-> there, text |-> c, mtime |-> IF same THEN yaml.mtime ELSE yaml.mtime + 1]
      /\ same_second' = (same_second \/ same)
  BY DEF Edit
<1>2. yaml.mtime \in Nat /\ \A i \in DOMAIN channel : channel[i].yaml_mtime \in Nat
  BY DEF ConfigTypeOK, ChannelState
<1>3. ConfigTypeOK'
  BY <1>1, <1>2 DEF ConfigTypeOK
<1>4. SeenIsPast'
  BY <1>1, <1>2 DEF SeenIsPast
<1>5. SeenIsApplied'
  <2>1. CASE same
    BY <2>1, <1>1 DEF SeenIsApplied
  <2>2. CASE ~same
    <3>1. \A i \in DOMAIN channel' : channel'[i].yaml_mtime # yaml'.mtime
      BY <2>2, <1>1, <1>2 DEF SeenIsPast
    <3> QED BY <3>1 DEF SeenIsApplied
  <2> QED BY <2>1, <2>2
<1> QED BY <1>3, <1>4, <1>5

LEMMA ConfigTickInv == ConfigInv /\ ConfigTick => ConfigInv'
<1> SUFFICES ASSUME ConfigInv, ConfigTick PROVE ConfigInv'
  OBVIOUS
<1> USE DEF ConfigInv
<1> DEFINE aged(ch) == [ch EXCEPT !.age = IF @ < HOTUPDATE_INTERVEL THEN @ + 1 ELSE @]
<1>1. /\ channel' = [i \in DOMAIN channel |-> aged(channel[i])]
      /\ yaml' = yaml /\ hot_update' = hot_update /\ same_second' = same_second
  BY DEF ConfigTick
<1>2. ASSUME NEW ch \in ChannelState
      PROVE  /\ aged(ch) \in ChannelState /\ aged(ch).yaml_mtime = ch.yaml_mtime
             /\ aged(ch).fields = ch.fields /\ aged(ch).devices = ch.devices
  BY LogConfigAssumption DEF ChannelState
<1> HIDE DEF aged
<1>3. DOMAIN channel' = DOMAIN channel /\ \A i \in DOMAIN channel : channel'[i] = aged(channel[i])
  BY <1>1
<1>4. \A i \in DOMAIN channel :
         /\ channel'[i] \in ChannelState /\ channel'[i].yaml_mtime = channel[i].yaml_mtime
         /\ channel'[i].fields = channel[i].fields /\ channel'[i].devices = channel[i].devices
  BY <1>2, <1>3 DEF ConfigTypeOK
<1>5. ConfigTypeOK'
  BY <1>1, <1>3, <1>4 DEF ConfigTypeOK
<1>6. SeenIsPast'
  BY <1>1, <1>3, <1>4 DEF SeenIsPast
<1>7. SeenIsApplied'
  BY <1>1, <1>3, <1>4 DEF SeenIsApplied
<1> QED BY <1>5, <1>6, <1>7

\* A channel of the logger that has seen the configuration file has what is in it
\* (SeenIsApplied), whatever the file held before, in however many channels and at
\* whatever time each of them looks.
THEOREM ConfigSound == ConfigSpec => []SeenIsApplied
<1>1. ConfigInv /\ [ConfigNext]_configVars => ConfigInv'
  <2> SUFFICES ASSUME ConfigInv, [ConfigNext]_configVars PROVE ConfigInv'
    OBVIOUS
  <2>1. CASE UNCHANGED configVars
    BY <2>1 DEF configVars, ConfigInv, ConfigTypeOK, SeenIsPast, SeenIsApplied
  <2> QED BY <2>1, HotUpdateInv, EditInv, ConfigTickInv DEF ConfigNext
<1> QED BY <1>1, ConfigInitInv, PTL DEF ConfigSpec, ConfigInv

(***************************************************************************)
(* The file device of fn_log                                               *)
(***************************************************************************)
FileLog == [day : 0 .. MaxTime, id : Nat, size : Sizes]
LogNames == (0 .. MaxTime) \X (0 .. limit_roll)
Folders == UNION {[D -> Seq(FileLog)] : D \in SUBSET LogNames}
Handlers ==
    [folder : Folders, writer : {Closed} \cup LogNames, size : Nat, day : 0 .. MaxTime, last_try : 0 .. MaxTime]

LEMMA FolderShape ==
    \A f : f \in Folders <=> f \in [DOMAIN f -> Seq(FileLog)] /\ DOMAIN f \subseteq LogNames
BY DEF Folders

\* The size of a file: it counts from 0 to the last log.
LEMMA SizeLoop ==
    ASSUME NEW logs \in Seq(FileLog)
    PROVE  \E f : /\ f[0] = 0 /\ \A i \in 1 .. Len(logs) : f[i] = f[i - 1] + logs[i].size
                  /\ \A i \in 0 .. Len(logs) : f[i] \in Nat
                  /\ SizeOf(logs) = f[Len(logs)]
<1> DEFINE n == Len(logs)
           base == 0
           W == [i \in 0 .. n |-> Nat]
           g == [i \in 1 .. n |-> [v \in Nat |-> v + logs[i].size]]
           Plain(f) == f = [i \in 0 .. n |-> IF i = 0 THEN 0 ELSE f[i - 1] + logs[i].size]
           Loop(f) == f = [i \in 0 .. n |-> IF i = 0 THEN base ELSE g[i][f[i - 1]]]
           m == CHOOSE f : Plain(f)
<1>1. n \in Nat /\ \A i \in 1 .. n : logs[i] \in FileLog
  BY LenProperties, ElementOfSeq
<1>2. \A i \in 1 .. n : logs[i].size \in Nat
  BY <1>1, LogFileAssumption DEF FileLog
<1>3. base \in W[0] /\ \A i \in 1 .. n : \A v \in W[i - 1] : g[i][v] \in W[i]
  <2>1. 0 \in 0 .. n /\ \A i \in 1 .. n : i - 1 \in 0 .. n /\ i \in 0 .. n
    BY <1>1
  <2>2. \A i \in 1 .. n : \A v \in Nat : g[i][v] = v + logs[i].size /\ v + logs[i].size \in Nat
    BY <1>2
  <2> HIDE DEF g, n
  <2> QED BY <2>1, <2>2
<1>4. ASSUME NEW f, \A i \in 0 .. n : f[i] \in W[i]
      PROVE  Plain(f) <=> Loop(f)
  <2>1. \A i \in 1 .. n : i - 1 \in 0 .. n
    BY <1>1
  <2>2. \A i \in 1 .. n : g[i][f[i - 1]] = f[i - 1] + logs[i].size
    BY <1>4, <2>1
  <2>3. \A i \in 0 .. n : i = 0 \/ i \in 1 .. n
    BY <1>1
  <2> HIDE DEF g, W, n
  <2> QED BY <2>2, <2>3
<1>5. \E f : Loop(f) /\ \A i \in 0 .. n : f[i] \in W[i]
  <2> HIDE DEF g, W, n, base
  <2>1. \E f : IsLoop(f, n, base, g) /\ \A i \in 0 .. n : f[i] \in W[i]
    BY <1>1, <1>3, LoopExists, Zenon
  <2> QED BY <2>1 DEF IsLoop
<1>6. Plain(m)
  <2> HIDE DEF g, W, n, Plain, Loop
  <2> QED BY <1>4, <1>5
<1>7. \A i \in 0 .. n : m[i] = IF i = 0 THEN 0 ELSE m[i - 1] + logs[i].size
  <2> HIDE DEF m, n
  <2> QED BY <1>6
<1>8. m[0] = 0 /\ \A i \in 1 .. n : m[i] = m[i - 1] + logs[i].size
  <2> HIDE DEF m
  <2> QED BY <1>1, <1>7
<1>9. \A i \in 0 .. n : m[i] \in W[i]
  <2>1. m[0] \in W[0] /\ \A i \in 1 .. n : m[i - 1] \in W[i - 1] => m[i] \in W[i]
    <3> HIDE DEF m
    <3> QED BY <1>1, <1>2, <1>8
  <2> HIDE DEF m, W, n
  <2> QED BY <1>1, <2>1, LoopInvariant
<1>10. SizeOf(logs) = m[n]
  BY DEF SizeOf
<1>11. \A i \in 0 .. n : m[i] \in Nat
  <2> HIDE DEF m
  <2> QED BY <1>9
<1> HIDE DEF m
<1> QED BY <1>8, <1>10, <1>11

LEMMA SizeOfEmpty == SizeOf(<<>>) = 0
<1> DEFINE e == <<>>
<1>1. e \in Seq(FileLog) /\ Len(e) = 0
  OBVIOUS
<1> HIDE DEF e
<1>2. PICK f : f[0] = 0 /\ SizeOf(e) = f[Len(e)]
  BY <1>1, SizeLoop
<1> QED BY <1>1, <1>2 DEF e

LEMMA SizeOfAppend ==
    ASSUME NEW logs \in Seq(FileLog), NEW log \in FileLog
    PROVE  SizeOf(logs) \in Nat /\ SizeOf(Append(logs, log)) = SizeOf(logs) + log.size
<1> DEFINE n == Len(logs)
           more == Append(logs, log)
<1>1. /\ n \in Nat /\ more \in Seq(FileLog) /\ Len(more) = n + 1 /\ more[n + 1] = log
      /\ \A i \in 1 .. n : more[i] = logs[i]
  OBVIOUS
<1> HIDE DEF more
<1>2. PICK f : /\ f[0] = 0 /\ \A i \in 1 .. n : f[i] = f[i - 1] + logs[i].size
               /\ \A i \in 0 .. n : f[i] \in Nat
               /\ SizeOf(logs) = f[n]
  BY SizeLoop
<1>3. PICK h : /\ h[0] = 0 /\ \A i \in 1 .. Len(more) : h[i] = h[i - 1] + more[i].size
               /\ SizeOf(more) = h[Len(more)]
  BY <1>1, SizeLoop
<1> HIDE DEF n
<1> DEFINE W == [i \in 0 .. n |-> {f[i]}]
<1>4. \A i \in 0 .. n : h[i] \in W[i]
  <2>1. h[0] \in W[0]
    BY <1>1, <1>2, <1>3
  <2>2. ASSUME NEW i \in 1 .. n, h[i - 1] \in W[i - 1] PROVE h[i] \in W[i]
    <3>1. i - 1 \in 0 .. n /\ i \in 0 .. n /\ i \in 1 .. n + 1
      BY <1>1
    <3>2. h[i - 1] = f[i - 1]
      BY <2>2, <3>1
    <3>3. h[i] = f[i]
      BY <1>1, <1>2, <1>3, <3>1, <3>2
    <3> QED BY <3>1, <3>3
  <2> HIDE DEF W
  <2> QED BY <1>1, <2>1, <2>2, LoopInvariant
<1>5. n \in 0 .. n /\ n + 1 \in 1 .. n + 1 /\ (n + 1) - 1 = n
  BY <1>1
<1>6. h[n] = f[n]
  BY <1>4, <1>5
<1>7. h[n + 1] = h[n] + log.size
  BY <1>1, <1>3, <1>5
<1> QED BY <1>1, <1>2, <1>3, <1>5, <1>6, <1>7 DEF more

LEMMA GenerationType ==
    ASSUME NEW folder \in Folders
    PROVE  \A day, k : Generation(folder, day, k) \in Seq(FileLog)
<1>1. folder \in [DOMAIN folder -> Seq(FileLog)]
  BY FolderShape
<1>2. <<>> \in Seq(FileLog)
  OBVIOUS
<1> QED BY <1>1, <1>2 DEF Generation

\* The generations of a name put together, from the newest to the oldest.
LEMMA GenerationsLoop ==
    ASSUME NEW folder \in Folders, NEW day, limit_roll \in Nat
    PROVE  \E f : /\ f[0] = Generation(folder, day, 0)
                  /\ \A k \in 1 .. limit_roll : f[k] = Generation(folder, day, k) \o f[k - 1]
                  /\ \A k \in 0 .. limit_roll : f[k] \in Seq(FileLog)
                  /\ Generations(folder, day, limit_roll) = f[limit_roll]
<1> DEFINE n == limit_roll
           G(k) == Generation(folder, day, k)
           base == G(0)
           W == [i \in 0 .. n |-> Seq(FileLog)]
           g == [i \in 1 .. n |-> [v \in Seq(FileLog) |-> G(i) \o v]]
           Plain(f) == f = [k \in 0 .. n |-> IF k = 0 THEN Generation(folder, day, 0)
                                             ELSE Generation(folder, day, k) \o f[k - 1]]
           Loop(f) == f = [i \in 0 .. n |-> IF i = 0 THEN base ELSE g[i][f[i - 1]]]
           m == CHOOSE f : Plain(f)
<1>1. n \in Nat /\ \A k : G(k) \in Seq(FileLog)
  BY GenerationType
<1>2. base \in W[0] /\ \A i \in 1 .. n : \A v \in W[i - 1] : g[i][v] \in W[i]
  <2>1. 0 \in 0 .. n /\ \A i \in 1 .. n : i - 1 \in 0 .. n /\ i \in 0 .. n
    BY <1>1
  <2> HIDE DEF G
  <2>2. \A i \in 1 .. n : \A v \in Seq(FileLog) : g[i][v] = G(i) \o v /\ G(i) \o v \in Seq(FileLog)
    BY <1>1
  <2> HIDE DEF g, n
  <2> QED BY <1>1, <2>1, <2>2
<1>3. ASSUME NEW f, \A i \in 0 .. n : f[i] \in W[i]
      PROVE  Plain(f) <=> Loop(f)
  <2>1. \A i \in 1 .. n : i - 1 \in 0 .. n
    BY <1>1
  <2>2. \A i \in 1 .. n : g[i][f[i - 1]] = Generation(folder, day, i) \o f[i - 1]
    BY <1>3, <2>1
  <2>3. \A i \in 0 .. n : i = 0 \/ i \in 1 .. n
    BY <1>1
  <2> HIDE DEF g, W, n
  <2> QED BY <2>2, <2>3
<1>4. \E f : Loop(f) /\ \A i \in 0 .. n : f[i] \in W[i]
  <2> HIDE DEF g, W, n, base
  <2>1. \E f : IsLoop(f, n, base, g) /\ \A i \in 0 .. n : f[i] \in W[i]
    BY <1>1, <1>2, LoopExists, Zenon
  <2> QED BY <2>1 DEF IsLoop
<1>5. Plain(m)
  <2> HIDE DEF g, W, n, Plain, Loop
  <2> QED BY <1>3, <1>4
<1>6. \A k \in 0 .. n : m[k] = IF k = 0 THEN Generation(folder, day, 0)
                               ELSE Generation(folder, day, k) \o m[k - 1]
  <2> HIDE DEF m, n
  <2> QED BY <1>5
<1>7. m[0] = G(0) /\ \A k \in 1 .. n : m[k] = G(k) \o m[k - 1]
  <2>1. 0 \in 0 .. n /\ \A k \in 1 .. n : k \in 0 .. n /\ k # 0
    BY <1>1
  <2> HIDE DEF m, n
  <2> QED BY <1>6, <2>1
<1>8. \A i \in 0 .. n : m[i] \in W[i]
  <2>1. 0 \in 0 .. n /\ \A i \in 1 .. n : i - 1 \in 0 .. n /\ i \in 0 .. n
    BY <1>1
  <2> HIDE DEF m, G, n
  <2>2. m[0] \in Seq(FileLog)
    BY <1>1, <1>7
  <2>3. ASSUME NEW i \in 1 .. n, m[i - 1] \in Seq(FileLog) PROVE m[i] \in Seq(FileLog)
    <3>1. G(i) \o m[i - 1] \in Seq(FileLog)
      <4>1. G(i) \in Seq(FileLog)
        BY <1>1
      <4> QED BY <2>3, <4>1, ConcatProperties
    <3> QED BY <1>7, <3>1
  <2>4. m[0] \in W[0] /\ \A i \in 1 .. n : m[i - 1] \in W[i - 1] => m[i] \in W[i]
    BY <2>1, <2>2, <2>3
  <2> HIDE DEF W
  <2> QED BY <1>1, <2>4, LoopInvariant
<1>9. Generations(folder, day, limit_roll) = m[n]
  BY DEF Generations
<1>10. \A k \in 0 .. n : m[k] \in Seq(FileLog)
  <2> HIDE DEF m
  <2> QED BY <1>8
<1> HIDE DEF m
<1> QED BY <1>7, <1>9, <1>10

\* The logs of a name do not depend on what other names have.
LEMMA GenerationsSame ==
    ASSUME NEW old \in Folders, NEW new \in Folders, NEW day, limit_roll \in Nat,
           \A k \in 0 .. limit_roll : Generation(new, day, k) = Generation(old, day, k)
    PROVE  Generations(new, day, limit_roll) = Generations(old, day, limit_roll)
<1> DEFINE n == limit_roll
<1>1. PICK f : /\ f[0] = Generation(old, day, 0)
               /\ \A k \in 1 .. n : f[k] = Generation(old, day, k) \o f[k - 1]
               /\ Generations(old, day, limit_roll) = f[n]
  BY GenerationsLoop
<1>2. PICK h : /\ h[0] = Generation(new, day, 0)
               /\ \A k \in 1 .. n : h[k] = Generation(new, day, k) \o h[k - 1]
               /\ Generations(new, day, limit_roll) = h[n]
  BY GenerationsLoop
<1> HIDE DEF n
<1> DEFINE W == [i \in 0 .. n |-> {f[i]}]
<1>3. n \in Nat /\ \A k \in 0 .. n : Generation(new, day, k) = Generation(old, day, k)
  BY DEF n
<1>4. \A i \in 0 .. n : h[i] \in W[i]
  <2>1. 0 \in 0 .. n /\ \A i \in 1 .. n : i - 1 \in 0 .. n /\ i \in 0 .. n
    BY <1>3
  <2>2. h[0] \in W[0]
    BY <1>1, <1>2, <1>3, <2>1
  <2>3. \A i \in 1 .. n : h[i - 1] \in W[i - 1] => h[i] \in W[i]
    BY <1>1, <1>2, <1>3, <2>1
  <2> HIDE DEF W
  <2> QED BY <1>3, <2>2, <2>3, LoopInvariant
<1>5. h[n] = f[n]
  BY <1>3, <1>4
<1> QED BY <1>1, <1>2, <1>5

\* The newest file of a name has one more log, the others are the same.
Grown(old, new, day, log) ==
    \A k \in 0 .. limit_roll :
        Generation(new, day, k) = IF k = 0 THEN Append(Generation(old, day, k), log) ELSE Generation(old, day, k)

\* A log at the end of the newest file is at the end of them all.
LEMMA GenerationsAppend ==
    ASSUME NEW old \in Folders, NEW new \in Folders, NEW day, limit_roll \in Nat, NEW log \in FileLog,
           Grown(old, new, day, log)
    PROVE  Generations(new, day, limit_roll) = Append(Generations(old, day, limit_roll), log)
<1> DEFINE n == limit_roll
<1>1. PICK f : /\ f[0] = Generation(old, day, 0)
               /\ \A k \in 1 .. n : f[k] = Generation(old, day, k) \o f[k - 1]
               /\ \A k \in 0 .. n : f[k] \in Seq(FileLog)
               /\ Generations(old, day, limit_roll) = f[n]
  BY GenerationsLoop
<1>2. PICK h : /\ h[0] = Generation(new, day, 0)
               /\ \A k \in 1 .. n : h[k] = Generation(new, day, k) \o h[k - 1]
               /\ Generations(new, day, limit_roll) = h[n]
  BY GenerationsLoop
<1> HIDE DEF n
<1> DEFINE W == [i \in 0 .. n |-> {Append(f[i], log)}]
<1>3. /\ n \in Nat /\ \A k \in 1 .. n : Generation(new, day, k) = Generation(old, day, k)
      /\ Generation(new, day, 0) = Append(Generation(old, day, 0), log)
  <2>1. 0 \in 0 .. n /\ \A k \in 1 .. n : k \in 0 .. n /\ k # 0
    BY DEF n
  <2> QED BY <2>1 DEF n, Grown
<1>4. \A i \in 0 .. n : h[i] \in W[i]
  <2>1. 0 \in 0 .. n /\ \A i \in 1 .. n : i - 1 \in 0 .. n /\ i \in 0 .. n
    BY <1>3
  <2>2. h[0] \in W[0]
    BY <1>1, <1>2, <1>3, <2>1
  <2>3. ASSUME NEW i \in 1 .. n, h[i - 1] \in W[i - 1] PROVE h[i] \in W[i]
    <3> DEFINE s == Generation(old, day, i)
               r == f[i - 1]
    <3>1. s \in Seq(FileLog) /\ r \in Seq(FileLog)
      BY <1>1, <2>1, GenerationType
    <3>2. h[i] = s \o Append(r, log) /\ f[i] = s \o r
      BY <1>1, <1>2, <1>3, <2>1, <2>3
    <3> HIDE DEF s, r
    <3>3. s \o Append(r, log) = Append(s \o r, log)
      <4> DEFINE last == <<log>>
      <4>1. last \in Seq(FileLog)
        OBVIOUS
      <4>2. Append(r, log) = r \o last
        BY <3>1, AppendIsConcat
      <4>3. s \o r \in Seq(FileLog)
        BY <3>1, ConcatProperties
      <4>4. Append(s \o r, log) = (s \o r) \o last
        BY <4>3, AppendIsConcat
      <4> HIDE DEF last
      <4> QED BY <3>1, <4>1, <4>2, <4>4, ConcatAssociative
    <3> QED BY <2>1, <3>2, <3>3
  <2> HIDE DEF W
  <2> QED BY <1>3, <2>2, <2>3, LoopInvariant
<1>5. h[n] = Append(f[n], log)
  BY <1>3, <1>4
<1> QED BY <1>1, <1>2, <1>5

\* The generations of a name that a rollback moves on.
Moved(folder, day) == {k \in 0 .. limit_roll : \A j \in 0 .. k : <<day, j>> \in DOMAIN folder}

\* Where a file goes in a rollback, and that none but those of the name go anywhere.
LEMMA RollbackShape ==
    ASSUME NEW folder \in Folders, NEW day \in 0 .. MaxTime, limit_roll \in Nat \ {0},
           NEW new, new = rollback(folder, day, limit_roll)
    PROVE  /\ new \in Folders /\ <<day, 0>> \notin DOMAIN new
           /\ \A p \in DOMAIN new : \E q \in DOMAIN folder : q[1] = p[1] /\ new[p] = folder[q]
           /\ \A d, k : d # day => Generation(new, d, k) = Generation(folder, d, k)
           /\ \A k \in 1 .. limit_roll :
                 Generation(new, day, k) = IF k - 1 \in Moved(folder, day) THEN Generation(folder, day, k - 1)
                                           ELSE Generation(folder, day, k)
<1> DEFINE moved == Moved(folder, day)
           kept == {p \in DOMAIN folder : ~(p[1] = day /\ p[2] \in moved)}
           next == {<<day, k + 1>> : k \in moved \ {limit_roll}}
<1>1. new = [p \in kept \cup next |-> IF p \in next THEN folder[<<day, p[2] - 1>>] ELSE folder[p]]
  BY DEF rollback, Moved
<1>2. folder \in [DOMAIN folder -> Seq(FileLog)] /\ DOMAIN folder \subseteq LogNames
  BY FolderShape
<1>3. /\ moved \subseteq 0 .. limit_roll /\ \A k \in moved : <<day, k>> \in DOMAIN folder
      /\ \A k \in 1 .. limit_roll : k \in moved <=> k - 1 \in moved /\ <<day, k>> \in DOMAIN folder
      /\ 0 \in moved <=> <<day, 0>> \in DOMAIN folder
  BY DEF Moved
<1> HIDE DEF moved
<1>4. ASSUME NEW d, NEW k
      PROVE  /\ <<d, k>> \in next <=> d = day /\ k - 1 \in moved \ {limit_roll} /\ k = (k - 1) + 1
             /\ <<d, k>> \in kept <=> <<d, k>> \in DOMAIN folder /\ ~(d = day /\ k \in moved)
  <2>1. <<d, k>> \in kept <=> <<d, k>> \in DOMAIN folder /\ ~(d = day /\ k \in moved)
    OBVIOUS
  <2>2. ASSUME <<d, k>> \in next PROVE d = day /\ k - 1 \in moved \ {limit_roll} /\ k = (k - 1) + 1
    <3>1. PICK j \in moved \ {limit_roll} : <<d, k>> = <<day, j + 1>>
      BY <2>2
    <3>2. j \in Int
      BY <1>3
    <3> QED BY <3>1, <3>2
  <2>3. ASSUME d = day, k - 1 \in moved \ {limit_roll}, k = (k - 1) + 1 PROVE <<d, k>> \in next
    BY <2>3
  <2> QED BY <2>1, <2>2, <2>3
<1>5. \A p \in next : p[1] = day /\ p[2] - 1 \in moved \ {limit_roll} /\ p[2] \in 1 .. limit_roll /\ p = <<day, p[2]>>
  <2> SUFFICES ASSUME NEW j \in moved \ {limit_roll}
               PROVE (j + 1) - 1 \in moved \ {limit_roll} /\ j + 1 \in 1 .. limit_roll
    OBVIOUS
  <2> QED BY <1>3
<1>6. \A p \in next : <<day, p[2] - 1>> \in DOMAIN folder
  BY <1>3, <1>5
<1>7. next \subseteq LogNames /\ kept \subseteq DOMAIN folder
  BY <1>5 DEF LogNames
<1>8. DOMAIN new = kept \cup next
  BY <1>1
<1>9. \A p \in DOMAIN new : new[p] = IF p \in next THEN folder[<<day, p[2] - 1>>] ELSE folder[p]
  BY <1>1
<1>10. new \in Folders
  <2>1. \A p \in kept \cup next : (IF p \in next THEN folder[<<day, p[2] - 1>>] ELSE folder[p]) \in Seq(FileLog)
    BY <1>2, <1>6, <1>7
  <2>2. kept \cup next \subseteq LogNames
    BY <1>2, <1>7
  <2> HIDE DEF kept, next
  <2> QED BY <1>1, <2>1, <2>2, FolderShape
<1>11. <<day, 0>> \notin DOMAIN new
  <2>1. <<day, 0>> \notin next
    <3> DEFINE z == 0
    <3>1. z - 1 \notin moved
      BY <1>3
    <3> HIDE DEF z, next, kept
    <3>2. <<day, z>> \notin next
      BY <3>1, <1>4
    <3> QED BY <3>2 DEF z
  <2>2. <<day, 0>> \notin kept
    BY <1>3
  <2> QED BY <1>8, <2>1, <2>2
<1>12. \A p \in DOMAIN new : \E q \in DOMAIN folder : q[1] = p[1] /\ new[p] = folder[q]
  <2> SUFFICES ASSUME NEW p \in DOMAIN new PROVE \E q \in DOMAIN folder : q[1] = p[1] /\ new[p] = folder[q]
    OBVIOUS
  <2>1. CASE p \in next
    <3> DEFINE q == <<day, p[2] - 1>>
    <3>1. q \in DOMAIN folder /\ q[1] = p[1] /\ new[p] = folder[q]
      BY <2>1, <1>5, <1>6, <1>9
    <3> HIDE DEF q
    <3> QED BY <3>1
  <2>2. CASE p \notin next
    BY <2>2, <1>7, <1>8, <1>9
  <2> QED BY <2>1, <2>2
<1>13. ASSUME NEW d, NEW k, d # day PROVE Generation(new, d, k) = Generation(folder, d, k)
  <2>1. <<d, k>> \notin next /\ (<<d, k>> \in kept <=> <<d, k>> \in DOMAIN folder)
    BY <1>4, <1>13
  <2> HIDE DEF next, kept
  <2> QED BY <2>1, <1>8, <1>9 DEF Generation
<1>14. ASSUME NEW k \in 1 .. limit_roll
       PROVE  Generation(new, day, k) = IF k - 1 \in moved THEN Generation(folder, day, k - 1)
                                        ELSE Generation(folder, day, k)
  <2>0. <<day, k>>[2] = k
    OBVIOUS
  <2>1. CASE k - 1 \in moved
    <3>1. <<day, k>> \in next /\ <<day, k - 1>> \in DOMAIN folder
      BY <2>1, <1>3, <1>4
    <3> HIDE DEF next, kept
    <3> QED BY <2>0, <2>1, <3>1, <1>8, <1>9 DEF Generation
  <2>2. CASE k - 1 \notin moved
    <3>1. <<day, k>> \notin next /\ (<<day, k>> \in kept <=> <<day, k>> \in DOMAIN folder)
      BY <2>2, <1>3, <1>4
    <3> HIDE DEF next, kept
    <3> QED BY <2>2, <3>1, <1>8, <1>9 DEF Generation
  <2> QED BY <2>1, <2>2
<1> QED BY <1>10, <1>11, <1>12, <1>13, <1>14 DEF moved

\* A rollback takes nothing from the middle: what is lost is the oldest file.
LEMMA RollbackDropsOldest ==
    ASSUME NEW folder \in Folders, NEW day \in 0 .. MaxTime, limit_roll \in Nat \ {0},
           NEW new, new = rollback(folder, day, limit_roll)
    PROVE  /\ \A d : d # day => Generations(new, d, limit_roll) = Generations(folder, d, limit_roll)
           /\ \E oldest \in Seq(FileLog) : Generations(folder, day, limit_roll) = oldest \o Generations(new, day, limit_roll)
<1> DEFINE n == limit_roll
           moved == Moved(folder, day)
           none == <<>>
<1>1. /\ new \in Folders /\ <<day, 0>> \notin DOMAIN new
      /\ \A d, k : d # day => Generation(new, d, k) = Generation(folder, d, k)
      /\ \A k \in 1 .. n :
            Generation(new, day, k) = IF k - 1 \in moved THEN Generation(folder, day, k - 1)
                                      ELSE Generation(folder, day, k)
  BY RollbackShape
<1>2. \A d : d # day => Generations(new, d, limit_roll) = Generations(folder, d, limit_roll)
  BY <1>1, GenerationsSame
<1>3. /\ moved \subseteq 0 .. n /\ n \in Nat \ {0}
      /\ \A k \in 1 .. n : k \in moved <=> k - 1 \in moved /\ <<day, k>> \in DOMAIN folder
      /\ 0 \in moved <=> <<day, 0>> \in DOMAIN folder
  BY DEF Moved
<1>4. /\ Generation(new, day, 0) = none
      /\ \A k \in 0 .. n : <<day, k>> \notin DOMAIN folder => Generation(folder, day, k) = none
  BY <1>1 DEF Generation
<1>5. PICK f : /\ f[0] = Generation(folder, day, 0)
               /\ \A k \in 1 .. n : f[k] = Generation(folder, day, k) \o f[k - 1]
               /\ \A k \in 0 .. n : f[k] \in Seq(FileLog)
               /\ Generations(folder, day, limit_roll) = f[n]
  BY GenerationsLoop
<1>6. PICK h : /\ h[0] = Generation(new, day, 0)
               /\ \A k \in 1 .. n : h[k] = Generation(new, day, k) \o h[k - 1]
               /\ \A k \in 0 .. n : h[k] \in Seq(FileLog)
               /\ Generations(new, day, limit_roll) = h[n]
  BY <1>1, GenerationsLoop
<1>7. /\ \A k : Generation(folder, day, k) \in Seq(FileLog)
      /\ none \in Seq(FileLog) /\ \A s \in Seq(FileLog) : s \o none = s /\ none \o s = s
  BY GenerationType, ConcatEmptySeq
<1> HIDE DEF n, moved, none
<1> DEFINE W == [k \in 0 .. n |-> {IF k \notin moved THEN f[k] ELSE IF k = 0 THEN none ELSE f[k - 1]}]
<1>8. \A k \in 0 .. n : h[k] \in W[k]
  <2>1. 0 \in 0 .. n /\ \A i \in 1 .. n : i - 1 \in 0 .. n /\ i \in 0 .. n /\ i # 0
    BY <1>3
  <2>2. h[0] \in W[0]
    BY <1>3, <1>4, <1>5, <1>6, <2>1
  <2>3. ASSUME NEW k \in 1 .. n, h[k - 1] \in W[k - 1] PROVE h[k] \in W[k]
    <3> DEFINE j == k - 1
    <3>1. /\ j \in 0 .. n /\ k \in 0 .. n /\ (j # 0 => j \in 1 .. n) /\ k # 0
      BY <1>3, <2>1
    <3>2. /\ f[k] = Generation(folder, day, k) \o f[j]
          /\ (j # 0 => f[j] = Generation(folder, day, j) \o f[j - 1])
          /\ f[j] \in Seq(FileLog)
      <4> HIDE DEF j
      <4>1. j # 0 => f[j] = Generation(folder, day, j) \o f[j - 1]
        BY <3>1, <1>5
      <4> QED BY <3>1, <4>1, <1>5 DEF j
    <3>3. h[j] = (IF j \notin moved THEN f[j] ELSE IF j = 0 THEN none ELSE f[j - 1])
      <4> HIDE DEF j
      <4>1. h[j] \in W[j]
        BY <2>3 DEF j
      <4> QED BY <3>1, <4>1
    <3>4. /\ h[j] = (IF j \notin moved THEN f[j] ELSE IF j = 0 THEN none ELSE f[j - 1])
          /\ h[k] = Generation(new, day, k) \o h[j] /\ f[k] = Generation(folder, day, k) \o f[j]
          /\ (j # 0 => f[j] = Generation(folder, day, j) \o f[j - 1])
          /\ Generation(new, day, k) = (IF j \in moved THEN Generation(folder, day, j) ELSE Generation(folder, day, k))
          /\ (k \in moved <=> j \in moved /\ <<day, k>> \in DOMAIN folder)
          /\ f[j] \in Seq(FileLog)
      BY <1>1, <1>3, <1>6, <3>1, <3>2, <3>3
    <3>5. W[k] = {IF k \notin moved THEN f[k] ELSE f[j]}
      BY <3>1
    <3> HIDE DEF W, j
    <3>6. CASE j \in moved
      <4>1. h[k] = f[j]
        <5>1. CASE j = 0
          BY <3>4, <3>6, <5>1, <1>5, <1>7
        <5>2. CASE j # 0
          BY <3>4, <3>6, <5>2
        <5> QED BY <5>1, <5>2
      <4>2. k \notin moved => f[k] = f[j]
        BY <3>4, <3>6, <1>4, <1>7
      <4> QED BY <3>5, <4>1, <4>2
    <3>7. CASE j \notin moved
      BY <3>4, <3>5, <3>7
    <3> QED BY <3>6, <3>7
  <2> HIDE DEF W
  <2> QED BY <1>3, <2>2, <2>3, LoopInvariant
<1>9. h[n] = IF n \notin moved THEN f[n] ELSE f[n - 1]
  BY <1>3, <1>8
<1>10. \E oldest \in Seq(FileLog) : f[n] = oldest \o h[n]
  <2>1. n \in 1 .. n /\ n \in 0 .. n
    BY <1>3
  <2>2. f[n] = Generation(folder, day, n) \o f[n - 1] /\ f[n] \in Seq(FileLog)
    BY <1>5, <2>1
  <2>3. f[n] = none \o f[n]
    BY <2>2, <1>7
  <2> QED BY <1>7, <1>9, <2>2, <2>3
<1> QED BY <1>2, <1>5, <1>6, <1>10 DEF n

\* What the files of a device have of the logs w that were written to them.
FolderOK(folder, w) ==
    /\ folder \in Folders
    /\ \A day \in 0 .. MaxTime : \E older \in Seq(FileLog) : w[day] = older \o Generations(folder, day, limit_roll)
    /\ \A p \in DOMAIN folder : \A i \in DOMAIN folder[p] : folder[p][i].day = p[1]
    /\ dev.limit > 0 /\ dev.rollback > 0 =>
          \A p \in DOMAIN folder : SizeOf(folder[p]) <= dev.limit \/ Len(folder[p]) = 1

\* The file that is open is named by the day noted with it, and its size is known.
HandlerOK(h, w) ==
    /\ h \in Handlers /\ FolderOK(h.folder, w) /\ h.day = DayOf(h.day)
    /\ h.writer # Closed =>
          /\ h.writer = <<MakeFileName(h.day), 0>> /\ h.writer \in DOMAIN h.folder
          /\ h.size = SizeOf(h.folder[h.writer])

LogFileInv ==
    /\ dev \in Devices /\ now \in RetrySeconds .. MaxTime /\ lines \in Nat
    /\ written \in [0 .. MaxTime -> Seq(FileLog)]
    /\ HandlerOK(handler, written)

LEMMA DeviceShape ==
    ASSUME dev \in Devices
    PROVE  /\ dev.limit \in Nat /\ dev.rollback \in Nat /\ dev.dated \in BOOLEAN
           /\ limit_roll \in Nat \ {0}
BY LogFileAssumption DEF limit_roll

\* A day is D seconds long and begins at a multiple of D.
LEMMA DayIs ==
    ASSUME NEW D \in Nat \ {0}, NEW q \in Nat, NEW t \in Nat, q * D <= t, t < q * D + D
    PROVE  t \div D = q
<1> DEFINE r == t \div D
<1>1. r \in Nat /\ r * D <= t /\ t < r * D + D
  OBVIOUS
<1> HIDE DEF r
<1>2. ~(r >= q + 1)
  <2>1. SUFFICES ASSUME r >= q + 1 PROVE FALSE
    OBVIOUS
  <2>2. r * D >= (q + 1) * D
    BY <1>1, <2>1
  <2>3. (q + 1) * D = q * D + D
    OBVIOUS
  <2>4. q * D \in Nat /\ r * D \in Nat
    BY <1>1
  <2> QED BY <1>1, <2>2, <2>3, <2>4
<1>3. ~(q >= r + 1)
  <2>1. SUFFICES ASSUME q >= r + 1 PROVE FALSE
    OBVIOUS
  <2>2. q * D >= (r + 1) * D
    BY <1>1, <2>1
  <2>3. (r + 1) * D = r * D + D
    BY <1>1
  <2>4. q * D \in Nat /\ r * D \in Nat
    BY <1>1
  <2> QED BY <1>1, <2>2, <2>3, <2>4
<1>4. r = q
  BY <1>1, <1>2, <1>3
<1> QED BY <1>4 DEF r

\* The day a log falls on, and that the day of a file names it as its logs do.
LEMMA DayShape ==
    ASSUME NEW t \in 0 .. MaxTime, dev \in Devices
    PROVE  /\ DayOf(t) \in 0 .. MaxTime /\ DayOf(DayOf(t)) = DayOf(t)
           /\ MakeFileName(t) \in 0 .. MaxTime /\ MakeFileName(DayOf(t)) = MakeFileName(t)
           /\ \A h \in Handlers : h.day = DayOf(h.day) /\ SameDay(h, t) => MakeFileName(t) = MakeFileName(h.day)
<1> DEFINE D == DaySeconds
           q == t \div D
           T == MaxTime
<1>1. D \in Nat \ {0} /\ T \in Nat /\ t \in 0 .. T
  BY LogFileAssumption
<1>2. DayOf(t) = q * D /\ \A d : DayOf(d) = (d \div D) * D
  BY DEF DayOf
<1>3. \A h : SameDay(h, t) <=> t >= h.day /\ t < h.day + D
  BY DEF SameDay
<1> HIDE DEF D, T
<1>4. q \in Nat /\ q * D <= t /\ q * D \in Nat
  BY <1>1
<1>5. DayOf(t) \in 0 .. T
  BY <1>1, <1>2, <1>4
<1> HIDE DEF q
<1>6. DayOf(DayOf(t)) = DayOf(t)
  <2>1. (q * D) \div D = q
    <3>1. q * D <= q * D /\ q * D < q * D + D
      BY <1>1, <1>4
    <3> DEFINE s == q * D
    <3>2. s \in Nat /\ q * D <= s /\ s < q * D + D
      BY <1>4, <3>1
    <3> HIDE DEF s
    <3>3. s \div D = q
      BY <1>1, <1>4, <3>2, DayIs
    <3> QED BY <3>3 DEF s
  <2> QED BY <1>2, <2>1
<1>7. ASSUME NEW h \in Handlers, h.day = DayOf(h.day), SameDay(h, t)
      PROVE  DayOf(t) = DayOf(h.day)
  <2> DEFINE p == h.day \div D
  <2>1. h.day \in Nat
    BY <1>1 DEF Handlers, T
  <2>2. p \in Nat /\ h.day = p * D
    BY <1>1, <1>2, <1>7, <2>1
  <2>3. p * D <= t /\ t < p * D + D /\ t \in Nat
    BY <1>1, <1>3, <1>7, <2>1, <2>2
  <2> HIDE DEF p
  <2>4. t \div D = p
    BY <1>1, <2>2, <2>3, DayIs
  <2> QED BY <1>2, <1>7, <2>2, <2>4
<1>8. 0 \in 0 .. T /\ dev.dated \in BOOLEAN
  BY <1>1, DeviceShape
<1> QED BY <1>5, <1>6, <1>7, <1>8 DEF MakeFileName, T

LEMMA RollbackFolder ==
    ASSUME NEW w, NEW folder, FolderOK(folder, w), NEW day \in 0 .. MaxTime, dev \in Devices,
           NEW new, new = rollback(folder, day, limit_roll)
    PROVE  FolderOK(new, w) /\ <<day, 0>> \notin DOMAIN new
<1>1. limit_roll \in Nat \ {0} /\ folder \in Folders
  BY DeviceShape DEF FolderOK
<1>2. /\ new \in Folders /\ <<day, 0>> \notin DOMAIN new
      /\ \A p \in DOMAIN new : \E q \in DOMAIN folder : q[1] = p[1] /\ new[p] = folder[q]
  BY <1>1, RollbackShape
<1>3. /\ \A d : d # day => Generations(new, d, limit_roll) = Generations(folder, d, limit_roll)
      /\ \E oldest \in Seq(FileLog) : Generations(folder, day, limit_roll) = oldest \o Generations(new, day, limit_roll)
  <2>1. \A d : d # day => Generations(new, d, limit_roll) = Generations(folder, d, limit_roll)
    BY <1>1, RollbackDropsOldest
  <2>2. \E oldest \in Seq(FileLog) : Generations(folder, day, limit_roll) = oldest \o Generations(new, day, limit_roll)
    BY <1>1, RollbackDropsOldest
  <2> QED BY <2>1, <2>2
<1>4. ASSUME NEW d \in 0 .. MaxTime
      PROVE  \E older \in Seq(FileLog) : w[d] = older \o Generations(new, d, limit_roll)
  <2>1. PICK older \in Seq(FileLog) : w[d] = older \o Generations(folder, d, limit_roll)
    BY DEF FolderOK
  <2>2. CASE d # day
    BY <2>1, <2>2, <1>3
  <2>3. CASE d = day
    <3>1. PICK oldest \in Seq(FileLog) : Generations(folder, d, limit_roll) = oldest \o Generations(new, d, limit_roll)
      BY <2>3, <1>3
    <3>2. Generations(new, d, limit_roll) \in Seq(FileLog)
      <4>1. limit_roll \in 0 .. limit_roll
        BY <1>1
      <4> QED BY <1>1, <1>2, <4>1, GenerationsLoop
    <3>3. w[d] = (older \o oldest) \o Generations(new, d, limit_roll)
      BY <2>1, <3>1, <3>2, ConcatAssociative
    <3>4. older \o oldest \in Seq(FileLog)
      BY ConcatProperties
    <3> QED BY <3>3, <3>4
  <2> QED BY <2>2, <2>3
<1>5. \A p \in DOMAIN new : \A i \in DOMAIN new[p] : new[p][i].day = p[1]
  BY <1>2 DEF FolderOK
<1>6. dev.limit > 0 /\ dev.rollback > 0 =>
          \A p \in DOMAIN new : SizeOf(new[p]) <= dev.limit \/ Len(new[p]) = 1
  BY <1>2 DEF FolderOK
<1> QED BY <1>2, <1>4, <1>5, <1>6 DEF FolderOK

\* A file that is created is empty; one that is there is as it was.
LEMMA CreateFolder ==
    ASSUME NEW w, NEW folder, FolderOK(folder, w), NEW day \in 0 .. MaxTime, dev \in Devices,
           NEW path, path = <<day, 0>>,
           NEW new, new = [p \in DOMAIN folder \cup {path} |-> IF p \in DOMAIN folder THEN folder[p] ELSE <<>>]
    PROVE  /\ FolderOK(new, w) /\ path \in DOMAIN new
           /\ path \notin DOMAIN folder => new[path] = <<>>
<1> DEFINE none == <<>>
<1>1. limit_roll \in Nat \ {0} /\ folder \in Folders
  BY DeviceShape DEF FolderOK
<1>2. /\ none \in Seq(FileLog) /\ SizeOf(none) = 0 /\ DOMAIN none = {}
  BY SizeOfEmpty
<1>3. DOMAIN new = DOMAIN folder \cup {path} /\ \A p \in DOMAIN new : new[p] = IF p \in DOMAIN folder THEN folder[p] ELSE none
  OBVIOUS
<1>4. \A d, k : Generation(new, d, k) = Generation(folder, d, k)
  <2> SUFFICES ASSUME NEW d, NEW k PROVE Generation(new, d, k) = Generation(folder, d, k)
    OBVIOUS
  <2>1. Generation(folder, d, k) = IF <<d, k>> \in DOMAIN folder THEN folder[<<d, k>>] ELSE none
    BY DEF Generation
  <2>2. Generation(new, d, k) = IF <<d, k>> \in DOMAIN new THEN new[<<d, k>>] ELSE none
    BY DEF Generation
  <2> HIDE DEF none
  <2> QED BY <1>3, <2>1, <2>2
<1>5. new \in Folders
  <2>1. path \in LogNames
    BY <1>1 DEF LogNames
  <2>2. folder \in [DOMAIN folder -> Seq(FileLog)] /\ DOMAIN folder \subseteq LogNames
    BY <1>1, FolderShape
  <2>3. new \in [DOMAIN new -> Seq(FileLog)]
    <3>1. new = [p \in DOMAIN new |-> IF p \in DOMAIN folder THEN folder[p] ELSE none]
      OBVIOUS
    <3> HIDE DEF none
    <3> QED BY <1>2, <1>3, <2>2, <3>1
  <2> QED BY <1>3, <2>1, <2>2, <2>3, FolderShape
<1> HIDE DEF none
<1>6. ASSUME NEW d PROVE Generations(new, d, limit_roll) = Generations(folder, d, limit_roll)
  <2>1. limit_roll \in Nat /\ \A k \in 0 .. limit_roll : Generation(new, d, k) = Generation(folder, d, k)
    BY <1>1, <1>4
  <2> QED BY <1>1, <1>5, <2>1, GenerationsSame, Zenon
<1>7. \A d \in 0 .. MaxTime : \E older \in Seq(FileLog) : w[d] = older \o Generations(new, d, limit_roll)
  BY <1>6 DEF FolderOK
<1>8. \A p \in DOMAIN new : \A i \in DOMAIN new[p] : new[p][i].day = p[1]
  BY <1>2, <1>3 DEF FolderOK
<1>9. dev.limit > 0 /\ dev.rollback > 0 =>
          \A p \in DOMAIN new : SizeOf(new[p]) <= dev.limit \/ Len(new[p]) = 1
  <2>1. dev.limit > 0 => SizeOf(none) <= dev.limit
    BY <1>2, DeviceShape
  <2> QED BY <1>3, <2>1 DEF FolderOK
<1>10. path \notin DOMAIN folder => new[path] = <<>>
  BY <1>3 DEF none
<1> QED BY <1>3, <1>5, <1>7, <1>8, <1>9, <1>10 DEF FolderOK

With(f, p, log) == [f EXCEPT ![p] = Append(@, log)]

\* A log goes to the end of the newest file of its name, if it may.
LEMMA WriteFolder ==
    ASSUME NEW w \in [0 .. MaxTime -> Seq(FileLog)], NEW folder, FolderOK(folder, w), dev \in Devices,
           NEW log \in FileLog, NEW day, day = log.day, NEW path, path = <<day, 0>>, path \in DOMAIN folder,
           dev.limit > 0 /\ dev.rollback > 0 =>
               SizeOf(folder[path]) + log.size <= dev.limit \/ folder[path] = <<>>,
           NEW new, new = With(folder, path, log), NEW v, v = With(w, day, log)
    PROVE  FolderOK(new, v) /\ v \in [0 .. MaxTime -> Seq(FileLog)]
<1> DEFINE s == folder[path]
<1>1. limit_roll \in Nat \ {0} /\ folder \in Folders
  BY DeviceShape DEF FolderOK
<1>2. folder \in [DOMAIN folder -> Seq(FileLog)] /\ DOMAIN folder \subseteq LogNames /\ s \in Seq(FileLog)
  BY <1>1, FolderShape
<1>3. day \in 0 .. MaxTime
  BY DEF FileLog
<1>4. /\ Append(s, log) \in Seq(FileLog) /\ SizeOf(Append(s, log)) = SizeOf(s) + log.size
      /\ DOMAIN Append(s, log) = 1 .. Len(s) + 1 /\ DOMAIN s = 1 .. Len(s) /\ Len(s) \in Nat
      /\ \A i \in 1 .. Len(s) : Append(s, log)[i] = s[i]
      /\ Append(s, log)[Len(s) + 1] = log
  BY <1>2, SizeOfAppend, AppendProperties, LenProperties
<1>5. /\ DOMAIN new = DOMAIN folder /\ new[path] = Append(s, log)
      /\ \A p \in DOMAIN folder \ {path} : new[p] = folder[p]
  BY <1>2 DEF With
<1>6. new \in Folders
  <2>1. new = [p \in DOMAIN new |-> new[p]]
    BY DEF With
  <2>2. \A p \in DOMAIN new : new[p] \in Seq(FileLog)
    BY <1>2, <1>4, <1>5
  <2>3. new \in [DOMAIN new -> Seq(FileLog)]
    BY <2>1, <2>2
  <2> QED BY <1>2, <1>5, <2>3, FolderShape
<1>7. v \in [0 .. MaxTime -> Seq(FileLog)]
  <2>1. w[day] \in Seq(FileLog)
    BY <1>3
  <2>2. Append(w[day], log) \in Seq(FileLog)
    BY <2>1, AppendProperties
  <2> QED BY <1>3, <2>2 DEF With
<1>8. /\ Generation(new, day, 0) = Append(Generation(folder, day, 0), log)
      /\ \A d, k : d # day \/ k # 0 => Generation(new, d, k) = Generation(folder, d, k)
  <2>1. Generation(new, day, 0) = Append(Generation(folder, day, 0), log)
    BY <1>5 DEF Generation
  <2>2. ASSUME NEW d, NEW k, d # day \/ k # 0 PROVE Generation(new, d, k) = Generation(folder, d, k)
    <3>1. <<d, k>> # path
      BY <2>2
    <3> QED BY <1>5, <3>1 DEF Generation
  <2> QED BY <2>1, <2>2
<1> HIDE DEF s
<1>9. Generations(new, day, limit_roll) = Append(Generations(folder, day, limit_roll), log)
  <2>1. limit_roll \in Nat
    BY <1>1
  <2>2. Grown(folder, new, day, log)
    BY <1>8 DEF Grown
  <2> QED BY <1>1, <1>6, <2>1, <2>2, GenerationsAppend, SMTT(30)
<1>10. ASSUME NEW d, d # day PROVE Generations(new, d, limit_roll) = Generations(folder, d, limit_roll)
  <2>1. limit_roll \in Nat /\ \A k \in 0 .. limit_roll : Generation(new, d, k) = Generation(folder, d, k)
    BY <1>1, <1>8, <1>10
  <2> QED BY <1>1, <1>6, <2>1, GenerationsSame, Zenon
<1>11. ASSUME NEW d \in 0 .. MaxTime
       PROVE  \E older \in Seq(FileLog) : v[d] = older \o Generations(new, d, limit_roll)
  <2>1. PICK older \in Seq(FileLog) : w[d] = older \o Generations(folder, d, limit_roll)
    BY DEF FolderOK
  <2>2. CASE d # day
    <3>1. v[d] = w[d]
      BY <2>2 DEF With
    <3> QED BY <2>1, <2>2, <3>1, <1>10
  <2>3. CASE d = day
    <3> DEFINE gs == Generations(folder, d, limit_roll)
               last == <<log>>
    <3>1. gs \in Seq(FileLog)
      <4>1. limit_roll \in 0 .. limit_roll
        BY <1>1
      <4> QED BY <1>1, <4>1, GenerationsLoop
    <3>2. last \in Seq(FileLog) /\ older \o gs \in Seq(FileLog)
      BY <3>1, ConcatProperties
    <3>3. v[d] = Append(w[d], log)
      BY <2>3 DEF With
    <3>4. Generations(new, d, limit_roll) = Append(gs, log)
      BY <1>9, <2>3
    <3> HIDE DEF gs
    <3>5. Append(gs, log) = gs \o last /\ Append(older \o gs, log) = (older \o gs) \o last
      BY <3>1, <3>2, AppendIsConcat
    <3> HIDE DEF last
    <3>6. (older \o gs) \o last = older \o (gs \o last)
      <4>1. older \in Seq(FileLog) /\ gs \in Seq(FileLog) /\ last \in Seq(FileLog)
        BY <3>1, <3>2
      <4> QED BY <4>1, ConcatAssociative
    <3>7. v[d] = older \o Generations(new, d, limit_roll)
      BY <2>1, <3>3, <3>4, <3>5, <3>6 DEF gs
    <3> QED BY <3>7
  <2> QED BY <2>2, <2>3
<1>12. \A p \in DOMAIN new : \A i \in DOMAIN new[p] : new[p][i].day = p[1]
  <2>1. \A p \in DOMAIN folder : \A i \in DOMAIN folder[p] : folder[p][i].day = p[1]
    BY DEF FolderOK
  <2>2. path[1] = day
    OBVIOUS
  <2>3. \A i \in 1 .. Len(s) : s[i].day = path[1]
    BY <1>4, <2>1 DEF s
  <2>4. \A i \in 1 .. Len(s) + 1 : i \in 1 .. Len(s) \/ i = Len(s) + 1
    BY <1>4
  <2>5. \A i \in DOMAIN new[path] : new[path][i].day = path[1]
    <3>1. DOMAIN new[path] = 1 .. Len(s) + 1 /\ log.day = path[1]
      BY <1>4, <1>5, <2>2 DEF s
    <3>2. \A i \in 1 .. Len(s) : new[path][i] = s[i]
      BY <1>4, <1>5 DEF s
    <3>3. new[path][Len(s) + 1] = log
      BY <1>4, <1>5 DEF s
    <3> QED BY <2>3, <2>4, <3>1, <3>2, <3>3
  <2> QED BY <1>5, <2>1, <2>5
<1>13. dev.limit > 0 /\ dev.rollback > 0 =>
           \A p \in DOMAIN new : SizeOf(new[p]) <= dev.limit \/ Len(new[p]) = 1
  <2> SUFFICES ASSUME dev.limit > 0, dev.rollback > 0
               PROVE  SizeOf(new[path]) <= dev.limit \/ Len(new[path]) = 1
    BY <1>5 DEF FolderOK
  <2>1. CASE s = <<>>
    <3>1. Len(Append(s, log)) = 1
      BY <2>1
    <3> QED BY <3>1, <1>5 DEF s
  <2>2. CASE s # <<>>
    BY <2>2, <1>4, <1>5 DEF s
  <2> QED BY <2>1, <2>2
<1> QED BY <1>6, <1>7, <1>11, <1>12, <1>13 DEF FolderOK

\* What OpenFileDevice leaves is in order, and a file that is open is the one for a
\* log of this time and size.
LEMMA LogOpenInv ==
    ASSUME NEW h, NEW w, HandlerOK(h, w), dev \in Devices, NEW t \in 0 .. MaxTime, NEW size \in Sizes,
           NEW opens \in BOOLEAN, NEW r, r = OpenFileDevice(h, t, size, opens)
    PROVE  /\ HandlerOK(r, w)
           /\ r.writer # Closed =>
                 /\ r.writer = <<MakeFileName(t), 0>>
                 /\ dev.limit > 0 /\ dev.rollback > 0 =>
                       SizeOf(r.folder[r.writer]) + size <= dev.limit \/ r.folder[r.writer] = <<>>
<1> DEFINE over == ~SameDay(h, t) \/ FileOver(h, size)
           h1 == IF over THEN [h EXCEPT !.size = 0, !.writer = Closed] ELSE h
           path == <<MakeFileName(t), 0>>
           h2 == IF dev.rollback > 0 \/ dev.limit > 0
                 THEN [h1 EXCEPT !.folder = rollback(@, path[1], limit_roll)]
                 ELSE h1
<1>1. r = IF h1.writer # Closed THEN h1
          ELSE IF opens THEN Opened(h2, t, path) ELSE [h2 EXCEPT !.last_try = t]
  BY Zenon DEF OpenFileDevice
<1>2. /\ h \in Handlers /\ FolderOK(h.folder, w) /\ h.day = DayOf(h.day)
      /\ h.writer # Closed =>
            /\ h.writer = <<MakeFileName(h.day), 0>> /\ h.writer \in DOMAIN h.folder
            /\ h.size = SizeOf(h.folder[h.writer])
  BY DEF HandlerOK
<1>3. 0 \in Nat /\ MakeFileName(t) \in 0 .. MaxTime /\ path[1] = MakeFileName(t)
  BY DayShape
<1>4. CASE h1.writer # Closed
  <2>1. ~over /\ r = h /\ h.writer # Closed
    BY <1>1, <1>4, <1>2 DEF Handlers
  <2>2. SameDay(h, t) /\ ~FileOver(h, size)
    BY <2>1
  <2>3. MakeFileName(t) = MakeFileName(h.day)
    BY <1>2, <2>2, DayShape
  <2>4. dev.limit > 0 /\ dev.rollback > 0 => h.size + size <= dev.limit
    <3>1. h.size \in Nat /\ size \in Nat /\ dev.limit \in Nat
      BY <1>2, DeviceShape, LogFileAssumption DEF Handlers
    <3> QED BY <2>2, <3>1 DEF FileOver
  <2> QED BY <1>2, <2>1, <2>3, <2>4 DEF HandlerOK
<1>5. CASE h1.writer = Closed
  <2>1. h1 \in Handlers /\ h1.folder = h.folder /\ h1.day = h.day
    BY <1>2, <1>3 DEF Handlers
  <2> HIDE DEF h1, path
  <2>2. /\ h2 \in Handlers /\ FolderOK(h2.folder, w) /\ h2.day = DayOf(h2.day) /\ h2.writer = Closed
        /\ dev.rollback > 0 \/ dev.limit > 0 => path \notin DOMAIN h2.folder
    <3>1. CASE dev.rollback > 0 \/ dev.limit > 0
      <4> DEFINE f == rollback(h1.folder, path[1], limit_roll)
      <4>1. FolderOK(f, w) /\ <<path[1], 0>> \notin DOMAIN f
        BY <1>2, <1>3, <2>1, RollbackFolder
      <4>2. f \in Folders /\ path = <<path[1], 0>>
        BY <4>1 DEF FolderOK, path
      <4>3. h2 = [h1 EXCEPT !.folder = f]
        BY <3>1
      <4> HIDE DEF f, h2
      <4>4. h2 \in Handlers /\ h2.folder = f /\ h2.day = h1.day /\ h2.writer = h1.writer
        BY <2>1, <4>2, <4>3 DEF Handlers
      <4> QED BY <1>2, <1>5, <2>1, <4>1, <4>2, <4>4
    <3>2. CASE ~(dev.rollback > 0 \/ dev.limit > 0)
      BY <3>2, <1>2, <1>5, <2>1
    <3> QED BY <3>1, <3>2
  <2> HIDE DEF h2
  <2>3. CASE ~opens
    <3>1. r = [h2 EXCEPT !.last_try = t]
      BY <1>1, <1>5, <2>3
    <3>2. r \in Handlers /\ r.folder = h2.folder /\ r.day = h2.day /\ r.writer = h2.writer
      BY <2>2, <3>1 DEF Handlers
    <3> QED BY <2>2, <3>2 DEF HandlerOK
  <2>4. CASE opens
    <3> DEFINE f == [p \in DOMAIN h2.folder \cup {path} |-> IF p \in DOMAIN h2.folder THEN h2.folder[p] ELSE <<>>]
               size_ == SizeOf(f[path])
               day == DayOf(t)
               zero == 0
    <3>1. r = [h2 EXCEPT !.folder = f, !.writer = path, !.size = size_, !.day = day, !.last_try = zero]
      BY <1>1, <1>5, <2>4 DEF Opened
    <3>2. path = <<MakeFileName(t), 0>> /\ path \in LogNames /\ zero \in 0 .. MaxTime
      BY <1>3, DeviceShape, LogFileAssumption DEF path, LogNames
    <3>3. FolderOK(f, w) /\ path \in DOMAIN f /\ (path \notin DOMAIN h2.folder => f[path] = <<>>)
      <4> DEFINE name == MakeFileName(t)
                 folder == h2.folder
      <4>1. path = <<name, 0>> /\ name \in 0 .. MaxTime /\ FolderOK(folder, w)
        BY <1>3, <2>2, <3>2
      <4>2. f = [p \in DOMAIN folder \cup {path} |-> IF p \in DOMAIN folder THEN folder[p] ELSE <<>>]
        OBVIOUS
      <4>3. FolderOK(f, w) /\ path \in DOMAIN f /\ (path \notin DOMAIN folder => f[path] = <<>>)
        <5> HIDE DEF f, name, folder
        <5> QED BY <4>1, <4>2, CreateFolder
      <4> QED BY <4>3
    <3>4. day \in 0 .. MaxTime /\ DayOf(day) = day /\ MakeFileName(day) = MakeFileName(t)
      BY DayShape
    <3> HIDE DEF f, day, zero
    <3>5. f \in Folders /\ size_ \in Nat
      <4>1. f \in Folders /\ f[path] \in Seq(FileLog)
        BY <3>3, FolderShape DEF FolderOK
      <4> HIDE DEF size_
      <4>2. PICK x : x[Len(f[path])] \in Nat /\ size_ = x[Len(f[path])]
        <5>1. Len(f[path]) \in 0 .. Len(f[path])
          BY <4>1, LenProperties
        <5> QED BY <4>1, <5>1, SizeLoop DEF size_
      <4> QED BY <4>1, <4>2
    <3> HIDE DEF size_
    <3>6. /\ r \in Handlers /\ r.folder = f /\ r.writer = path /\ r.size = size_ /\ r.day = day
      BY <2>2, <3>1, <3>2, <3>4, <3>5 DEF Handlers
    <3>7. r.writer = <<MakeFileName(r.day), 0>>
      BY <3>2, <3>4, <3>6
    <3>8. HandlerOK(r, w)
      BY <3>3, <3>4, <3>6, <3>7 DEF HandlerOK, size_
    <3>9. dev.rollback > 0 => r.folder[r.writer] = <<>>
      BY <2>2, <3>3, <3>6
    <3> QED BY <3>2, <3>6, <3>8, <3>9
  <2> QED BY <2>3, <2>4
<1> QED BY <1>4, <1>5

\* A log that is written, or one that is not, leaves the files in order.
LEMMA LogWriteInv ==
    ASSUME NEW h, NEW w \in [0 .. MaxTime -> Seq(FileLog)], HandlerOK(h, w), dev \in Devices,
           NEW log \in FileLog, h.writer = <<log.day, 0>>, h.writer # Closed,
           dev.limit > 0 /\ dev.rollback > 0 =>
               SizeOf(h.folder[h.writer]) + log.size <= dev.limit \/ h.folder[h.writer] = <<>>,
           NEW writes \in BOOLEAN, NEW r, r = write(h, log, writes),
           NEW v, v = IF writes THEN With(w, h.writer[1], log) ELSE w
    PROVE  HandlerOK(r, v) /\ v \in [0 .. MaxTime -> Seq(FileLog)]
<1> DEFINE h1 == [h EXCEPT !.size = @ + log.size]
           path == h.writer
<1>1. /\ h \in Handlers /\ FolderOK(h.folder, w) /\ h.day = DayOf(h.day)
      /\ path = <<MakeFileName(h.day), 0>> /\ path \in DOMAIN h.folder
      /\ h.size = SizeOf(h.folder[path])
  BY DEF HandlerOK
<1>2. log.size \in Nat /\ h.size \in Nat /\ log.day \in 0 .. MaxTime
  BY <1>1, LogFileAssumption DEF FileLog, Handlers
<1>3. h1 \in Handlers /\ h1.folder = h.folder /\ h1.writer = path /\ h1.day = h.day /\ h1.size = h.size + log.size
  <2> DEFINE size == h.size + log.size
  <2>1. size \in Nat /\ h1 = [h EXCEPT !.size = size]
    BY <1>2
  <2> HIDE DEF size, h1
  <2>2. h1 \in Handlers /\ h1.folder = h.folder /\ h1.writer = path /\ h1.day = h.day /\ h1.size = size
    BY <1>1, <2>1 DEF Handlers
  <2> QED BY <2>2 DEF size
<1>4. r = IF writes THEN [h1 EXCEPT !.folder[h.writer] = Append(@, log)] ELSE [h1 EXCEPT !.writer = Closed]
  BY DEF write
<1> HIDE DEF h1
<1>5. CASE ~writes
  <2>1. r = [h1 EXCEPT !.writer = Closed] /\ v = w
    BY <1>4, <1>5
  <2>2. r \in Handlers /\ r.folder = h.folder /\ r.writer = Closed /\ r.day = h.day
    BY <1>3, <2>1 DEF Handlers
  <2> QED BY <1>1, <2>1, <2>2 DEF HandlerOK
<1>6. CASE writes
  <2> DEFINE f == With(h.folder, path, log)
             day == log.day
  <2>1. path[1] = day
    OBVIOUS
  <2>2. v = With(w, day, log)
    BY <1>6, <2>1
  <2>3. r = [h1 EXCEPT !.folder = f]
    BY <1>4, <1>6, <1>3 DEF With, Handlers
  <2>4. FolderOK(f, v) /\ v \in [0 .. MaxTime -> Seq(FileLog)]
    <3> DEFINE folder == h.folder
    <3>1. /\ FolderOK(folder, w) /\ path = <<day, 0>> /\ path \in DOMAIN folder
          /\ dev.limit > 0 /\ dev.rollback > 0 =>
                SizeOf(folder[path]) + log.size <= dev.limit \/ folder[path] = <<>>
          /\ f = With(folder, path, log) /\ v = With(w, day, log) /\ day = log.day
      BY <1>1, <2>2
    <3> HIDE DEF folder, f, day
    <3> QED BY <3>1, WriteFolder
  <2>5. DOMAIN f = DOMAIN h.folder /\ f[path] = Append(h.folder[path], log) /\ h.folder[path] \in Seq(FileLog)
    <3>1. h.folder \in [DOMAIN h.folder -> Seq(FileLog)]
      BY <1>1, FolderShape DEF FolderOK
    <3> QED BY <1>1, <3>1 DEF With
  <2>6. SizeOf(f[path]) = h.size + log.size
    BY <1>1, <2>5, SizeOfAppend
  <2>7. f \in Folders
    BY <2>4 DEF FolderOK
  <2> HIDE DEF f, day
  <2>8. r \in Handlers /\ r.folder = f /\ r.writer = path /\ r.day = h.day /\ r.size = h.size + log.size
    BY <1>3, <2>3, <2>7 DEF Handlers
  <2> QED BY <1>1, <2>4, <2>5, <2>6, <2>8 DEF HandlerOK
<1> QED BY <1>5, <1>6

LEMMA LogFileInitInv == LogFileInit => LogFileInv
<1> SUFFICES ASSUME LogFileInit PROVE LogFileInv
  OBVIOUS
<1> DEFINE none == <<>>
           zero == 0
<1>1. /\ handler = [folder |-> none, writer |-> none, size |-> zero, day |-> zero, last_try |-> zero]
      /\ dev \in Devices /\ now = RetrySeconds /\ written = [day \in 0 .. MaxTime |-> none] /\ lines = zero
  BY DEF LogFileInit, Closed
<1>2. /\ limit_roll \in Nat \ {0} /\ dev.limit \in Nat
      /\ zero \in Nat /\ zero \in 0 .. MaxTime /\ zero = DayOf(zero) /\ RetrySeconds \in RetrySeconds .. MaxTime
  <2>1. DaySeconds \in Nat \ {0}
    BY LogFileAssumption
  <2>2. 0 <= 0 /\ 0 * DaySeconds = 0 /\ 0 < 0 * DaySeconds + DaySeconds
    BY <2>1
  <2>3. zero \div DaySeconds = 0
    BY <2>1
  <2>4. DayOf(zero) = zero
    BY <2>2, <2>3 DEF DayOf
  <2> QED BY <1>1, <2>4, DeviceShape, LogFileAssumption
<1>3. none \in Seq(FileLog) /\ DOMAIN none = {} /\ none = Closed
  BY DEF Closed
<1>4. none \in Folders
  <2>1. none = [p \in {} |-> none]
    OBVIOUS
  <2>2. none \in [{} -> Seq(FileLog)]
    BY <2>1
  <2> HIDE DEF none
  <2> QED BY <1>3, <2>2, FolderShape
<1>5. written \in [0 .. MaxTime -> Seq(FileLog)]
  BY <1>1, <1>3
<1>6. ASSUME NEW day PROVE Generations(none, day, limit_roll) = none
  <2>1. \A k : Generation(none, day, k) = none
    BY <1>3 DEF Generation
  <2> HIDE DEF none
  <2>2. PICK f : /\ f[0] = Generation(none, day, 0)
                 /\ \A k \in 1 .. limit_roll : f[k] = Generation(none, day, k) \o f[k - 1]
                 /\ Generations(none, day, limit_roll) = f[limit_roll]
    BY <1>2, <1>4, GenerationsLoop
  <2> DEFINE n == limit_roll
             W == [k \in 0 .. n |-> {none}]
  <2>3. n \in Nat /\ 0 \in 0 .. n /\ n \in 0 .. n /\ \A i \in 1 .. n : i - 1 \in 0 .. n /\ i \in 0 .. n
    BY <1>2
  <2>4. none \o none = none
    BY <1>3, ConcatEmptySeq DEF none
  <2>5. \A k \in 0 .. n : f[k] \in W[k]
    <3> HIDE DEF n
    <3>1. f[0] \in W[0]
      BY <2>1, <2>2, <2>3
    <3>2. \A i \in 1 .. n : f[i - 1] \in W[i - 1] => f[i] \in W[i]
      <4>1. \A i \in 1 .. n : f[i] = none \o f[i - 1]
        BY <2>1, <2>2 DEF n
      <4> QED BY <2>3, <2>4, <4>1
    <3> HIDE DEF W
    <3> QED BY <2>3, <3>1, <3>2, LoopInvariant
  <2> QED BY <2>2, <2>3, <2>5
<1>7. FolderOK(none, written)
  <2>1. ASSUME NEW day \in 0 .. MaxTime
        PROVE  \E older \in Seq(FileLog) : written[day] = older \o Generations(none, day, limit_roll)
    <3>1. written[day] = none
      BY <1>1
    <3> HIDE DEF none
    <3>2. none \o none = none
      BY <1>3, ConcatEmptySeq DEF none
    <3> QED BY <1>3, <1>6, <3>1, <3>2
  <2> HIDE DEF none
  <2> QED BY <1>3, <1>4, <2>1 DEF FolderOK
<1> HIDE DEF none, zero
<1>8. handler \in Handlers /\ handler.folder = none /\ handler.day = zero /\ handler.writer = Closed
  BY <1>1, <1>2, <1>3, <1>4 DEF Handlers
<1>9. HandlerOK(handler, written)
  BY <1>2, <1>7, <1>8 DEF HandlerOK
<1> QED BY <1>1, <1>2, <1>5, <1>9 DEF LogFileInv

\* A device keeps its configuration: what is in order is so by the same rules.
LEMMA SameDevice ==
    ASSUME dev' = dev
    PROVE  HandlerOK(handler, written)' <=> HandlerOK(handler', written')
<1>1. limit_roll' = limit_roll /\ \A t : MakeFileName(t)' = MakeFileName(t)
  BY DEF limit_roll, MakeFileName
<1>2. LogNames' = LogNames
  BY <1>1 DEF LogNames
<1>3. Folders' = Folders
  BY <1>2 DEF Folders
<1>4. Handlers' = Handlers
  BY <1>2, <1>3 DEF Handlers
<1>5. FolderOK(handler.folder, written)' <=> FolderOK(handler'.folder, written')
  BY <1>1, <1>3 DEF FolderOK
<1>6. MakeFileName(handler.day)' = MakeFileName(handler'.day)
  BY DEF MakeFileName
<1> QED BY <1>4, <1>5, <1>6 DEF HandlerOK

LEMMA DispatchLogInv ==
    ASSUME LogFileInv, NEW t \in {now - 1, now}, NEW size \in Sizes, NEW priority \in 0 .. 1,
           DispatchLog(t, size, priority)
    PROVE  LogFileInv'
<1>1. /\ dev \in Devices /\ now \in RetrySeconds .. MaxTime /\ lines \in Nat
      /\ written \in [0 .. MaxTime -> Seq(FileLog)] /\ HandlerOK(handler, written)
      /\ dev' = dev /\ now' = now /\ lines' = lines + 1
  BY DEF LogFileInv, DispatchLog
<1>2. t \in 0 .. MaxTime
  BY <1>1, LogFileAssumption
<1>3. SUFFICES HandlerOK(handler', written') /\ written' \in [0 .. MaxTime -> Seq(FileLog)]
  <2>1. HandlerOK(handler, written)'
    BY <1>1, <1>3, SameDevice
  <2>2. lines' \in Nat /\ dev' \in Devices /\ now' \in RetrySeconds .. MaxTime
    BY <1>1
  <2> QED BY <1>3, <2>1, <2>2 DEF LogFileInv
<1>4. CASE UNCHANGED <<handler, written>>
  BY <1>1, <1>4
<1>5. CASE ~UNCHANGED <<handler, written>>
  <2>1. PICK opens \in BOOLEAN, writes \in BOOLEAN :
           LET h == OpenFileDevice(handler, t, size, opens)
               log == [day |-> MakeFileName(t), id |-> lines', size |-> size]
           IN IF h.writer = Closed THEN handler' = h /\ UNCHANGED written
              ELSE /\ handler' = write(h, log, writes)
                   /\ written' = IF writes THEN [written EXCEPT ![h.writer[1]] = Append(@, log)] ELSE written
    BY <1>5 DEF DispatchLog, EnterProcOutFileDevice
  <2> DEFINE h == OpenFileDevice(handler, t, size, opens)
             log == [day |-> MakeFileName(t), id |-> lines', size |-> size]
  <2>2. IF h.writer = Closed THEN handler' = h /\ UNCHANGED written
        ELSE /\ handler' = write(h, log, writes)
             /\ written' = IF writes THEN [written EXCEPT ![h.writer[1]] = Append(@, log)] ELSE written
    BY <2>1
  <2>3. log \in FileLog /\ log.day = MakeFileName(t) /\ log.size = size
    BY <1>1, <1>2, DayShape DEF FileLog
  <2> HIDE DEF log
  <2>4. /\ HandlerOK(h, written)
        /\ h.writer # Closed =>
              /\ h.writer = <<MakeFileName(t), 0>>
              /\ dev.limit > 0 /\ dev.rollback > 0 =>
                    SizeOf(h.folder[h.writer]) + size <= dev.limit \/ h.folder[h.writer] = <<>>
    <3> DEFINE g == handler
               w == written
    <3>1. HandlerOK(g, w) /\ h = OpenFileDevice(g, t, size, opens)
      BY <1>1
    <3> HIDE DEF g, w, h
    <3>2. /\ HandlerOK(h, w)
          /\ h.writer # Closed =>
                /\ h.writer = <<MakeFileName(t), 0>>
                /\ dev.limit > 0 /\ dev.rollback > 0 =>
                      SizeOf(h.folder[h.writer]) + size <= dev.limit \/ h.folder[h.writer] = <<>>
      BY <1>1, <1>2, <3>1, LogOpenInv
    <3> QED BY <3>2 DEF w
  <2> HIDE DEF h
  <2>5. CASE h.writer = Closed
    BY <1>1, <2>2, <2>4, <2>5
  <2>6. CASE h.writer # Closed
    <3> DEFINE r == write(h, log, writes)
               w == written
               v == IF writes THEN With(w, h.writer[1], log) ELSE w
    <3>1. handler' = r /\ written' = v
      BY <2>2, <2>6 DEF With
    <3>2. /\ w \in [0 .. MaxTime -> Seq(FileLog)] /\ HandlerOK(h, w)
          /\ h.writer = <<log.day, 0>>
          /\ dev.limit > 0 /\ dev.rollback > 0 =>
                SizeOf(h.folder[h.writer]) + log.size <= dev.limit \/ h.folder[h.writer] = <<>>
      BY <1>1, <2>3, <2>4, <2>6
    <3>3. HandlerOK(r, v) /\ v \in [0 .. MaxTime -> Seq(FileLog)]
      <4>1. r = write(h, log, writes) /\ v = IF writes THEN With(w, h.writer[1], log) ELSE w
        OBVIOUS
      <4> HIDE DEF r, v, w
      <4> QED BY <1>1, <2>3, <2>6, <3>2, <4>1, LogWriteInv
    <3> HIDE DEF r, v
    <3> QED BY <3>1, <3>3
  <2> QED BY <2>5, <2>6
<1> QED BY <1>4, <1>5

LEMMA LogFileStep == LogFileInv /\ [LogFileNext]_logFileVars => LogFileInv'
<1> SUFFICES ASSUME LogFileInv, [LogFileNext]_logFileVars PROVE LogFileInv'
  OBVIOUS
<1>1. CASE \E t \in {now - 1, now}, size \in Sizes, priority \in 0 .. 1 : DispatchLog(t, size, priority)
  BY <1>1, DispatchLogInv
<1>2. ASSUME NEW n \in RetrySeconds .. MaxTime, now' = n, UNCHANGED <<dev, handler, written, lines>>
      PROVE  LogFileInv'
  <2>1. HandlerOK(handler', written')
    BY <1>2 DEF LogFileInv
  <2>2. HandlerOK(handler, written)'
    BY <1>2, <2>1, SameDevice
  <2> QED BY <1>2, <2>2 DEF LogFileInv
<1>3. CASE \E t \in now .. MaxTime : Tick(t)
  <2>1. PICK t \in now .. MaxTime : Tick(t)
    BY <1>3
  <2>2. t \in RetrySeconds .. MaxTime
    BY LogFileAssumption DEF LogFileInv
  <2> QED BY <1>2, <2>1, <2>2 DEF Tick
<1>4. CASE UNCHANGED logFileVars
  BY <1>2, <1>4 DEF logFileVars, LogFileInv
<1> QED BY <1>1, <1>3, <1>4 DEF LogFileNext

\* fn_log's files, through failed opens and failed writes, midnight, logs whose time
\* lies back and every rollback: what is in the files of a name is the end of what
\* was written under it, each log is under its own day, the size that rolling back
\* is decided by is the file's, and no file passes the limit (LogFileIsKept).
THEOREM LogFileSound == LogFileSpec => []LogFileIsKept
<1>1. LogFileInv => LogFileIsKept
  <2> SUFFICES ASSUME LogFileInv PROVE LogFileIsKept
    OBVIOUS
  <2>1. /\ dev \in Devices /\ handler \in Handlers /\ FolderOK(handler.folder, written)
        /\ handler.writer # Closed =>
              /\ handler.writer = <<MakeFileName(handler.day), 0>> /\ handler.writer \in DOMAIN handler.folder
              /\ handler.size = SizeOf(handler.folder[handler.writer])
        /\ handler.folder \in Folders /\ limit_roll \in Nat
    BY DeviceShape DEF LogFileInv, HandlerOK, FolderOK
  <2>2. LogFileTypeOK
    BY <2>1, FolderShape DEF LogFileTypeOK, Handlers, LogNames
  <2>3. GenerationsAreSuffix
    <3> SUFFICES ASSUME NEW day \in 0 .. MaxTime
                 PROVE  \E n \in 0 .. Len(written[day]) :
                           written[day] = SubSeq(written[day], 1, n) \o Generations(handler.folder, day, limit_roll)
      BY DEF GenerationsAreSuffix
    <3> DEFINE gs == Generations(handler.folder, day, limit_roll)
               all == written[day]
    <3>1. PICK older \in Seq(FileLog) : all = older \o gs
      BY <2>1 DEF FolderOK
    <3>2. gs \in Seq(FileLog)
      <4>1. limit_roll \in 0 .. limit_roll
        BY <2>1
      <4> QED BY <2>1, <4>1, GenerationsLoop
    <3> DEFINE n == Len(older)
    <3> HIDE DEF gs, all
    <3>3. n \in 0 .. Len(all) /\ \A i \in 1 .. n : all[i] = older[i]
      BY <3>1, <3>2, ConcatProperties, LenProperties
    <3>4. SubSeq(all, 1, n) = older
      BY <3>3
    <3> HIDE DEF n
    <3> QED BY <3>1, <3>3, <3>4 DEF gs, all
  <2>4. LogsOfTheDay /\ SizeIsTracked /\ SizeLimit
    BY <2>1 DEF LogsOfTheDay, SizeIsTracked, SizeLimit, FolderOK
  <2> QED BY <2>2, <2>3, <2>4 DEF LogFileIsKept
<1> QED BY <1>1, LogFileInitInv, LogFileStep, PTL DEF LogFileSpec

(***************************************************************************)
(* The ring of fn_log                                                      *)
(***************************************************************************)
\* The slot of a counter, and that two counters less than a lap apart have
\* different slots.
Pos(i, m) == i % m.len

LEMMA DivMod ==
    ASSUME NEW L \in Nat, L > 0, NEW i \in Nat
    PROVE  i % L \in 0 .. L - 1 /\ i \div L \in Nat /\ i = L * (i \div L) + (i % L)
OBVIOUS

LEMMA ModOf ==
    ASSUME NEW L \in Nat, L > 0, NEW a \in Nat, NEW r \in 0 .. L - 1
    PROVE  (L * a + r) % L = r
OBVIOUS

LEMMA Laps ==
    ASSUME NEW L \in Nat, NEW d \in Int
    PROVE  (d >= 1 => L * d >= L) /\ (d <= 0 => L * d <= 0)
OBVIOUS

LEMMA ModDiffers ==
    ASSUME NEW L \in Nat, L > 0, NEW i \in Nat, NEW j \in Nat, i < j, j < i + L
    PROVE  i % L # j % L
<1> SUFFICES ASSUME i % L = j % L PROVE FALSE
  OBVIOUS
<1> DEFINE a == i \div L
           b == j \div L
           r == i % L
           x == L * (b - a)
<1>1. a \in Nat /\ b \in Nat /\ r \in Nat /\ i = L * a + r /\ j = L * b + r
  BY DivMod
<1>2. x \in Int /\ (x >= L \/ x <= 0)
  <2> HIDE DEF a, b
  <2> QED BY <1>1, Laps
<1>3. j - i = x
  <2> HIDE DEF a, b, r
  <2> QED BY <1>1
<1> HIDE DEF x
<1> QED BY <1>2, <1>3

LEMMA ModSum ==
    ASSUME NEW L \in Nat, L > 0, NEW i \in Nat, NEW k \in Nat
    PROVE  ((i % L) + k) % L = (i + k) % L
<1> DEFINE a == i \div L
           r == i % L
           c == (r + k) \div L
           s == (r + k) % L
<1>1. a \in Nat /\ r \in Nat /\ i = L * a + r
  BY DivMod
<1>2. c \in Nat /\ s \in 0 .. L - 1 /\ r + k = L * c + s
  <2>1. r + k \in Nat
    BY <1>1
  <2> QED BY <2>1, DivMod
<1> HIDE DEF a, r, c
<1>3. i + k = L * (a + c) + s
  BY <1>1, <1>2
<1>4. (i + k) % L = s
  <2>1. a + c \in Nat
    BY <1>1, <1>2
  <2> HIDE DEF s
  <2> QED BY <1>2, <1>3, <2>1, ModOf
<1> QED BY <1>4 DEF s, r

LEMMA ModOfSum ==
    ASSUME NEW L \in Nat, L > 0, NEW k \in 0 .. L - 1
    PROVE  k % L = k /\ (k + L) % L = k
<1> DEFINE a == 0
           b == 1
<1>1. a \in Nat /\ b \in Nat /\ L * a + k = k /\ L * b + k = k + L
  OBVIOUS
<1> HIDE DEF a, b
<1>2. (L * a + k) % L = k /\ (L * b + k) % L = k
  BY <1>1, ModOf
<1> QED BY <1>1, <1>2

\* The number of slots from one index to another, as the code computes it from
\* the slots alone.
LEMMA ModDistance ==
    ASSUME NEW L \in Nat, L > 0, NEW i \in Nat, NEW j \in Nat, i <= j, j < i + L
    PROVE  ((j % L) + L - (i % L)) % L = j - i
<1> DEFINE d == j - i
           r == i % L
<1>1. d \in 0 .. L - 1 /\ d \in Nat /\ j = i + d
  OBVIOUS
<1>2. r \in 0 .. L - 1
  BY DivMod
<1>3. j % L = (r + d) % L
  <2> HIDE DEF d
  <2> QED BY <1>1, ModSum
<1>4. (r + d) % L = IF r + d < L THEN r + d ELSE r + d - L
  <2> HIDE DEF d, r
  <2>1. CASE r + d < L
    BY <1>1, <1>2, <2>1, ModOfSum
  <2>2. CASE r + d >= L
    <3> DEFINE k == r + d - L
    <3>1. k \in 0 .. L - 1 /\ k + L = r + d
      BY <1>1, <1>2, <2>2
    <3> HIDE DEF k
    <3>2. (k + L) % L = k
      BY <3>1, ModOfSum
    <3> QED BY <1>1, <1>2, <2>2, <3>1, <3>2
  <2> QED BY <1>1, <1>2, <2>1, <2>2
<1> DEFINE e == (j % L) + L - r
<1>5. e = d \/ e = d + L
  <2> HIDE DEF d, r
  <2> QED BY <1>1, <1>2, <1>3, <1>4
<1>6. d % L = d /\ (d + L) % L = d
  <2> HIDE DEF d
  <2> QED BY <1>1, ModOfSum
<1>7. e % L = d
  <2> HIDE DEF d, e
  <2> QED BY <1>5, <1>6
<1> QED BY <1>7

\* Where a thread can be.
Making == {"hold_load", "hold_full", "hold_cas", "hold_mark", "push", "push_mark"}
Filling == {"hold_mark", "push", "push_mark"}
Pushing == {"push_load", "push_test", "push_cas", "push_done"}
Dispatching == {"dispatch", "proc_mark"}
Processing == Dispatching \cup {"proc_load", "proc_cas", "read_load", "read_cas", "proc_state", "proc_loop", "hot_lock"}
Places == {"idle", "joinable"} \cup Making \cup Pushing \cup Processing

\* The four counters are in order, less than a lap apart.
Order(m, h, w, p, r) == r <= p /\ p <= w /\ w <= h /\ h < r + m.len

\* What a thread v loaded still holds, if the counter has not moved since.
Loaded(v, m, h, w, p, r, b, q) ==
    /\ v.pc \in {"hold_full", "hold_cas"} => v.at <= h
    /\ v.pc = "hold_cas" /\ v.at = h => h + 1 < r + m.len
    /\ v.pc \in {"push_test", "push_cas"} => v.at <= w
    /\ v.pc = "push_cas" /\ v.at = w => w < h /\ b[Pos(w, m)].mark = "READY"
    /\ v.pc = "proc_cas" => v.at <= p
    /\ v.pc = "proc_cas" /\ v.at = p => p < w
    /\ v.pc = "read_cas" => v.at <= r
    /\ v.pc = "read_cas" /\ v.at = r =>
         /\ r < p /\ b[Pos(r, m)].mark = "INVALID"
         /\ \A y \in Procs : q[y].pc \in Dispatching => q[y].slot # Pos(r, m)

Loads(m, h, w, p, r, b, q) == \A x \in Procs : Loaded(q[x], m, h, w, p, r, b, q)

\* Between write_idx_ and hold_idx_ a slot is ready or belongs to the one thread that
\* fills it.
Owns(v, m, h, w, b) ==
    /\ \E i \in w .. h - 1 : v.slot = Pos(i, m)
    /\ b[v.slot].mark = IF v.pc = "hold_mark" THEN "INVALID" ELSE "HOLD"
    /\ v.pc = "push_mark" => b[v.slot].log = v.log

Held(m, h, w, b, q) ==
    /\ \A t \in Threads : q[t].pc \in Filling => Owns(q[t], m, h, w, b)
    /\ \A i \in w .. h - 1 :
         b[Pos(i, m)].mark # "READY" => \E t \in Threads : q[t].pc \in Filling /\ q[t].slot = Pos(i, m)
    /\ \A t, u \in Threads : t # u /\ q[t].pc \in Filling /\ q[u].pc \in Filling => q[t].slot # q[u].slot

\* Between read_idx_ and proc_idx_ a slot is free again or belongs to the one thread
\* that dispatches it; between proc_idx_ and write_idx_ it is ready, but for what a
\* crash left.
Takes(v, m, p, r, b) ==
    /\ \E i \in r .. p - 1 : v.slot = Pos(i, m)
    /\ m.type = "ASYNC" => v.slot = Pos(p - 1, m)
    /\ ~m.shm => b[v.slot].mark = "READY"

Taken(m, w, p, r, b, q) ==
    /\ \A x \in Procs : q[x].pc \in Dispatching => Takes(q[x], m, p, r, b)
    /\ \A x, y \in Procs : x # y /\ q[x].pc \in Dispatching /\ q[y].pc \in Dispatching => q[x].slot # q[y].slot
    /\ \A i \in r .. p - 1 :
         b[Pos(i, m)].mark # "INVALID" => \E x \in Procs : q[x].pc \in Dispatching /\ q[x].slot = Pos(i, m)
    /\ ~m.shm => \A i \in p .. w - 1 : b[Pos(i, m)].mark = "READY"

\* Every other slot is free.
Unused(m, h, r, b) ==
    \A s \in 0 .. m.len - 1 : (\A i \in r .. h - 1 : Pos(i, m) # s) => b[s].mark = "INVALID"

\* A ready slot at write_idx_ has a thread that is going to move over it.
Moves(v, w) == v.pc = "push_load" \/ (v.pc \in {"push_test", "push_cas"} /\ v.at = w)
Mover(m, h, w, b, q) == w < h /\ b[Pos(w, m)].mark = "READY" => \E t \in Threads : Moves(q[t], w)

\* So has, in a synchronous channel, a log that is to be processed.
Works(v, p) ==
    \/ v.pc \in Pushing \cup Dispatching \cup {"proc_load", "read_load", "read_cas"}
    \/ v.pc = "proc_cas" /\ v.at = p
Worker(m, w, p, q) == m.type = "SYNC" /\ p < w => \E t \in Threads : Works(q[t], p)

Ring(m, h, w, p, r, b, q) ==
    /\ Order(m, h, w, p, r) /\ Loads(m, h, w, p, r, b, q) /\ Held(m, h, w, b, q)
    /\ Taken(m, w, p, r, b, q) /\ Unused(m, h, r, b) /\ Mover(m, h, w, b, q) /\ Worker(m, w, p, q)

\* The threads that log do not process in an asynchronous channel, and its own
\* thread does nothing else.
Shape(m, h, w, p, r, q) ==
    /\ m.len \in Nat /\ m.len > 1 /\ m.type \in {"ASYNC", "SYNC"} /\ m.shm \in BOOLEAN
    /\ h \in Nat /\ w \in Nat /\ p \in Nat /\ r \in Nat
    /\ \A x \in Procs : q[x].pc \in Places /\ q[x].at \in Nat /\ q[x].slot \in 0 .. m.len - 1
    /\ q[Async].pc \in {"idle", "joinable"} \cup Processing
    /\ m.type = "SYNC" => q[Async].pc = "idle"
    /\ m.type = "ASYNC" => \A t \in Threads : q[t].pc \notin Processing

\* z is q but for x.
Others(q, z, x) == \A y \in Procs : y # x => z[y] = q[y]

LEMMA Positions ==
    ASSUME NEW m, m.len \in Nat, m.len > 1
    PROVE  /\ \A i \in Nat : Pos(i, m) \in 0 .. m.len - 1
           /\ \A i, j \in Nat : i < j /\ j < i + m.len => Pos(i, m) # Pos(j, m)
<1> DEFINE L == m.len
<1> HIDE DEF L
<1>1. L \in Nat /\ L > 0
  BY DEF L
<1>2. \A i \in Nat : i % L \in 0 .. L - 1
  BY <1>1, DivMod
<1>3. \A i, j \in Nat : i < j /\ j < i + L => i % L # j % L
  BY <1>1, ModDiffers
<1> QED BY <1>2, <1>3 DEF Pos, L

LEMMA Window ==
    ASSUME NEW m, m.len \in Nat, m.len > 1, NEW r \in Nat, NEW h \in Nat, h < r + m.len
    PROVE  /\ \A i \in r .. h : Pos(i, m) \in 0 .. m.len - 1
           /\ \A i, j \in r .. h : i # j => Pos(i, m) # Pos(j, m)
<1>1. \A i \in r .. h : i \in Nat
  OBVIOUS
<1>2. \A i, j \in r .. h : i < j => j < i + m.len
  OBVIOUS
<1>3. \A i, j \in r .. h : i < j => Pos(i, m) # Pos(j, m)
  BY <1>1, <1>2, Positions
<1> QED BY <1>1, <1>3, Positions

LEMMA ProcsAre == Async \in Procs /\ Async \notin Threads /\ \A t \in Threads : t \in Procs
BY LogRingAssumption DEF Procs, Async

\* A step of a thread that owns no slot, on its way to another that owns none.
LEMMA Walk ==
    ASSUME NEW m, NEW h, NEW w, NEW p, NEW r, NEW b, NEW q, NEW z, NEW x \in Procs,
           Ring(m, h, w, p, r, b, q), Others(q, z, x),
           q[x].pc \notin Filling \cup Dispatching, z[x].pc \notin Filling \cup Dispatching,
           Loaded(z[x], m, h, w, p, r, b, q),
           w < h /\ b[Pos(w, m)].mark = "READY" /\ Moves(q[x], w) => Moves(z[x], w),
           m.type = "SYNC" /\ p < w /\ Works(q[x], p) => Works(z[x], p)
    PROVE  Ring(m, h, w, p, r, b, z)
<1> USE ProcsAre
<1>1. \A y \in Procs : z[y].pc \in Filling \/ q[y].pc \in Filling => z[y] = q[y] /\ y # x
  BY DEF Others
<1>2. \A y \in Procs : z[y].pc \in Dispatching \/ q[y].pc \in Dispatching => z[y] = q[y] /\ y # x
  BY DEF Others
<1>3. Loads(m, h, w, p, r, b, z)
  <2> SUFFICES ASSUME NEW y \in Procs PROVE Loaded(z[y], m, h, w, p, r, b, z)
    BY DEF Loads
  <2>1. Loaded(z[y], m, h, w, p, r, b, q)
    BY DEF Others, Ring, Loads
  <2> QED BY <1>2, <2>1 DEF Loaded
<1>4. Held(m, h, w, b, z)
  BY <1>1 DEF Ring, Held
<1>5. Taken(m, w, p, r, b, z)
  BY <1>2 DEF Ring, Taken
<1>6. Mover(m, h, w, b, z)
  BY DEF Ring, Mover, Others
<1>7. Worker(m, w, p, z)
  BY DEF Ring, Worker, Others
<1> QED BY <1>3, <1>4, <1>5, <1>6, <1>7 DEF Ring

\* c is b but for slot s.
Elsewhere(b, c, s, m) == \A u \in 0 .. m.len - 1 : u # s => c[u] = b[u]

\* A thread moves hold_idx_ over a slot that is free.
LEMMA HoldStep ==
    ASSUME NEW m, NEW h, NEW w, NEW p, NEW r, NEW b, NEW q, NEW z, NEW x \in Threads,
           Shape(m, h, w, p, r, q), Ring(m, h, w, p, r, b, q), Others(q, z, x),
           q[x].pc = "hold_cas", q[x].at = h, z[x].pc = "hold_mark", z[x].slot = Pos(h, m)
    PROVE  Ring(m, h + 1, w, p, r, b, z)
<1> USE ProcsAre
<1>1. /\ m.len \in Nat /\ m.len > 1 /\ h \in Nat /\ w \in Nat /\ p \in Nat /\ r \in Nat
      /\ r <= p /\ p <= w /\ w <= h /\ h + 1 < r + m.len
  BY DEF Shape, Ring, Order, Loads, Loaded
<1>2. /\ Pos(h, m) \in 0 .. m.len - 1
      /\ \A i \in r .. h - 1 : Pos(i, m) # Pos(h, m)
  <2>1. h < r + m.len /\ h \in r .. h /\ \A i \in r .. h - 1 : i \in r .. h /\ i # h
    BY <1>1
  <2> QED BY <1>1, <2>1, Window
<1>3. b[Pos(h, m)].mark = "INVALID"
  BY <1>2 DEF Ring, Unused
<1>4. \A y \in Procs : z[y].pc \in Dispatching \/ q[y].pc \in Dispatching => z[y] = q[y] /\ y # x
  BY DEF Others, Dispatching
<1>5. Order(m, h + 1, w, p, r)
  BY <1>1 DEF Order
<1>6. Loads(m, h + 1, w, p, r, b, z)
  <2> SUFFICES ASSUME NEW y \in Procs PROVE Loaded(z[y], m, h + 1, w, p, r, b, z)
    BY DEF Loads
  <2>1. CASE y = x
    BY <2>1 DEF Loaded
  <2>2. CASE y # x
    <3>1. z[y] = q[y] /\ q[y].at \in Nat /\ Loaded(q[y], m, h, w, p, r, b, q)
      BY <2>2 DEF Others, Ring, Loads, Shape
    <3> QED BY <1>1, <1>4, <3>1 DEF Loaded
  <2> QED BY <2>1, <2>2
<1>7. Held(m, h + 1, w, b, z)
  <2>1. h \in w .. (h + 1) - 1 /\ \A i \in w .. h - 1 : i \in w .. (h + 1) - 1 /\ i \in r .. h - 1
    BY <1>1
  <2>2. \A t \in Threads : t # x /\ z[t].pc \in Filling => z[t] = q[t] /\ Owns(q[t], m, h, w, b)
    BY DEF Others, Ring, Held
  <2>3. \A t \in Threads : t # x /\ z[t].pc \in Filling => Owns(z[t], m, h + 1, w, b) /\ z[t].slot # Pos(h, m)
    BY <1>2, <2>1, <2>2 DEF Owns
  <2>4. Owns(z[x], m, h + 1, w, b)
    BY <1>3, <2>1 DEF Owns
  <2>5. \A i \in w .. (h + 1) - 1 : i = h \/ i \in w .. h - 1
    BY <1>1
  <2>6. \A i \in w .. h - 1 :
          b[Pos(i, m)].mark # "READY" => \E t \in Threads : z[t].pc \in Filling /\ z[t].slot = Pos(i, m)
    <3> SUFFICES ASSUME NEW i \in w .. h - 1, b[Pos(i, m)].mark # "READY"
                 PROVE  \E t \in Threads : z[t].pc \in Filling /\ z[t].slot = Pos(i, m)
      OBVIOUS
    <3>1. PICK t \in Threads : q[t].pc \in Filling /\ q[t].slot = Pos(i, m)
      BY DEF Ring, Held
    <3>2. t # x
      BY <3>1 DEF Filling
    <3> QED BY <3>1, <3>2 DEF Others
  <2>7. \A i \in w .. (h + 1) - 1 :
          b[Pos(i, m)].mark # "READY" => \E t \in Threads : z[t].pc \in Filling /\ z[t].slot = Pos(i, m)
    BY <2>5, <2>6 DEF Filling
  <2>8. \A t, u \in Threads : t # u /\ z[t].pc \in Filling /\ z[u].pc \in Filling => z[t].slot # z[u].slot
    <3> SUFFICES ASSUME NEW t \in Threads, NEW u \in Threads, t # u, z[t].pc \in Filling, z[u].pc \in Filling
                 PROVE  z[t].slot # z[u].slot
      OBVIOUS
    <3>1. CASE t # x /\ u # x
      BY <3>1 DEF Others, Ring, Held
    <3>2. CASE t = x
      BY <2>3, <3>2
    <3>3. CASE u = x
      BY <2>3, <3>3
    <3> QED BY <3>1, <3>2, <3>3
  <2> QED BY <2>3, <2>4, <2>7, <2>8 DEF Held
<1>8. Taken(m, w, p, r, b, z)
  BY <1>4 DEF Ring, Taken
<1>9. Unused(m, h + 1, r, b)
  <2>1. \A i \in r .. h - 1 : i \in r .. (h + 1) - 1
    BY <1>1
  <2> QED BY <2>1 DEF Ring, Unused
<1>10. Mover(m, h + 1, w, b, z)
  <2> SUFFICES ASSUME b[Pos(w, m)].mark = "READY" PROVE \E t \in Threads : Moves(z[t], w)
    BY DEF Mover
  <2>1. w < h
    BY <1>1, <1>3
  <2>2. PICK t \in Threads : Moves(q[t], w)
    BY <2>1 DEF Ring, Mover
  <2>3. t # x
    BY <2>2 DEF Moves
  <2> QED BY <2>2, <2>3 DEF Others
<1>11. Worker(m, w, p, z)
  <2> SUFFICES ASSUME m.type = "SYNC", p < w PROVE \E t \in Threads : Works(z[t], p)
    BY DEF Worker
  <2>1. PICK t \in Threads : Works(q[t], p)
    BY DEF Ring, Worker
  <2>2. t # x
    BY <2>1 DEF Works, Pushing, Dispatching
  <2> QED BY <2>1, <2>2 DEF Others
<1> QED BY <1>5, <1>6, <1>7, <1>8, <1>9, <1>10, <1>11 DEF Ring

LEMMA RingNumbers ==
    ASSUME NEW m, NEW h, NEW w, NEW p, NEW r, NEW b, NEW q,
           Shape(m, h, w, p, r, q), Ring(m, h, w, p, r, b, q)
    PROVE  /\ m.len \in Nat /\ m.len > 1 /\ h \in Nat /\ w \in Nat /\ p \in Nat /\ r \in Nat
           /\ r <= p /\ p <= w /\ w <= h /\ h < r + m.len
           /\ \A i \in r .. h : Pos(i, m) \in 0 .. m.len - 1
           /\ \A i, j \in r .. h : i # j => Pos(i, m) # Pos(j, m)
           /\ \A i \in r .. p - 1 : i \in r .. h /\ i \in r .. h - 1 /\ i < p
           /\ \A i \in p .. w - 1 : i \in r .. h /\ i \in r .. h - 1
           /\ \A i \in w .. h - 1 : i \in r .. h /\ i \in r .. h - 1 /\ i >= w
<1>1. /\ m.len \in Nat /\ m.len > 1 /\ h \in Nat /\ w \in Nat /\ p \in Nat /\ r \in Nat
      /\ r <= p /\ p <= w /\ w <= h /\ h < r + m.len
  BY DEF Shape, Ring, Order
<1> QED BY <1>1, Window

\* A thread fills the slot it holds.
LEMMA FillStep ==
    ASSUME NEW m, NEW h, NEW w, NEW p, NEW r, NEW b, NEW q, NEW c, NEW z, NEW x \in Threads,
           Shape(m, h, w, p, r, q), Ring(m, h, w, p, r, b, q), Others(q, z, x),
           q[x].pc \in Filling, z[x].pc \in {"push", "push_mark"}, z[x].slot = q[x].slot,
           Elsewhere(b, c, q[x].slot, m), c[q[x].slot].mark = "HOLD",
           z[x].pc = "push_mark" => c[q[x].slot].log = z[x].log
    PROVE  Ring(m, h, w, p, r, c, z)
<1> USE ProcsAre
<1>1. /\ m.len \in Nat /\ m.len > 1 /\ h \in Nat /\ w \in Nat /\ p \in Nat /\ r \in Nat
      /\ r <= p /\ p <= w /\ w <= h /\ h < r + m.len
      /\ \A i \in r .. h : Pos(i, m) \in 0 .. m.len - 1
      /\ \A i, j \in r .. h : i # j => Pos(i, m) # Pos(j, m)
      /\ \A i \in r .. p - 1 : i \in r .. h /\ i \in r .. h - 1 /\ i < p
      /\ \A i \in p .. w - 1 : i \in r .. h /\ i \in r .. h - 1
      /\ \A i \in w .. h - 1 : i \in r .. h /\ i \in r .. h - 1 /\ i >= w
  BY RingNumbers
<1>2. PICK k \in w .. h - 1 : q[x].slot = Pos(k, m)
  BY DEF Ring, Held, Owns
<1> DEFINE s == q[x].slot
<1>3. b[s].mark # "READY" /\ \A t \in Threads : t # x /\ q[t].pc \in Filling => q[t].slot # s
  BY DEF Ring, Held, Owns
<1>4. \A i \in r .. h : i # k => Pos(i, m) # s /\ c[Pos(i, m)] = b[Pos(i, m)]
  BY <1>1, <1>2 DEF Elsewhere
<1>5. \A y \in Procs : z[y].pc \in Dispatching \/ q[y].pc \in Dispatching => z[y] = q[y] /\ y # x
  BY DEF Others, Dispatching, Filling
<1>6. \A y \in Procs : q[y].pc \in Dispatching => q[y].slot # s /\ c[q[y].slot] = b[q[y].slot]
  <2> SUFFICES ASSUME NEW y \in Procs, q[y].pc \in Dispatching PROVE q[y].slot # s /\ c[q[y].slot] = b[q[y].slot]
    OBVIOUS
  <2>1. PICK i \in r .. p - 1 : q[y].slot = Pos(i, m)
    BY DEF Ring, Taken, Takes
  <2>2. i \in r .. h /\ i # k
    BY <1>1, <1>2
  <2> QED BY <1>4, <2>1, <2>2
<1>7. Loads(m, h, w, p, r, c, z)
  <2> SUFFICES ASSUME NEW y \in Procs PROVE Loaded(z[y], m, h, w, p, r, c, z)
    BY DEF Loads
  <2>1. CASE y = x
    BY <2>1 DEF Loaded
  <2>2. CASE y # x
    <3>1. z[y] = q[y] /\ Loaded(q[y], m, h, w, p, r, b, q)
      BY <2>2 DEF Others, Ring, Loads
    <3>2. w < h /\ b[Pos(w, m)].mark = "READY" => c[Pos(w, m)] = b[Pos(w, m)]
      BY <1>1, <1>2, <1>3, <1>4
    <3>3. r < p => c[Pos(r, m)] = b[Pos(r, m)]
      BY <1>1, <1>2, <1>4
    <3> QED BY <1>5, <3>1, <3>2, <3>3 DEF Loaded
  <2> QED BY <2>1, <2>2
<1>8. Held(m, h, w, c, z)
  <2>1. \A t \in Threads : t # x /\ z[t].pc \in Filling => Owns(z[t], m, h, w, c)
    <3> SUFFICES ASSUME NEW t \in Threads, t # x, z[t].pc \in Filling PROVE Owns(z[t], m, h, w, c)
      OBVIOUS
    <3>1. z[t] = q[t] /\ Owns(q[t], m, h, w, b) /\ q[t].slot # s /\ q[t].slot \in 0 .. m.len - 1
      BY <1>3 DEF Others, Ring, Held, Shape
    <3> QED BY <3>1 DEF Owns, Elsewhere
  <2>2. Owns(z[x], m, h, w, c)
    BY <1>2 DEF Owns
  <2>3. \A i \in w .. h - 1 :
          c[Pos(i, m)].mark # "READY" => \E t \in Threads : z[t].pc \in Filling /\ z[t].slot = Pos(i, m)
    <3> SUFFICES ASSUME NEW i \in w .. h - 1, c[Pos(i, m)].mark # "READY"
                 PROVE  \E t \in Threads : z[t].pc \in Filling /\ z[t].slot = Pos(i, m)
      OBVIOUS
    <3>1. CASE i = k
      BY <1>2, <3>1 DEF Filling
    <3>2. CASE i # k
      <4>1. b[Pos(i, m)].mark # "READY" /\ Pos(i, m) # s
        BY <1>1, <1>4, <3>2
      <4>2. PICK t \in Threads : q[t].pc \in Filling /\ q[t].slot = Pos(i, m)
        BY <4>1 DEF Ring, Held
      <4> QED BY <4>1, <4>2 DEF Others
    <3> QED BY <3>1, <3>2
  <2>4. \A t, u \in Threads : t # u /\ z[t].pc \in Filling /\ z[u].pc \in Filling => z[t].slot # z[u].slot
    <3>1. \A t \in Threads : z[t].pc \in Filling => q[t].pc \in Filling /\ z[t].slot = q[t].slot
      BY DEF Others
    <3> QED BY <3>1 DEF Ring, Held
  <2> QED BY <2>1, <2>2, <2>3, <2>4 DEF Held
<1>9. Taken(m, w, p, r, c, z)
  <2>1. \A y \in Procs : z[y].pc \in Dispatching => Takes(z[y], m, p, r, c)
    BY <1>5, <1>6 DEF Ring, Taken, Takes
  <2>2. \A i \in r .. p - 1 : c[Pos(i, m)] = b[Pos(i, m)]
    BY <1>1, <1>2, <1>4
  <2>3. \A i \in p .. w - 1 : c[Pos(i, m)] = b[Pos(i, m)]
    BY <1>1, <1>2, <1>4
  <2> QED BY <1>5, <2>1, <2>2, <2>3 DEF Ring, Taken
<1>10. Unused(m, h, r, c)
  <2>1. k \in r .. h - 1 /\ s \in 0 .. m.len - 1
    BY <1>1, <1>2
  <2> QED BY <1>2, <2>1 DEF Ring, Unused, Elsewhere
<1>11. Mover(m, h, w, c, z)
  <2> SUFFICES ASSUME w < h, c[Pos(w, m)].mark = "READY" PROVE \E t \in Threads : Moves(z[t], w)
    BY DEF Mover
  <2>1. b[Pos(w, m)].mark = "READY"
    BY <1>1, <1>2, <1>4
  <2>2. PICK t \in Threads : Moves(q[t], w)
    BY <2>1 DEF Ring, Mover
  <2>3. t # x
    BY <2>2 DEF Moves, Filling
  <2> QED BY <2>2, <2>3 DEF Others
<1>12. Worker(m, w, p, z)
  <2> SUFFICES ASSUME m.type = "SYNC", p < w PROVE \E t \in Threads : Works(z[t], p)
    BY DEF Worker
  <2>1. PICK t \in Threads : Works(q[t], p)
    BY DEF Ring, Worker
  <2>2. t # x
    BY <2>1 DEF Works, Pushing, Dispatching, Filling
  <2> QED BY <2>1, <2>2 DEF Others
<1> QED BY <1>7, <1>8, <1>9, <1>10, <1>11, <1>12 DEF Ring

\* A thread marks the slot it has filled.
LEMMA ReadyStep ==
    ASSUME NEW m, NEW h, NEW w, NEW p, NEW r, NEW b, NEW q, NEW c, NEW z, NEW x \in Threads,
           Shape(m, h, w, p, r, q), Ring(m, h, w, p, r, b, q), Others(q, z, x),
           q[x].pc = "push_mark", z[x].pc = "push_load",
           Elsewhere(b, c, q[x].slot, m), c[q[x].slot].mark = "READY"
    PROVE  Ring(m, h, w, p, r, c, z)
<1> USE ProcsAre
<1>1. /\ m.len \in Nat /\ m.len > 1 /\ h \in Nat /\ w \in Nat /\ p \in Nat /\ r \in Nat
      /\ r <= p /\ p <= w /\ w <= h /\ h < r + m.len
      /\ \A i \in r .. h : Pos(i, m) \in 0 .. m.len - 1
      /\ \A i, j \in r .. h : i # j => Pos(i, m) # Pos(j, m)
      /\ \A i \in r .. p - 1 : i \in r .. h /\ i \in r .. h - 1 /\ i < p
      /\ \A i \in p .. w - 1 : i \in r .. h /\ i \in r .. h - 1
      /\ \A i \in w .. h - 1 : i \in r .. h /\ i \in r .. h - 1 /\ i >= w
  BY RingNumbers
<1>2. PICK k \in w .. h - 1 : q[x].slot = Pos(k, m)
  BY DEF Ring, Held, Owns, Filling
<1> DEFINE s == q[x].slot
<1>3. b[s].mark # "READY" /\ \A t \in Threads : t # x /\ q[t].pc \in Filling => q[t].slot # s
  BY DEF Ring, Held, Owns, Filling
<1>4. \A i \in r .. h : i # k => Pos(i, m) # s /\ c[Pos(i, m)] = b[Pos(i, m)]
  BY <1>1, <1>2 DEF Elsewhere
<1>5. \A y \in Procs : z[y].pc \in Dispatching \/ q[y].pc \in Dispatching => z[y] = q[y] /\ y # x
  BY DEF Others, Dispatching
<1>6. \A y \in Procs : q[y].pc \in Dispatching => q[y].slot # s /\ c[q[y].slot] = b[q[y].slot]
  <2> SUFFICES ASSUME NEW y \in Procs, q[y].pc \in Dispatching PROVE q[y].slot # s /\ c[q[y].slot] = b[q[y].slot]
    OBVIOUS
  <2>1. PICK i \in r .. p - 1 : q[y].slot = Pos(i, m)
    BY DEF Ring, Taken, Takes
  <2>2. i \in r .. h /\ i # k
    BY <1>1, <1>2
  <2> QED BY <1>4, <2>1, <2>2
<1>7. Loads(m, h, w, p, r, c, z)
  <2> SUFFICES ASSUME NEW y \in Procs PROVE Loaded(z[y], m, h, w, p, r, c, z)
    BY DEF Loads
  <2>1. CASE y = x
    BY <2>1 DEF Loaded
  <2>2. CASE y # x
    <3>1. z[y] = q[y] /\ Loaded(q[y], m, h, w, p, r, b, q)
      BY <2>2 DEF Others, Ring, Loads
    <3>2. w < h /\ b[Pos(w, m)].mark = "READY" => c[Pos(w, m)] = b[Pos(w, m)]
      BY <1>1, <1>2, <1>3, <1>4
    <3>3. r < p => c[Pos(r, m)] = b[Pos(r, m)]
      BY <1>1, <1>2, <1>4
    <3> QED BY <1>5, <3>1, <3>2, <3>3 DEF Loaded
  <2> QED BY <2>1, <2>2
<1>8. Held(m, h, w, c, z)
  <2>1. \A t \in Threads : z[t].pc \in Filling => t # x
    BY DEF Filling
  <2>2. \A t \in Threads : t # x /\ z[t].pc \in Filling => Owns(z[t], m, h, w, c)
    <3> SUFFICES ASSUME NEW t \in Threads, t # x, z[t].pc \in Filling PROVE Owns(z[t], m, h, w, c)
      OBVIOUS
    <3>1. z[t] = q[t] /\ Owns(q[t], m, h, w, b) /\ q[t].slot # s /\ q[t].slot \in 0 .. m.len - 1
      BY <1>3 DEF Others, Ring, Held, Shape
    <3> QED BY <3>1 DEF Owns, Elsewhere
  <2>3. \A i \in w .. h - 1 :
          c[Pos(i, m)].mark # "READY" => \E t \in Threads : z[t].pc \in Filling /\ z[t].slot = Pos(i, m)
    <3> SUFFICES ASSUME NEW i \in w .. h - 1, c[Pos(i, m)].mark # "READY"
                 PROVE  \E t \in Threads : z[t].pc \in Filling /\ z[t].slot = Pos(i, m)
      OBVIOUS
    <3>1. i # k
      BY <1>2
    <3>2. b[Pos(i, m)].mark # "READY" /\ Pos(i, m) # s
      BY <1>1, <1>4, <3>1
    <3>3. PICK t \in Threads : q[t].pc \in Filling /\ q[t].slot = Pos(i, m)
      BY <3>2 DEF Ring, Held
    <3> QED BY <3>2, <3>3 DEF Others
  <2>4. \A t, u \in Threads : t # u /\ z[t].pc \in Filling /\ z[u].pc \in Filling => z[t].slot # z[u].slot
    BY <2>1 DEF Ring, Held, Others
  <2> QED BY <2>1, <2>2, <2>3, <2>4 DEF Held
<1>9. Taken(m, w, p, r, c, z)
  <2>1. \A y \in Procs : z[y].pc \in Dispatching => Takes(z[y], m, p, r, c)
    BY <1>5, <1>6 DEF Ring, Taken, Takes
  <2>2. \A i \in r .. p - 1 : c[Pos(i, m)] = b[Pos(i, m)]
    BY <1>1, <1>2, <1>4
  <2>3. \A i \in p .. w - 1 : c[Pos(i, m)] = b[Pos(i, m)]
    BY <1>1, <1>2, <1>4
  <2> QED BY <1>5, <2>1, <2>2, <2>3 DEF Ring, Taken
<1>10. Unused(m, h, r, c)
  <2>1. k \in r .. h - 1 /\ s \in 0 .. m.len - 1
    BY <1>1, <1>2
  <2> QED BY <1>2, <2>1 DEF Ring, Unused, Elsewhere
<1>11. Mover(m, h, w, c, z)
  BY DEF Mover, Moves
<1>12. Worker(m, w, p, z)
  BY DEF Worker, Works, Pushing
<1> QED BY <1>7, <1>8, <1>9, <1>10, <1>11, <1>12 DEF Ring

\* A thread moves write_idx_ over a slot that is ready.
LEMMA PushStep ==
    ASSUME NEW m, NEW h, NEW w, NEW p, NEW r, NEW b, NEW q, NEW z, NEW x \in Threads,
           Shape(m, h, w, p, r, q), Ring(m, h, w, p, r, b, q), Others(q, z, x),
           q[x].pc = "push_cas", q[x].at = w, z[x].pc = "push_load"
    PROVE  Ring(m, h, w + 1, p, r, b, z)
<1> USE ProcsAre
<1>1. /\ m.len \in Nat /\ m.len > 1 /\ h \in Nat /\ w \in Nat /\ p \in Nat /\ r \in Nat
      /\ r <= p /\ p <= w /\ w <= h /\ h < r + m.len
  BY RingNumbers
<1>2. w < h /\ b[Pos(w, m)].mark = "READY"
  BY DEF Ring, Loads, Loaded
<1>3. \A y \in Procs : z[y].pc \in Dispatching \/ q[y].pc \in Dispatching => z[y] = q[y] /\ y # x
  BY DEF Others, Dispatching
<1>4. Loads(m, h, w + 1, p, r, b, z)
  <2> SUFFICES ASSUME NEW y \in Procs PROVE Loaded(z[y], m, h, w + 1, p, r, b, z)
    BY DEF Loads
  <2>1. CASE y = x
    BY <2>1 DEF Loaded
  <2>2. CASE y # x
    <3>1. z[y] = q[y] /\ q[y].at \in Nat /\ Loaded(q[y], m, h, w, p, r, b, q)
      BY <2>2 DEF Others, Ring, Loads, Shape
    <3> QED BY <1>1, <1>3, <3>1 DEF Loaded
  <2> QED BY <2>1, <2>2
<1>5. Held(m, h, w + 1, b, z)
  <2>1. \A t \in Threads : z[t].pc \in Filling \/ q[t].pc \in Filling => z[t] = q[t] /\ t # x
    BY DEF Others, Filling
  <2>2. \A t \in Threads : z[t].pc \in Filling => Owns(z[t], m, h, w + 1, b)
    <3> SUFFICES ASSUME NEW t \in Threads, z[t].pc \in Filling PROVE Owns(z[t], m, h, w + 1, b)
      OBVIOUS
    <3>1. z[t] = q[t] /\ Owns(q[t], m, h, w, b)
      BY <2>1 DEF Ring, Held
    <3>2. PICK i \in w .. h - 1 : q[t].slot = Pos(i, m)
      BY <3>1 DEF Owns
    <3>3. i # w
      BY <1>2, <3>1, <3>2 DEF Owns
    <3>4. i \in w + 1 .. h - 1
      BY <1>1, <3>3
    <3> QED BY <3>1, <3>2, <3>4 DEF Owns
  <2>3. \A i \in w + 1 .. h - 1 : i \in w .. h - 1
    BY <1>1
  <2> QED BY <2>1, <2>2, <2>3 DEF Ring, Held
<1>6. Taken(m, w + 1, p, r, b, z)
  <2>1. \A i \in p .. (w + 1) - 1 : i = w \/ i \in p .. w - 1
    BY <1>1
  <2> QED BY <1>2, <1>3, <2>1 DEF Ring, Taken
<1>7. Mover(m, h, w + 1, b, z) /\ Worker(m, w + 1, p, z)
  BY DEF Mover, Moves, Worker, Works, Pushing
<1> QED BY <1>1, <1>2, <1>4, <1>5, <1>6, <1>7 DEF Ring, Order

\* A thread takes the next slot to dispatch it.
LEMMA TakeStep ==
    ASSUME NEW m, NEW h, NEW w, NEW p, NEW r, NEW b, NEW q, NEW z, NEW x \in Procs,
           Shape(m, h, w, p, r, q), Ring(m, h, w, p, r, b, q), Others(q, z, x),
           q[x].pc = "proc_cas", q[x].at = p, z[x].pc = "dispatch", z[x].slot = Pos(p, m)
    PROVE  Ring(m, h, w, p + 1, r, b, z)
<1> USE ProcsAre
<1>1. /\ m.len \in Nat /\ m.len > 1 /\ h \in Nat /\ w \in Nat /\ p \in Nat /\ r \in Nat
      /\ r <= p /\ p <= w /\ w <= h /\ h < r + m.len
      /\ \A i \in r .. h : Pos(i, m) \in 0 .. m.len - 1
      /\ \A i, j \in r .. h : i # j => Pos(i, m) # Pos(j, m)
      /\ \A i \in r .. p - 1 : i \in r .. h /\ i \in r .. h - 1 /\ i < p
  BY RingNumbers
<1>2. p < w
  BY DEF Ring, Loads, Loaded
<1>3. \A y \in Procs : y # x /\ q[y].pc \in Dispatching => q[y].slot # Pos(p, m)
  <2> SUFFICES ASSUME NEW y \in Procs, q[y].pc \in Dispatching PROVE q[y].slot # Pos(p, m)
    OBVIOUS
  <2>1. PICK i \in r .. p - 1 : q[y].slot = Pos(i, m)
    BY DEF Ring, Taken, Takes
  <2> QED BY <1>1, <1>2, <2>1
<1>4. Loads(m, h, w, p + 1, r, b, z)
  <2> SUFFICES ASSUME NEW y \in Procs PROVE Loaded(z[y], m, h, w, p + 1, r, b, z)
    BY DEF Loads
  <2>1. CASE y = x
    BY <2>1 DEF Loaded
  <2>2. CASE y # x
    <3>1. z[y] = q[y] /\ q[y].at \in Nat /\ Loaded(q[y], m, h, w, p, r, b, q)
      BY <2>2 DEF Others, Ring, Loads, Shape
    <3>2. r < p => Pos(r, m) # Pos(p, m)
      BY <1>1, <1>2
    <3>3. \A u \in Procs : z[u].pc \in Dispatching => u = x \/ (q[u].pc \in Dispatching /\ z[u] = q[u])
      BY DEF Others
    <3> QED BY <1>1, <3>1, <3>2, <3>3 DEF Loaded
  <2> QED BY <2>1, <2>2
<1>5. Held(m, h, w, b, z)
  <2>1. \A t \in Threads : z[t].pc \in Filling \/ q[t].pc \in Filling => z[t] = q[t] /\ t # x
    BY DEF Others, Filling
  <2> QED BY <2>1 DEF Ring, Held
<1>6. Taken(m, w, p + 1, r, b, z)
  <2>1. \A i \in r .. (p + 1) - 1 : i = p \/ i \in r .. p - 1
    BY <1>1
  <2>2. p \in r .. (p + 1) - 1 /\ (p + 1) - 1 = p /\ p \in p .. w - 1
        /\ \A i \in r .. p - 1 : i \in r .. (p + 1) - 1
    BY <1>1, <1>2
  <2>3. Takes(z[x], m, p + 1, r, b)
    BY <2>2 DEF Ring, Taken, Takes
  <2>4. ASSUME NEW y \in Procs, y # x, z[y].pc \in Dispatching
        PROVE  Takes(z[y], m, p + 1, r, b) /\ z[y].slot # Pos(p, m)
    <3>1. z[y] = q[y] /\ Takes(q[y], m, p, r, b)
      BY <2>4 DEF Others, Ring, Taken
    <3>2. m.type # "ASYNC"
      BY <2>4, <3>1 DEF Shape, Processing, Procs
    <3> QED BY <1>3, <2>2, <2>4, <3>1, <3>2 DEF Takes
  <2>5. \A u, y \in Procs : u # y /\ z[u].pc \in Dispatching /\ z[y].pc \in Dispatching => z[u].slot # z[y].slot
    <3> SUFFICES ASSUME NEW u \in Procs, NEW y \in Procs, u # y, z[u].pc \in Dispatching, z[y].pc \in Dispatching
                 PROVE  z[u].slot # z[y].slot
      OBVIOUS
    <3>1. CASE u # x /\ y # x
      BY <3>1 DEF Others, Ring, Taken
    <3>2. CASE u = x
      BY <2>4, <3>2
    <3>3. CASE y = x
      BY <2>4, <3>3
    <3> QED BY <3>1, <3>2, <3>3
  <2>6. \A i \in r .. (p + 1) - 1 :
          b[Pos(i, m)].mark # "INVALID" => \E y \in Procs : z[y].pc \in Dispatching /\ z[y].slot = Pos(i, m)
    <3> SUFFICES ASSUME NEW i \in r .. (p + 1) - 1, b[Pos(i, m)].mark # "INVALID"
                 PROVE  \E y \in Procs : z[y].pc \in Dispatching /\ z[y].slot = Pos(i, m)
      OBVIOUS
    <3>1. CASE i = p
      BY <3>1 DEF Dispatching
    <3>2. CASE i \in r .. p - 1
      <4>1. PICK y \in Procs : q[y].pc \in Dispatching /\ q[y].slot = Pos(i, m)
        BY <3>2 DEF Ring, Taken
      <4>2. y # x
        BY <4>1 DEF Dispatching
      <4> QED BY <4>1, <4>2 DEF Others
    <3> QED BY <2>1, <3>1, <3>2
  <2>7. \A i \in p + 1 .. w - 1 : i \in p .. w - 1
    BY <1>1
  <2> QED BY <2>3, <2>4, <2>5, <2>6, <2>7 DEF Ring, Taken
<1>7. Mover(m, h, w, b, z)
  <2> SUFFICES ASSUME w < h, b[Pos(w, m)].mark = "READY" PROVE \E t \in Threads : Moves(z[t], w)
    BY DEF Mover
  <2>1. PICK t \in Threads : Moves(q[t], w)
    BY DEF Ring, Mover
  <2>2. t # x
    BY <2>1 DEF Moves
  <2> QED BY <2>1, <2>2 DEF Others
<1>8. Worker(m, w, p + 1, z)
  BY DEF Worker, Works, Dispatching, Shape, Procs
<1> QED BY <1>1, <1>2, <1>4, <1>5, <1>6, <1>7, <1>8 DEF Ring, Order

\* The devices have the log, the slot is still its own.
LEMMA DispatchStep ==
    ASSUME NEW m, NEW h, NEW w, NEW p, NEW r, NEW b, NEW q, NEW z, NEW x \in Procs,
           Ring(m, h, w, p, r, b, q), Others(q, z, x),
           q[x].pc = "dispatch", z[x].pc = "proc_mark", z[x].slot = q[x].slot
    PROVE  Ring(m, h, w, p, r, b, z)
<1> USE ProcsAre
<1>1. \A y \in Procs : z[y].pc \in Dispatching <=> q[y].pc \in Dispatching
  BY DEF Others, Dispatching
<1>2. \A y \in Procs : z[y].slot = q[y].slot
  BY DEF Others
<1>3. Loads(m, h, w, p, r, b, z)
  <2> SUFFICES ASSUME NEW y \in Procs PROVE Loaded(z[y], m, h, w, p, r, b, z)
    BY DEF Loads
  <2>1. CASE y = x
    BY <2>1 DEF Loaded
  <2>2. CASE y # x
    <3>1. z[y] = q[y] /\ Loaded(q[y], m, h, w, p, r, b, q)
      BY <2>2 DEF Others, Ring, Loads
    <3> QED BY <1>1, <1>2, <3>1 DEF Loaded
  <2> QED BY <2>1, <2>2
<1>4. Held(m, h, w, b, z)
  <2>1. \A t \in Threads : z[t].pc \in Filling \/ q[t].pc \in Filling => z[t] = q[t] /\ t # x
    BY DEF Others, Filling
  <2> QED BY <2>1 DEF Ring, Held
<1>5. Taken(m, w, p, r, b, z)
  BY <1>1, <1>2 DEF Ring, Taken, Takes
<1>6. Mover(m, h, w, b, z)
  <2>1. \A t \in Threads : Moves(q[t], w) => Moves(z[t], w)
    BY DEF Others, Moves
  <2> QED BY <2>1 DEF Ring, Mover
<1>7. Worker(m, w, p, z)
  <2>1. \A t \in Threads : Works(q[t], p) => Works(z[t], p)
    BY DEF Others, Works, Dispatching
  <2> QED BY <2>1 DEF Ring, Worker
<1> QED BY <1>3, <1>4, <1>5, <1>6, <1>7 DEF Ring

\* A slot that was dispatched is free.
LEMMA ReleaseStep ==
    ASSUME NEW m, NEW h, NEW w, NEW p, NEW r, NEW b, NEW q, NEW c, NEW z, NEW x \in Procs,
           Shape(m, h, w, p, r, q), Ring(m, h, w, p, r, b, q), Others(q, z, x),
           q[x].pc = "proc_mark", z[x].pc = "read_load",
           Elsewhere(b, c, q[x].slot, m), c[q[x].slot].mark = "INVALID"
    PROVE  Ring(m, h, w, p, r, c, z)
<1> USE ProcsAre
<1>1. /\ m.len \in Nat /\ m.len > 1 /\ h \in Nat /\ w \in Nat /\ p \in Nat /\ r \in Nat
      /\ r <= p /\ p <= w /\ w <= h /\ h < r + m.len
      /\ \A i \in r .. h : Pos(i, m) \in 0 .. m.len - 1
      /\ \A i, j \in r .. h : i # j => Pos(i, m) # Pos(j, m)
      /\ \A i \in r .. p - 1 : i \in r .. h /\ i \in r .. h - 1 /\ i < p
      /\ \A i \in p .. w - 1 : i \in r .. h /\ i \in r .. h - 1
      /\ \A i \in w .. h - 1 : i \in r .. h /\ i \in r .. h - 1 /\ i >= w
  BY RingNumbers
<1>2. PICK k \in r .. p - 1 : q[x].slot = Pos(k, m)
  BY DEF Ring, Taken, Takes, Dispatching
<1> DEFINE s == q[x].slot
<1>3. \A i \in r .. h : i # k => Pos(i, m) # s /\ c[Pos(i, m)] = b[Pos(i, m)]
  BY <1>1, <1>2 DEF Elsewhere
<1>4. \A y \in Procs : z[y].pc \in Dispatching => z[y] = q[y] /\ y # x
  BY DEF Others, Dispatching
<1>5. \A t \in Threads : z[t].pc \in Filling \/ q[t].pc \in Filling => z[t] = q[t] /\ t # x
  BY DEF Others, Filling
<1>6. Loads(m, h, w, p, r, c, z)
  <2> SUFFICES ASSUME NEW y \in Procs PROVE Loaded(z[y], m, h, w, p, r, c, z)
    BY DEF Loads
  <2>1. CASE y = x
    BY <2>1 DEF Loaded
  <2>2. CASE y # x
    <3>1. z[y] = q[y] /\ Loaded(q[y], m, h, w, p, r, b, q)
      BY <2>2 DEF Others, Ring, Loads
    <3>2. c[Pos(w, m)] = b[Pos(w, m)]
      BY <1>1, <1>2, <1>3
    <3>3. b[Pos(r, m)].mark = "INVALID" => c[Pos(r, m)].mark = "INVALID"
      BY <1>1, <1>2, <1>3
    <3> QED BY <1>4, <3>1, <3>2, <3>3 DEF Loaded
  <2> QED BY <2>1, <2>2
<1>7. Held(m, h, w, c, z)
  <2>1. \A t \in Threads : z[t].pc \in Filling => Owns(z[t], m, h, w, c)
    <3> SUFFICES ASSUME NEW t \in Threads, z[t].pc \in Filling PROVE Owns(z[t], m, h, w, c)
      OBVIOUS
    <3>1. z[t] = q[t] /\ Owns(q[t], m, h, w, b)
      BY <1>5 DEF Ring, Held
    <3>2. PICK i \in w .. h - 1 : q[t].slot = Pos(i, m)
      BY <3>1 DEF Owns
    <3>3. c[q[t].slot] = b[q[t].slot]
      BY <1>1, <1>2, <1>3, <3>2
    <3> QED BY <3>1, <3>3 DEF Owns
  <2>2. \A i \in w .. h - 1 : c[Pos(i, m)] = b[Pos(i, m)]
    BY <1>1, <1>2, <1>3
  <2> QED BY <1>5, <2>1, <2>2 DEF Ring, Held
<1>8. Taken(m, w, p, r, c, z)
  <2>1. ASSUME NEW y \in Procs, z[y].pc \in Dispatching
        PROVE  Takes(z[y], m, p, r, c)
    <3>1. z[y] = q[y] /\ Takes(q[y], m, p, r, b) /\ q[y].slot # s /\ q[y].slot \in 0 .. m.len - 1
      BY <1>4, <2>1 DEF Ring, Taken, Shape, Dispatching
    <3> QED BY <3>1 DEF Takes, Elsewhere
  <2>2. \A i \in r .. p - 1 :
          c[Pos(i, m)].mark # "INVALID" => \E y \in Procs : z[y].pc \in Dispatching /\ z[y].slot = Pos(i, m)
    <3> SUFFICES ASSUME NEW i \in r .. p - 1, c[Pos(i, m)].mark # "INVALID"
                 PROVE  \E y \in Procs : z[y].pc \in Dispatching /\ z[y].slot = Pos(i, m)
      OBVIOUS
    <3>1. i # k
      BY <1>2
    <3>2. b[Pos(i, m)].mark # "INVALID" /\ Pos(i, m) # s
      BY <1>1, <1>3, <3>1
    <3>3. PICK y \in Procs : q[y].pc \in Dispatching /\ q[y].slot = Pos(i, m)
      BY <3>2 DEF Ring, Taken
    <3> QED BY <3>2, <3>3 DEF Others
  <2>3. \A i \in p .. w - 1 : c[Pos(i, m)] = b[Pos(i, m)]
    BY <1>1, <1>2, <1>3
  <2> QED BY <1>4, <2>1, <2>2, <2>3 DEF Ring, Taken
<1>9. Unused(m, h, r, c)
  BY DEF Ring, Unused, Elsewhere
<1>10. Mover(m, h, w, c, z)
  <2>1. \A t \in Threads : Moves(q[t], w) => Moves(z[t], w)
    BY DEF Others, Moves
  <2>2. c[Pos(w, m)] = b[Pos(w, m)]
    BY <1>1, <1>2, <1>3
  <2> QED BY <2>1, <2>2 DEF Ring, Mover
<1>11. Worker(m, w, p, z)
  <2>1. \A t \in Threads : Works(q[t], p) => Works(z[t], p)
    BY DEF Others, Works
  <2> QED BY <2>1 DEF Ring, Worker
<1> QED BY <1>6, <1>7, <1>8, <1>9, <1>10, <1>11 DEF Ring

\* A thread moves read_idx_ over a slot that is free again.
LEMMA FreeStep ==
    ASSUME NEW m, NEW h, NEW w, NEW p, NEW r, NEW b, NEW q, NEW z, NEW x \in Procs,
           Shape(m, h, w, p, r, q), Ring(m, h, w, p, r, b, q), Others(q, z, x),
           q[x].pc = "read_cas", q[x].at = r, z[x].pc = "read_load"
    PROVE  Ring(m, h, w, p, r + 1, b, z)
<1> USE ProcsAre
<1>1. /\ m.len \in Nat /\ m.len > 1 /\ h \in Nat /\ w \in Nat /\ p \in Nat /\ r \in Nat
      /\ r <= p /\ p <= w /\ w <= h /\ h < r + m.len
  BY RingNumbers
<1>2. /\ r < p /\ b[Pos(r, m)].mark = "INVALID"
      /\ \A y \in Procs : q[y].pc \in Dispatching => q[y].slot # Pos(r, m)
  BY DEF Ring, Loads, Loaded
<1>3. \A y \in Procs : z[y].pc \in Dispatching \/ q[y].pc \in Dispatching => z[y] = q[y] /\ y # x
  BY DEF Others, Dispatching
<1>4. Loads(m, h, w, p, r + 1, b, z)
  <2> SUFFICES ASSUME NEW y \in Procs PROVE Loaded(z[y], m, h, w, p, r + 1, b, z)
    BY DEF Loads
  <2>1. CASE y = x
    BY <2>1 DEF Loaded
  <2>2. CASE y # x
    <3>1. z[y] = q[y] /\ q[y].at \in Nat /\ Loaded(q[y], m, h, w, p, r, b, q)
      BY <2>2 DEF Others, Ring, Loads, Shape
    <3> QED BY <1>1, <1>3, <3>1 DEF Loaded
  <2> QED BY <2>1, <2>2
<1>5. Held(m, h, w, b, z)
  <2>1. \A t \in Threads : z[t].pc \in Filling \/ q[t].pc \in Filling => z[t] = q[t] /\ t # x
    BY DEF Others, Filling
  <2> QED BY <2>1 DEF Ring, Held
<1>6. Taken(m, w, p, r + 1, b, z)
  <2>1. ASSUME NEW y \in Procs, z[y].pc \in Dispatching
        PROVE  Takes(z[y], m, p, r + 1, b)
    <3>1. z[y] = q[y] /\ Takes(q[y], m, p, r, b) /\ q[y].slot # Pos(r, m)
      BY <1>2, <1>3, <2>1 DEF Ring, Taken
    <3>2. PICK i \in r .. p - 1 : q[y].slot = Pos(i, m)
      BY <3>1 DEF Takes
    <3>3. i \in r + 1 .. p - 1
      BY <1>1, <3>1, <3>2
    <3> QED BY <3>1, <3>2, <3>3 DEF Takes
  <2>2. \A i \in r + 1 .. p - 1 : i \in r .. p - 1
    BY <1>1
  <2> QED BY <1>3, <2>1, <2>2 DEF Ring, Taken
<1>7. Unused(m, h, r + 1, b)
  <2>1. \A i \in r .. h - 1 : i = r \/ i \in r + 1 .. h - 1
    BY <1>1
  <2> QED BY <1>2, <2>1 DEF Ring, Unused
<1>8. Mover(m, h, w, b, z)
  <2>1. \A t \in Threads : Moves(q[t], w) => Moves(z[t], w)
    BY DEF Others, Moves
  <2> QED BY <2>1 DEF Ring, Mover
<1>9. Worker(m, w, p, z)
  <2>1. \A t \in Threads : Works(q[t], p) => Works(z[t], p)
    BY DEF Others, Works
  <2> QED BY <2>1 DEF Ring, Worker
<1> QED BY <1>1, <1>2, <1>4, <1>5, <1>6, <1>7, <1>8, <1>9 DEF Ring, Order

\* While no thread logs, what was held is written, and in a synchronous channel
\* processed as well.
LEMMA NobodyInside ==
    ASSUME NEW m, NEW h, NEW w, NEW p, NEW r, NEW b, NEW q,
           Shape(m, h, w, p, r, q), Ring(m, h, w, p, r, b, q), \A t \in Threads : q[t].pc = "idle"
    PROVE  w = h /\ (m.type = "SYNC" => p = w)
<1>1. h \in Nat /\ w \in Nat /\ p \in Nat /\ p <= w /\ w <= h
  BY RingNumbers
<1>2. ~ w < h
  <2> SUFFICES ASSUME w < h PROVE FALSE
    OBVIOUS
  <2>1. w \in w .. h - 1
    BY <1>1
  <2>2. b[Pos(w, m)].mark = "READY"
    BY <2>1 DEF Ring, Held, Filling
  <2> QED BY <2>2 DEF Ring, Mover, Moves
<1>3. m.type = "SYNC" => ~ p < w
  BY DEF Ring, Worker, Works, Pushing, Dispatching
<1> QED BY <1>1, <1>2, <1>3

\* A ring that no thread uses, with n logs that are ready, or were.
LEMMA AtRest ==
    ASSUME NEW m, NEW h, NEW r, NEW b, NEW q, h \in Nat, r \in Nat, r <= h, h < r + m.len,
           m.len \in Nat, \A x \in Procs : q[x].pc \in {"idle", "joinable"},
           Unused(m, h, r, b), r = h \/ (m.shm /\ m.type = "ASYNC")
    PROVE  Ring(m, h, h, r, r, b, q)
<1> USE ProcsAre
<1>1. \A x \in Procs : /\ q[x].pc \notin Filling /\ q[x].pc \notin Dispatching
                       /\ q[x].pc \notin {"hold_full", "hold_cas", "push_test", "push_cas", "proc_cas", "read_cas"}
  BY DEF Filling, Dispatching
<1>2. \A i \in h .. h - 1 : FALSE
  OBVIOUS
<1>3. \A i \in r .. r - 1 : FALSE
  OBVIOUS
<1>4. Order(m, h, h, r, r)
  BY DEF Order
<1>5. Loads(m, h, h, r, r, b, q)
  BY <1>1 DEF Loads, Loaded
<1>6. Held(m, h, h, b, q)
  BY <1>1, <1>2 DEF Held
<1>7. Taken(m, h, r, r, b, q)
  BY <1>1, <1>2, <1>3 DEF Taken
<1>8. Mover(m, h, h, b, q) /\ Worker(m, h, r, q)
  BY DEF Mover, Worker
<1> QED BY <1>4, <1>5, <1>6, <1>7, <1>8 DEF Ring

\* CleanChannels: the indices begin again at 0, and no mark is left.
LEMMA CleanStep ==
    ASSUME NEW m, NEW h, NEW w, NEW p, NEW r, NEW b, NEW q, NEW c, NEW z,
           Shape(m, h, w, p, r, q), Ring(m, h, w, p, r, b, q), \A t \in Threads : q[t].pc = "idle",
           \A x \in Procs : z[x].pc = "idle",
           \A s \in 0 .. m.len - 1 :
               IF \E i \in r .. w - 1 : Pos(i, m) = s THEN c[s].mark = "INVALID" ELSE c[s] = b[s]
    PROVE  Ring(m, 0, 0, 0, 0, c, z)
<1>1. w = h /\ h \in Nat /\ r \in Nat /\ m.len \in Nat /\ m.len > 1
  BY NobodyInside, RingNumbers
<1>2. \A s \in 0 .. m.len - 1 : c[s].mark = "INVALID"
  BY <1>1 DEF Ring, Unused
<1> DEFINE o == 0
<1>3. o \in Nat /\ o <= o /\ o < o + m.len
  BY <1>1
<1>4. Unused(m, o, o, c)
  BY <1>2 DEF Unused
<1>5. \A x \in Procs : z[x].pc \in {"idle", "joinable"}
  OBVIOUS
<1> HIDE DEF o
<1>6. Ring(m, o, o, o, o, c, z)
  BY <1>1, <1>3, <1>4, <1>5, AtRest
<1> QED BY <1>6 DEF o

\* LoadSharedMemory: what was held is ready, and processing begins again where
\* reading was.
LEMMA CrashStep ==
    ASSUME NEW m, NEW h, NEW w, NEW p, NEW r, NEW b, NEW q, NEW c, NEW z,
           Shape(m, h, w, p, r, q), Ring(m, h, w, p, r, b, q), m.shm, m.type = "ASYNC",
           \A x \in Procs : z[x].pc = "idle",
           \A s \in 0 .. m.len - 1 : (~ \E i \in w .. h - 1 : Pos(i, m) = s) => c[s] = b[s]
    PROVE  Ring(m, h, h, r, r, c, z)
<1>1. /\ w \in Nat /\ p \in Nat /\ h \in Nat /\ r \in Nat /\ m.len \in Nat /\ h < r + m.len
      /\ r <= p /\ p <= w /\ w <= h
  BY RingNumbers
<1>2. Unused(m, h, r, c)
  <2>1. \A i \in w .. h - 1 : i \in r .. h - 1
    BY <1>1
  <2> QED BY <2>1 DEF Ring, Unused
<1>3. \A x \in Procs : z[x].pc \in {"idle", "joinable"}
  OBVIOUS
<1>4. r <= h
  BY <1>1
<1> QED BY <1>1, <1>2, <1>3, <1>4, AtRest

\* The log in the slot of counter i is ready and was not given to the devices.
Pending(i, m, h, r, b, q) ==
    /\ i \in r .. h - 1 /\ b[Pos(i, m)].mark = "READY"
    /\ \A x \in Procs : q[x].pc = "proc_mark" => q[x].slot # Pos(i, m)

\* Logs are numbered in the order of the log statements: what a thread is logging
\* comes after all it has marked ready.
Numbered(n, rdy, q) ==
    /\ \A l \in rdy : l[2] \in Nat /\ l[2] <= n
    /\ \A t \in Threads : q[t].pc \in Making =>
         /\ q[t].log[1] = t /\ q[t].log[2] \in Nat /\ q[t].log[2] <= n
         /\ \A l \in rdy : l[1] = t => l[2] < q[t].log[2]

\* What waits was not given to the devices, and waits in the order of its thread.
Waiting(m, h, r, b, q, given, rdy) ==
    /\ given \subseteq rdy
    /\ \A i \in r .. h - 1 : Pending(i, m, h, r, b, q) => b[Pos(i, m)].log \in rdy \ given
    /\ \A i, j \in r .. h - 1 :
         /\ i < j /\ Pending(i, m, h, r, b, q) /\ Pending(j, m, h, r, b, q)
         /\ b[Pos(i, m)].log[1] = b[Pos(j, m)].log[1]
         => b[Pos(i, m)].log[2] < b[Pos(j, m)].log[2]
    /\ \A t \in Threads : \A i, j \in r .. h - 1 :
         q[t].pc \in Filling /\ q[t].slot = Pos(i, m) /\ i < j /\ Pending(j, m, h, r, b, q)
         => b[Pos(j, m)].log[1] # t
    /\ m.type = "ASYNC" =>
         \A d \in given : \A i \in r .. h - 1 :
             Pending(i, m, h, r, b, q) /\ b[Pos(i, m)].log[1] = d[1] => d[2] < b[Pos(i, m)].log[2]

\* Nothing that was ready is lost.
Kept(m, h, r, b, q, given, rdy) ==
    /\ \A l \in rdy \ given : \E i \in r .. h - 1 : b[Pos(i, m)].mark = "READY" /\ b[Pos(i, m)].log = l
    /\ \A x \in Procs : q[x].pc = "proc_mark" => b[q[x].slot].log \in given

\* Steps after which no more waits than before.
LEMMA WaitingStays ==
    ASSUME NEW m, NEW h, NEW r, NEW b, NEW q, NEW g, NEW e, NEW c, NEW z, NEW given, NEW rdy,
           Waiting(m, h, r, b, q, given, rdy),
           \A i \in e .. g - 1 : Pending(i, m, g, e, c, z) =>
               i \in r .. h - 1 /\ Pending(i, m, h, r, b, q) /\ c[Pos(i, m)].log = b[Pos(i, m)].log,
           \A t \in Threads : \A i, j \in e .. g - 1 :
               z[t].pc \in Filling /\ z[t].slot = Pos(i, m) /\ i < j /\ Pending(j, m, g, e, c, z) =>
               i \in r .. h - 1 /\ q[t].pc \in Filling /\ q[t].slot = Pos(i, m)
    PROVE  Waiting(m, g, e, c, z, given, rdy)
<1>1. \A i \in e .. g - 1 : Pending(i, m, g, e, c, z) => c[Pos(i, m)].log \in rdy \ given
  BY DEF Waiting
<1>2. ASSUME NEW i \in e .. g - 1, NEW j \in e .. g - 1, i < j,
             Pending(i, m, g, e, c, z), Pending(j, m, g, e, c, z),
             c[Pos(i, m)].log[1] = c[Pos(j, m)].log[1]
      PROVE  c[Pos(i, m)].log[2] < c[Pos(j, m)].log[2]
  BY <1>2 DEF Waiting
<1>3. ASSUME NEW t \in Threads, NEW i \in e .. g - 1, NEW j \in e .. g - 1,
             z[t].pc \in Filling, z[t].slot = Pos(i, m), i < j, Pending(j, m, g, e, c, z)
      PROVE  c[Pos(j, m)].log[1] # t
  BY <1>3 DEF Waiting
<1>4. ASSUME m.type = "ASYNC", NEW d \in given, NEW i \in e .. g - 1,
             Pending(i, m, g, e, c, z), c[Pos(i, m)].log[1] = d[1]
      PROVE  d[2] < c[Pos(i, m)].log[2]
  BY <1>4 DEF Waiting
<1>5. given \subseteq rdy
  BY DEF Waiting
<1> QED BY <1>1, <1>2, <1>3, <1>4, <1>5 DEF Waiting

\* Steps of a thread that leave its slot, and the marks, as they are.
LEMMA WalkKeeps ==
    ASSUME NEW m, NEW h, NEW r, NEW b, NEW q, NEW z, NEW x \in Procs, NEW given, NEW rdy,
           Others(q, z, x), {q[x].pc, z[x].pc} \cap (Filling \cup {"proc_mark"}) = {}
    PROVE  /\ Waiting(m, h, r, b, q, given, rdy) => Waiting(m, h, r, b, z, given, rdy)
           /\ Kept(m, h, r, b, q, given, rdy) => Kept(m, h, r, b, z, given, rdy)
<1> USE ProcsAre
<1>1. \A i : Pending(i, m, h, r, b, z) => Pending(i, m, h, r, b, q)
  BY DEF Pending, Others
<1>2. \A t \in Threads : z[t].pc \in Filling => z[t] = q[t]
  BY DEF Others
<1>3. Waiting(m, h, r, b, q, given, rdy) => Waiting(m, h, r, b, z, given, rdy)
  BY <1>1, <1>2, WaitingStays
<1>4. Kept(m, h, r, b, q, given, rdy) => Kept(m, h, r, b, z, given, rdy)
  BY DEF Kept, Others
<1> QED BY <1>3, <1>4

\* Logging statements number on; a thread that only walks keeps its log.
LEMMA NumberedStays ==
    ASSUME NEW n, NEW k, n \in Nat, k \in Nat, n <= k, NEW rdy, NEW q, NEW z, NEW x \in Procs, Others(q, z, x), Numbered(n, rdy, q),
           z[x].pc \in Making =>
             \/ q[x].pc \in Making /\ z[x].log = q[x].log
             \/ z[x].log = <<x, k>> /\ n < k
    PROVE  Numbered(k, rdy, z)
<1> USE ProcsAre
<1>1. \A l \in rdy : l[2] \in Nat /\ l[2] <= n /\ l[2] <= k
  BY DEF Numbered
<1>2. ASSUME NEW t \in Threads, z[t].pc \in Making
      PROVE  /\ z[t].log[1] = t /\ z[t].log[2] \in Nat /\ z[t].log[2] <= k
             /\ \A l \in rdy : l[1] = t => l[2] < z[t].log[2]
  <2>1. CASE q[t].pc \in Making /\ z[t].log = q[t].log
    BY <2>1 DEF Numbered
  <2>2. CASE z[t].log = <<t, k>> /\ n < k
    BY <1>1, <2>2
  <2> QED BY <1>2, <2>1, <2>2 DEF Others
<1> QED BY <1>1, <1>2 DEF Numbered

\* Nothing waits in the slot that is held anew.
LEMMA HoldKeeps ==
    ASSUME NEW m, NEW h, NEW w, NEW p, NEW r, NEW b, NEW q, NEW z, NEW x \in Threads, NEW given, NEW rdy,
           Shape(m, h, w, p, r, q), Ring(m, h, w, p, r, b, q), Others(q, z, x),
           q[x].pc = "hold_cas", q[x].at = h, z[x].pc = "hold_mark", z[x].slot = Pos(h, m)
    PROVE  /\ Waiting(m, h, r, b, q, given, rdy) => Waiting(m, h + 1, r, b, z, given, rdy)
           /\ Kept(m, h, r, b, q, given, rdy) => Kept(m, h + 1, r, b, z, given, rdy)
<1> USE ProcsAre
<1>1. /\ h \in Nat /\ r \in Nat /\ r <= h
      /\ \A i \in r .. h : Pos(i, m) \in 0 .. m.len - 1
      /\ \A i, j \in r .. h : i # j => Pos(i, m) # Pos(j, m)
  BY RingNumbers
<1>2. b[Pos(h, m)].mark = "INVALID"
  <2>1. h \in r .. h /\ \A i \in r .. h - 1 : i \in r .. h /\ i # h
    BY <1>1
  <2>2. Pos(h, m) \in 0 .. m.len - 1 /\ \A i \in r .. h - 1 : Pos(i, m) # Pos(h, m)
    BY <1>1, <2>1
  <2> QED BY <2>2 DEF Ring, Unused
<1> DEFINE g == h + 1
<1>3. \A i \in r .. g - 1 : i \in r .. h /\ (i = h \/ i \in r .. h - 1)
  BY <1>1
<1>4. \A i \in r .. h - 1 : i \in r .. g - 1
  BY <1>1
<1>5. h \in r .. h /\ \A i, j \in r .. g - 1 : i < j => i # h /\ i \in r .. h - 1
  BY <1>1
<1> HIDE DEF g
<1>6. \A i \in r .. g - 1 : Pending(i, m, g, r, b, z) => i \in r .. h - 1 /\ Pending(i, m, h, r, b, q)
  <2> SUFFICES ASSUME NEW i \in r .. g - 1, Pending(i, m, g, r, b, z)
               PROVE  i \in r .. h - 1 /\ Pending(i, m, h, r, b, q)
    OBVIOUS
  <2>1. i \in r .. h - 1
    BY <1>2, <1>3 DEF Pending
  <2>2. \A y \in Procs : q[y].pc = "proc_mark" => z[y] = q[y]
    BY DEF Others
  <2> QED BY <2>1, <2>2 DEF Pending
<1>7. \A t \in Threads : \A i, j \in r .. g - 1 :
          z[t].pc \in Filling /\ z[t].slot = Pos(i, m) /\ i < j /\ Pending(j, m, g, r, b, z) =>
          i \in r .. h - 1 /\ q[t].pc \in Filling /\ q[t].slot = Pos(i, m)
  <2> SUFFICES ASSUME NEW t \in Threads, NEW i \in r .. g - 1, NEW j \in r .. g - 1,
                      z[t].pc \in Filling, z[t].slot = Pos(i, m), i < j
               PROVE  i \in r .. h - 1 /\ q[t].pc \in Filling /\ q[t].slot = Pos(i, m)
    OBVIOUS
  <2>1. i # h /\ i \in r .. h - 1 /\ i \in r .. h
    BY <1>3, <1>5
  <2>2. t # x
    BY <1>1, <1>5, <2>1
  <2> QED BY <2>1, <2>2 DEF Others
<1>8. Waiting(m, h, r, b, q, given, rdy) => Waiting(m, g, r, b, z, given, rdy)
  BY <1>6, <1>7, WaitingStays
<1>9. Kept(m, h, r, b, q, given, rdy) => Kept(m, g, r, b, z, given, rdy)
  BY <1>4 DEF Kept, Others
<1> QED BY <1>8, <1>9 DEF g

LEMMA FillKeeps ==
    ASSUME NEW m, NEW h, NEW w, NEW p, NEW r, NEW b, NEW q, NEW c, NEW z, NEW x \in Threads, NEW given, NEW rdy,
           Shape(m, h, w, p, r, q), Ring(m, h, w, p, r, b, q), Others(q, z, x),
           q[x].pc \in Filling, z[x].pc \in {"push", "push_mark"}, z[x].slot = q[x].slot,
           Elsewhere(b, c, q[x].slot, m), c[q[x].slot].mark = "HOLD"
    PROVE  /\ Waiting(m, h, r, b, q, given, rdy) => Waiting(m, h, r, c, z, given, rdy)
           /\ Kept(m, h, r, b, q, given, rdy) => Kept(m, h, r, c, z, given, rdy)
<1> USE ProcsAre
<1>1. /\ m.len \in Nat /\ h \in Nat /\ w \in Nat /\ r \in Nat /\ p \in Nat /\ p <= w
      /\ \A i \in r .. h : Pos(i, m) \in 0 .. m.len - 1
      /\ \A i, j \in r .. h : i # j => Pos(i, m) # Pos(j, m)
      /\ \A i \in w .. h - 1 : i \in r .. h
      /\ \A i \in r .. p - 1 : i \in r .. h
  BY RingNumbers
<1>2. PICK k \in w .. h - 1 : q[x].slot = Pos(k, m)
  BY DEF Ring, Held, Owns
<1>3. b[q[x].slot].mark # "READY"
  BY DEF Ring, Held, Owns
<1>4. \A i \in r .. h - 1 : Pos(i, m) # q[x].slot => c[Pos(i, m)] = b[Pos(i, m)]
  <2>1. \A i \in r .. h - 1 : i \in r .. h
    BY <1>1
  <2> QED BY <1>1, <2>1 DEF Elsewhere
<1>5. \A y \in Procs : z[y].pc = "proc_mark" \/ q[y].pc = "proc_mark" => z[y] = q[y] /\ y # x
  BY DEF Others, Filling
<1>6. \A i \in r .. h - 1 : Pending(i, m, h, r, c, z) =>
          Pending(i, m, h, r, b, q) /\ c[Pos(i, m)].log = b[Pos(i, m)].log
  BY <1>4, <1>5 DEF Pending
<1>7. \A t \in Threads : z[t].pc \in Filling => q[t].pc \in Filling /\ z[t].slot = q[t].slot
  BY DEF Others
<1>8. Waiting(m, h, r, b, q, given, rdy) => Waiting(m, h, r, c, z, given, rdy)
  BY <1>6, <1>7, WaitingStays
<1>9. \A y \in Procs : q[y].pc = "proc_mark" => c[q[y].slot] = b[q[y].slot]
  <2> SUFFICES ASSUME NEW y \in Procs, q[y].pc = "proc_mark" PROVE c[q[y].slot] = b[q[y].slot]
    OBVIOUS
  <2>1. PICK i \in r .. p - 1 : q[y].slot = Pos(i, m)
    BY DEF Ring, Taken, Takes, Dispatching
  <2>2. i \in r .. h /\ k \in r .. h /\ i # k
    BY <1>1, <1>2, <2>1
  <2> QED BY <1>1, <1>2, <2>1, <2>2 DEF Elsewhere
<1>10. Kept(m, h, r, b, q, given, rdy) => Kept(m, h, r, c, z, given, rdy)
  <2> SUFFICES ASSUME Kept(m, h, r, b, q, given, rdy) PROVE Kept(m, h, r, c, z, given, rdy)
    OBVIOUS
  <2>1. \A l \in rdy \ given : \E i \in r .. h - 1 : c[Pos(i, m)].mark = "READY" /\ c[Pos(i, m)].log = l
    BY <1>3, <1>4 DEF Kept
  <2> QED BY <1>5, <1>9, <2>1 DEF Kept
<1> QED BY <1>8, <1>10

LEMMA ReleaseKeeps ==
    ASSUME NEW m, NEW h, NEW w, NEW p, NEW r, NEW b, NEW q, NEW c, NEW z, NEW x \in Procs, NEW given, NEW rdy,
           Shape(m, h, w, p, r, q), Ring(m, h, w, p, r, b, q), Others(q, z, x),
           q[x].pc = "proc_mark", z[x].pc = "read_load",
           Elsewhere(b, c, q[x].slot, m), c[q[x].slot].mark = "INVALID"
    PROVE  /\ Waiting(m, h, r, b, q, given, rdy) => Waiting(m, h, r, c, z, given, rdy)
           /\ Kept(m, h, r, b, q, given, rdy) => Kept(m, h, r, c, z, given, rdy)
<1> USE ProcsAre
<1>1. /\ h \in Nat /\ r \in Nat
      /\ \A i \in r .. h : Pos(i, m) \in 0 .. m.len - 1
  BY RingNumbers
<1>2. \A i \in r .. h - 1 : Pos(i, m) # q[x].slot => c[Pos(i, m)] = b[Pos(i, m)]
  <2>1. \A i \in r .. h - 1 : i \in r .. h
    BY <1>1
  <2> QED BY <1>1, <2>1 DEF Elsewhere
<1>3. \A y \in Procs : z[y].pc = "proc_mark" => z[y] = q[y] /\ y # x
  BY DEF Others
<1>4. \A i \in r .. h - 1 : Pending(i, m, h, r, c, z) =>
          Pending(i, m, h, r, b, q) /\ c[Pos(i, m)].log = b[Pos(i, m)].log
  <2> SUFFICES ASSUME NEW i \in r .. h - 1, Pending(i, m, h, r, c, z)
               PROVE  Pending(i, m, h, r, b, q) /\ c[Pos(i, m)].log = b[Pos(i, m)].log
    OBVIOUS
  <2>1. Pos(i, m) # q[x].slot
    BY DEF Pending
  <2>2. c[Pos(i, m)] = b[Pos(i, m)]
    BY <1>2, <2>1
  <2>3. \A y \in Procs : q[y].pc = "proc_mark" => y = x \/ z[y] = q[y]
    BY DEF Others
  <2> QED BY <2>1, <2>2, <2>3 DEF Pending
<1>5. \A t \in Threads : z[t].pc \in Filling => q[t].pc \in Filling /\ z[t].slot = q[t].slot
  BY DEF Others, Filling
<1>6. Waiting(m, h, r, b, q, given, rdy) => Waiting(m, h, r, c, z, given, rdy)
  BY <1>4, <1>5, WaitingStays
<1>7. Kept(m, h, r, b, q, given, rdy) => Kept(m, h, r, c, z, given, rdy)
  <2> SUFFICES ASSUME Kept(m, h, r, b, q, given, rdy) PROVE Kept(m, h, r, c, z, given, rdy)
    OBVIOUS
  <2>1. b[q[x].slot].log \in given
    BY DEF Kept
  <2>2. \A l \in rdy \ given : \E i \in r .. h - 1 : c[Pos(i, m)].mark = "READY" /\ c[Pos(i, m)].log = l
    <3> SUFFICES ASSUME NEW l \in rdy \ given
                 PROVE  \E i \in r .. h - 1 : c[Pos(i, m)].mark = "READY" /\ c[Pos(i, m)].log = l
      OBVIOUS
    <3>1. PICK i \in r .. h - 1 : b[Pos(i, m)].mark = "READY" /\ b[Pos(i, m)].log = l
      BY DEF Kept
    <3>2. Pos(i, m) # q[x].slot
      BY <2>1, <3>1
    <3> QED BY <1>2, <3>1, <3>2
  <2>3. \A y \in Procs : z[y].pc = "proc_mark" => c[z[y].slot].log \in given
    <3> SUFFICES ASSUME NEW y \in Procs, z[y].pc = "proc_mark" PROVE c[z[y].slot].log \in given
      OBVIOUS
    <3>1. z[y] = q[y] /\ y # x /\ q[y].slot # q[x].slot /\ q[y].slot \in 0 .. m.len - 1
      BY <1>3 DEF Ring, Taken, Dispatching, Shape
    <3> QED BY <3>1 DEF Elsewhere, Kept
  <2> QED BY <2>2, <2>3 DEF Kept
<1> QED BY <1>6, <1>7

LEMMA FreeKeeps ==
    ASSUME NEW m, NEW h, NEW w, NEW p, NEW r, NEW b, NEW q, NEW z, NEW x \in Procs, NEW given, NEW rdy,
           Shape(m, h, w, p, r, q), Ring(m, h, w, p, r, b, q), Others(q, z, x),
           q[x].pc = "read_cas", q[x].at = r, z[x].pc = "read_load"
    PROVE  /\ Waiting(m, h, r, b, q, given, rdy) => Waiting(m, h, r + 1, b, z, given, rdy)
           /\ Kept(m, h, r, b, q, given, rdy) => Kept(m, h, r + 1, b, z, given, rdy)
<1> USE ProcsAre
<1>1. h \in Nat /\ r \in Nat
  BY RingNumbers
<1>2. b[Pos(r, m)].mark = "INVALID"
  BY DEF Ring, Loads, Loaded
<1> DEFINE e == r + 1
<1>3. /\ \A i \in e .. h - 1 : i \in r .. h - 1
      /\ \A i \in r .. h - 1 : i = r \/ i \in e .. h - 1
  BY <1>1
<1> HIDE DEF e
<1>4. \A y \in Procs : z[y].pc = "proc_mark" \/ q[y].pc = "proc_mark" => z[y] = q[y]
  BY DEF Others
<1>5. \A i \in e .. h - 1 : Pending(i, m, h, e, b, z) => i \in r .. h - 1 /\ Pending(i, m, h, r, b, q)
  BY <1>3, <1>4 DEF Pending
<1>6. \A t \in Threads : z[t].pc \in Filling => q[t].pc \in Filling /\ z[t].slot = q[t].slot
  BY DEF Others, Filling
<1>7. Waiting(m, h, r, b, q, given, rdy) => Waiting(m, h, e, b, z, given, rdy)
  BY <1>3, <1>5, <1>6, WaitingStays
<1>8. Kept(m, h, r, b, q, given, rdy) => Kept(m, h, e, b, z, given, rdy)
  BY <1>2, <1>3, <1>4 DEF Kept
<1> QED BY <1>7, <1>8 DEF e

\* The log that becomes ready is the latest of its thread.
LEMMA ReadyKeeps ==
    ASSUME NEW m, NEW h, NEW w, NEW p, NEW r, NEW b, NEW q, NEW c, NEW z, NEW x \in Threads, NEW given, NEW rdy, NEW n,
           Shape(m, h, w, p, r, q), Ring(m, h, w, p, r, b, q), Others(q, z, x),
           q[x].pc = "push_mark", z[x].pc = "push_load",
           Elsewhere(b, c, q[x].slot, m), c[q[x].slot].mark = "READY", c[q[x].slot].log = b[q[x].slot].log
    PROVE  /\ Waiting(m, h, r, b, q, given, rdy) /\ Numbered(n, rdy, q) =>
                Waiting(m, h, r, c, z, given, rdy \cup {q[x].log})
           /\ Kept(m, h, r, b, q, given, rdy) => Kept(m, h, r, c, z, given, rdy \cup {q[x].log})
           /\ Numbered(n, rdy, q) => Numbered(n, rdy \cup {q[x].log}, z)
<1> USE ProcsAre
<1>1. /\ m.len \in Nat /\ h \in Nat /\ w \in Nat /\ r \in Nat /\ p \in Nat /\ p <= w /\ r <= p
      /\ \A i \in r .. h : Pos(i, m) \in 0 .. m.len - 1
      /\ \A i, j \in r .. h : i # j => Pos(i, m) # Pos(j, m)
      /\ \A i \in r .. p - 1 : i \in r .. h
  BY RingNumbers
<1>2. PICK k \in w .. h - 1 : q[x].slot = Pos(k, m)
  BY DEF Ring, Held, Owns, Filling
<1>3. k \in r .. h - 1 /\ k \in r .. h
  BY <1>1, <1>2
<1> DEFINE new == q[x].log
<1>4. c[Pos(k, m)].mark = "READY" /\ c[Pos(k, m)].log = new /\ b[Pos(k, m)].mark # "READY"
  BY <1>2 DEF Ring, Held, Owns, Filling
<1>5. \A i \in r .. h - 1 : i \in r .. h /\ (i # k => Pos(i, m) # Pos(k, m) /\ c[Pos(i, m)] = b[Pos(i, m)])
  <2>1. \A i \in r .. h - 1 : i \in r .. h
    BY <1>1
  <2> QED BY <1>1, <1>2, <1>3, <2>1 DEF Elsewhere
<1>6. \A y \in Procs : z[y].pc = "proc_mark" \/ q[y].pc = "proc_mark" => z[y] = q[y] /\ y # x
  BY DEF Others
<1>7. \A i \in r .. h - 1 : Pending(i, m, h, r, c, z) => i = k \/ Pending(i, m, h, r, b, q)
  BY <1>5, <1>6 DEF Pending
<1>8. \A t \in Threads : z[t].pc \in Filling => q[t].pc \in Filling /\ z[t].slot = q[t].slot /\ t # x
  BY DEF Others, Filling
<1>9. ASSUME Waiting(m, h, r, b, q, given, rdy), Numbered(n, rdy, q)
      PROVE  Waiting(m, h, r, c, z, given, rdy \cup {new})
  <2>1. new[1] = x /\ new[2] \in Nat /\ \A l \in rdy : l[1] = x => l[2] \in Nat /\ l[2] < new[2]
    BY <1>9 DEF Numbered, Making
  <2>2. new \notin rdy /\ new \notin given /\ given \subseteq rdy
    BY <1>9, <2>1 DEF Waiting
  <2> HIDE DEF new
  <2>3. \A i \in r .. h - 1 : Pending(i, m, h, r, c, z) => c[Pos(i, m)].log \in (rdy \cup {new}) \ given
    BY <1>4, <1>5, <1>7, <1>9, <2>2 DEF Waiting
  <2>4. ASSUME NEW i \in r .. h - 1, NEW j \in r .. h - 1, i < j,
               Pending(i, m, h, r, c, z), Pending(j, m, h, r, c, z),
               c[Pos(i, m)].log[1] = c[Pos(j, m)].log[1]
        PROVE  c[Pos(i, m)].log[2] < c[Pos(j, m)].log[2]
    <3>1. CASE i # k /\ j # k
      BY <1>5, <1>7, <1>9, <2>4, <3>1 DEF Waiting
    <3>2. CASE j = k
      <4>1. i # k
        BY <2>4, <3>2
      <4>2. Pending(i, m, h, r, b, q) /\ c[Pos(i, m)] = b[Pos(i, m)]
        BY <1>5, <1>7, <2>4, <4>1
      <4>3. b[Pos(i, m)].log \in rdy
        BY <1>9, <4>2 DEF Waiting
      <4> QED BY <1>4, <2>1, <2>4, <3>2, <4>2, <4>3
    <3>3. CASE i = k
      <4>1. j # k
        BY <2>4, <3>3
      <4>2. Pending(j, m, h, r, b, q) /\ c[Pos(j, m)] = b[Pos(j, m)]
        BY <1>5, <1>7, <2>4, <4>1
      <4>3. q[x].pc \in Filling /\ q[x].slot = Pos(i, m)
        BY <1>2, <3>3 DEF Filling
      <4>4. b[Pos(j, m)].log[1] # x
        BY <1>9, <2>4, <4>2, <4>3 DEF Waiting
      <4> QED BY <1>4, <2>1, <2>4, <3>3, <4>2, <4>4
    <3> QED BY <3>1, <3>2, <3>3
  <2>5. ASSUME NEW t \in Threads, NEW i \in r .. h - 1, NEW j \in r .. h - 1,
               z[t].pc \in Filling, z[t].slot = Pos(i, m), i < j, Pending(j, m, h, r, c, z)
        PROVE  c[Pos(j, m)].log[1] # t
    <3>1. q[t].pc \in Filling /\ q[t].slot = Pos(i, m) /\ t # x
      BY <1>8, <2>5
    <3>2. CASE j = k
      BY <1>4, <2>1, <3>1, <3>2
    <3>3. CASE j # k
      BY <1>5, <1>7, <1>9, <2>5, <3>1, <3>3 DEF Waiting
    <3> QED BY <3>2, <3>3
  <2>6. ASSUME m.type = "ASYNC", NEW d \in given, NEW i \in r .. h - 1,
               Pending(i, m, h, r, c, z), c[Pos(i, m)].log[1] = d[1]
        PROVE  d[2] < c[Pos(i, m)].log[2]
    <3>1. CASE i = k
      BY <1>4, <2>1, <2>2, <2>6, <3>1
    <3>2. CASE i # k
      BY <1>5, <1>7, <1>9, <2>6, <3>2 DEF Waiting
    <3> QED BY <3>1, <3>2
  <2> QED BY <2>2, <2>3, <2>4, <2>5, <2>6 DEF Waiting
<1>10. ASSUME Kept(m, h, r, b, q, given, rdy)
       PROVE  Kept(m, h, r, c, z, given, rdy \cup {new})
  <2>1. \A l \in (rdy \cup {new}) \ given :
            \E i \in r .. h - 1 : c[Pos(i, m)].mark = "READY" /\ c[Pos(i, m)].log = l
    <3> SUFFICES ASSUME NEW l \in (rdy \cup {new}) \ given
                 PROVE  \E i \in r .. h - 1 : c[Pos(i, m)].mark = "READY" /\ c[Pos(i, m)].log = l
      OBVIOUS
    <3>1. CASE l = new
      BY <1>3, <1>4, <3>1
    <3>2. CASE l # new
      <4>1. PICK i \in r .. h - 1 : b[Pos(i, m)].mark = "READY" /\ b[Pos(i, m)].log = l
        BY <1>10, <3>2 DEF Kept
      <4> QED BY <1>4, <1>5, <4>1
    <3> QED BY <3>1, <3>2
  <2>2. \A y \in Procs : z[y].pc = "proc_mark" => c[z[y].slot].log \in given
    <3> SUFFICES ASSUME NEW y \in Procs, z[y].pc = "proc_mark" PROVE c[z[y].slot].log \in given
      OBVIOUS
    <3>1. z[y] = q[y] /\ b[q[y].slot].log \in given /\ q[y].slot \in 0 .. m.len - 1
      BY <1>6, <1>10 DEF Kept, Shape
    <3> QED BY <3>1 DEF Elsewhere
  <2> QED BY <2>1, <2>2 DEF Kept
<1>11. ASSUME Numbered(n, rdy, q)
       PROVE  Numbered(n, rdy \cup {new}, z)
  <2>1. new[1] = x /\ new[2] \in Nat /\ new[2] <= n
    BY <1>11 DEF Numbered, Making
  <2> HIDE DEF new
  <2>2. \A t \in Threads : z[t].pc \in Making => t # x /\ z[t] = q[t]
    BY DEF Others, Making
  <2> QED BY <1>11, <2>1, <2>2 DEF Numbered
<1> QED BY <1>9, <1>10, <1>11

LEMMA DispatchKeeps ==
    ASSUME NEW m, NEW h, NEW r, NEW b, NEW q, NEW z, NEW x \in Procs, NEW given, NEW rdy,
           Kept(m, h, r, b, q, given, rdy), Others(q, z, x), z[x].slot = q[x].slot
    PROVE  Kept(m, h, r, b, z, given \cup {b[q[x].slot].log}, rdy)
BY DEF Kept, Others

\* The log that is given to the devices was not given before, and an asynchronous
\* channel gives the first that waits.
LEMMA DispatchWaits ==
    ASSUME NEW m, NEW h, NEW w, NEW p, NEW r, NEW b, NEW q, NEW z, NEW x \in Procs, NEW given, NEW rdy, NEW n,
           Shape(m, h, w, p, r, q), Ring(m, h, w, p, r, b, q), Others(q, z, x), ~m.shm,
           Waiting(m, h, r, b, q, given, rdy), Numbered(n, rdy, q),
           q[x].pc = "dispatch", z[x].pc = "proc_mark", z[x].slot = q[x].slot,
           NEW log, log = b[q[x].slot].log
    PROVE  /\ Waiting(m, h, r, b, z, given \cup {log}, rdy)
           /\ log \in rdy \ given
           /\ m.type = "ASYNC" => \A d \in given : d[1] = log[1] => d[2] < log[2]
<1> USE ProcsAre
<1> DEFINE all == given \cup {log}
<1>1. /\ m.len \in Nat /\ h \in Nat /\ w \in Nat /\ r \in Nat /\ p \in Nat /\ r <= p /\ p <= w /\ w <= h
      /\ \A i, j \in r .. h : i # j => Pos(i, m) # Pos(j, m)
      /\ \A i \in r .. p - 1 : i \in r .. h /\ i \in r .. h - 1
  BY RingNumbers
<1>2. PICK k \in r .. p - 1 : q[x].slot = Pos(k, m)
  BY DEF Ring, Taken, Takes, Dispatching
<1>3. Pending(k, m, h, r, b, q)
  <2>1. b[Pos(k, m)].mark = "READY"
    BY <1>2 DEF Ring, Taken, Takes, Dispatching
  <2>2. \A y \in Procs : q[y].pc = "proc_mark" => y # x /\ q[y].slot # q[x].slot
    BY DEF Ring, Taken, Dispatching
  <2> QED BY <1>1, <1>2, <2>1, <2>2 DEF Pending
<1>4. k \in r .. h - 1 /\ log = b[Pos(k, m)].log
  BY <1>1, <1>2
<1>5. log \in rdy \ given /\ given \subseteq rdy
  BY <1>3, <1>4 DEF Waiting
<1>6. \A i \in r .. h - 1 : Pending(i, m, h, r, b, z) => Pending(i, m, h, r, b, q) /\ i # k
  <2> SUFFICES ASSUME NEW i \in r .. h - 1, Pending(i, m, h, r, b, z)
               PROVE  Pending(i, m, h, r, b, q) /\ i # k
    OBVIOUS
  <2>1. i # k
    BY <1>2 DEF Pending
  <2>2. \A y \in Procs : q[y].pc = "proc_mark" => z[y] = q[y]
    BY DEF Others
  <2> QED BY <2>1, <2>2 DEF Pending
<1>7. \A t \in Threads : z[t].pc \in Filling => q[t] = z[t]
  BY DEF Others, Filling
<1>8. Waiting(m, h, r, b, z, given, rdy)
  BY <1>6, <1>7, WaitingStays
<1>9. ASSUME NEW i \in r .. h - 1, Pending(i, m, h, r, b, z) PROVE b[Pos(i, m)].log # log
  <2>1. Pending(i, m, h, r, b, q) /\ i # k /\ b[Pos(i, m)].log \in rdy
    BY <1>6, <1>9 DEF Waiting
  <2>2. log[2] \in Nat
    BY <1>5 DEF Numbered
  <2>3. i < k \/ k < i
    BY <1>1, <1>4, <2>1
  <2>4. b[Pos(i, m)].log[1] = log[1] => b[Pos(i, m)].log[2] < log[2] \/ log[2] < b[Pos(i, m)].log[2]
    BY <1>3, <1>4, <2>1, <2>3 DEF Waiting
  <2> QED BY <2>2, <2>4
<1>10. \A i \in r .. h - 1 : Pending(i, m, h, r, b, z) => b[Pos(i, m)].log \in rdy \ all
  BY <1>8, <1>9 DEF Waiting
<1>11. ASSUME m.type = "ASYNC", NEW i \in r .. h - 1, Pending(i, m, h, r, b, z), b[Pos(i, m)].log[1] = log[1]
       PROVE  log[2] < b[Pos(i, m)].log[2]
  <2>1. q[x].slot = Pos(p - 1, m)
    BY <1>11 DEF Ring, Taken, Takes, Dispatching
  <2>2. p - 1 \in r .. h /\ k \in r .. h
    BY <1>1, <1>2
  <2>3. k = p - 1
    BY <1>1, <1>2, <2>1, <2>2
  <2>4. Pending(i, m, h, r, b, q) /\ i # k
    BY <1>6, <1>11
  <2>5. CASE i < k
    <3>1. i \in r .. p - 1 /\ i \in r .. h
      BY <1>1, <2>3, <2>5
    <3>2. PICK y \in Procs : q[y].pc \in Dispatching /\ q[y].slot = Pos(i, m)
      BY <2>4, <3>1 DEF Ring, Taken, Pending
    <3>3. q[y].slot = Pos(p - 1, m)
      BY <1>11, <3>2 DEF Ring, Taken, Takes
    <3>4. Pos(i, m) = Pos(p - 1, m) /\ i \in r .. h /\ p - 1 \in r .. h
      BY <2>2, <3>1, <3>2, <3>3
    <3>5. \A a, c \in r .. h : a # c => Pos(a, m) # Pos(c, m)
      BY <1>1
    <3>6. i = p - 1
      BY <3>4, <3>5
    <3> QED BY <1>1, <2>3, <2>5, <3>1, <3>6
  <2>6. CASE k < i
    BY <1>3, <1>4, <1>11, <2>4, <2>6 DEF Waiting
  <2> QED BY <1>1, <1>4, <2>4, <2>5, <2>6
<1>12. m.type = "ASYNC" => \A d \in given : d[1] = log[1] => d[2] < log[2]
  BY <1>3, <1>4 DEF Waiting
<1>13. Waiting(m, h, r, b, z, all, rdy)
  <2>1. all \subseteq rdy
    BY <1>5
  <2>2. m.type = "ASYNC" =>
           \A d \in all : \A i \in r .. h - 1 :
               Pending(i, m, h, r, b, z) /\ b[Pos(i, m)].log[1] = d[1] => d[2] < b[Pos(i, m)].log[2]
    BY <1>8, <1>11 DEF Waiting
  <2> HIDE DEF all
  <2> QED BY <1>8, <1>10, <2>1, <2>2 DEF Waiting
<1> QED BY <1>5, <1>12, <1>13

\* What a thread's record holds.
ProcType(m) == [pc : Places, at : Nat, slot : 0 .. m.len - 1, log : {NoLog} \cup (Threads \X (1 .. m.logs))]

RingTypes ==
    /\ mode \in Modes
    /\ hold_idx \in Nat /\ write_idx \in Nat /\ proc_idx \in Nat /\ read_idx \in Nat
    /\ buffer \in [Slots -> [mark : {"INVALID", "HOLD", "READY"}, log : Logs]]
    /\ channel_state \in {"NULL", "RUNNING", "WAITING_FINISH", "FINISH"}
    /\ logger_state \in {"UNINIT", "INITING", "RUNNING", "CLOSING"}
    /\ ctl \in {"idle", "start", "start_failed", "join_failed", "stop", "join"}
    /\ proc \in [Procs -> ProcType(mode)]
    /\ issued \in 0 .. mode.logs /\ starts \in 0 .. mode.starts
    /\ dispatched \in Seq(Logs) /\ ready \subseteq Logs
    /\ clean \in BOOLEAN /\ quiet \in BOOLEAN

\* Who can be where while the controller starts or stops the logger.
Lifecycle ==
    /\ ctl = "idle" => logger_state \in {"UNINIT", "RUNNING"}
    /\ ctl \in {"start", "start_failed", "join_failed"} => logger_state = "INITING"
    /\ ctl \in {"stop", "join"} => logger_state = "CLOSING"
    /\ logger_state = "UNINIT" \/ mode.type = "SYNC" => At(Async, "idle")
    /\ proc[Async].pc \in {"idle", "joinable"} \cup Processing
    /\ \A t \in Threads :
         /\ proc[t].pc # "joinable"
         /\ mode.type = "ASYNC" => proc[t].pc \notin Processing
         /\ ~At(t, "idle") => channel_state = "RUNNING" /\ (ctl = "stop" \/ logger_state = "RUNNING")
    /\ At(Async, "joinable") => channel_state = "FINISH" /\ write_idx = read_idx

\* The ring as it is now, what is kept in it, and what waits in it.
TheRing == Ring(mode, hold_idx, write_idx, proc_idx, read_idx, buffer, proc)
TheKept == Kept(mode, hold_idx, read_idx, buffer, proc, Given, ready)
TheWaiting == Numbered(issued, ready, proc) /\ Waiting(mode, hold_idx, read_idx, buffer, proc, Given, ready)

\* A log is sent once, and in the order of its thread.
Sent ==
    /\ IsFiniteSet(Given) /\ Cardinality(Given) = Len(dispatched)
    /\ mode.type = "ASYNC" =>
         \A i, j \in 1 .. Len(dispatched) :
             i < j /\ dispatched[i][1] = dispatched[j][1] => dispatched[i][2] < dispatched[j][2]

RingInv ==
    /\ RingTypes
    /\ clean => Lifecycle
    /\ clean /\ Recoverable => TheRing /\ TheKept
    /\ clean /\ ~mode.shm => TheWaiting /\ Sent

\* What the helpers Load, Goto and Begin make of the threads.
LEMMA Loading ==
    ASSUME RingTypes, UNCHANGED mode, NEW x \in Procs, NEW pc \in Places, NEW i \in Nat, Load(x, pc, i)
    PROVE  /\ proc' \in [Procs -> ProcType(mode')] /\ Others(proc, proc', x)
           /\ proc'[x].pc = pc /\ proc'[x].at = i
           /\ proc'[x].slot = proc[x].slot /\ proc'[x].log = proc[x].log
<1>1. proc \in [Procs -> ProcType(mode)]
  BY DEF RingTypes
<1>2. proc[x] \in ProcType(mode)
  BY <1>1
<1>3. proc' = [proc EXCEPT ![x] = [proc[x] EXCEPT !.pc = pc, !.at = i]]
  BY <1>1 DEF Load
<1>4. [proc[x] EXCEPT !.pc = pc, !.at = i] \in ProcType(mode)
  BY <1>2 DEF ProcType
<1>5. proc' \in [Procs -> ProcType(mode)] /\ proc'[x] = [proc[x] EXCEPT !.pc = pc, !.at = i]
  BY <1>1, <1>3, <1>4
<1>6. Others(proc, proc', x)
  BY <1>1, <1>3 DEF Others
<1>7. /\ proc'[x].pc = pc /\ proc'[x].at = i
      /\ proc'[x].slot = proc[x].slot /\ proc'[x].log = proc[x].log
  BY <1>2, <1>5 DEF ProcType
<1> QED BY <1>5, <1>6, <1>7

LEMMA Going ==
    ASSUME RingTypes, UNCHANGED mode, NEW x \in Procs, NEW pc \in Places, Goto(x, pc)
    PROVE  /\ proc' \in [Procs -> ProcType(mode')] /\ Others(proc, proc', x)
           /\ proc'[x].pc = pc
           /\ proc'[x].slot = proc[x].slot /\ proc'[x].log = proc[x].log
<1> DEFINE i == 0
<1>1. Load(x, pc, i) /\ i \in Nat
  BY DEF Goto, Load
<1> HIDE DEF i
<1> QED BY <1>1, Loading

\* mode' = mode and the assumptions on it.
LEMMA ModeIs ==
    ASSUME RingTypes
    PROVE  /\ mode.len \in Nat /\ mode.len > 1 /\ mode.type \in {"ASYNC", "SYNC"} /\ mode.shm \in BOOLEAN
           /\ mode.logs \in Nat /\ mode.starts \in Nat
           /\ Slots = 0 .. mode.len - 1
           /\ Logs = {NoLog} \cup (Threads \X (1 .. mode.logs))
           /\ \A i \in Nat : Slot(i) = Pos(i, mode)
BY LogRingAssumption DEF RingTypes, Slots, Logs, Slot, Pos, BUFFER_LEN

LEMMA Beginning ==
    ASSUME RingTypes, UNCHANGED mode, NEW x \in Procs, NEW pc \in Places, Begin(x, pc)
    PROVE  /\ proc' \in [Procs -> ProcType(mode')] /\ Others(proc, proc', x)
           /\ proc'[x].pc = pc
<1> DEFINE v == [pc |-> pc, at |-> 0, slot |-> 0, log |-> NoLog]
<1>1. proc \in [Procs -> ProcType(mode)]
  BY DEF RingTypes
<1>2. proc' = [proc EXCEPT ![x] = [Idle EXCEPT !.pc = pc]]
  BY DEF Begin
<1>4. [Idle EXCEPT !.pc = pc] = v
  BY DEF Idle
<1>3. v \in ProcType(mode) /\ v.pc = pc
  BY ModeIs DEF ProcType
<1> HIDE DEF v
<1>5. proc' = [proc EXCEPT ![x] = v]
  BY <1>2, <1>4
<1> QED BY <1>1, <1>3, <1>5 DEF Others

LEMMA TheShape ==
    ASSUME RingTypes, Lifecycle
    PROVE  Shape(mode, hold_idx, write_idx, proc_idx, read_idx, proc)
<1>1. \A x \in Procs : proc[x].pc \in Places /\ proc[x].at \in Nat /\ proc[x].slot \in 0 .. mode.len - 1
  BY DEF RingTypes, ProcType
<1>2. /\ proc[Async].pc \in {"idle", "joinable"} \cup Processing
      /\ mode.type = "SYNC" => proc[Async].pc = "idle"
      /\ mode.type = "ASYNC" => \A t \in Threads : proc[t].pc \notin Processing
  BY DEF Lifecycle, At
<1>3. hold_idx \in Nat /\ write_idx \in Nat /\ proc_idx \in Nat /\ read_idx \in Nat
  BY DEF RingTypes
<1> QED BY <1>1, <1>2, <1>3, ModeIs DEF Shape

\* A step of a thread, or of the channel's own, while the controller does nothing.
LEMMA LifecycleStays ==
    ASSUME Lifecycle, NEW x \in Procs, Others(proc, proc', x),
           UNCHANGED <<mode, channel_state, logger_state, ctl>>,
           ~At(x, "idle") \/ (x \in Threads /\ channel_state = "RUNNING" /\ logger_state = "RUNNING"),
           proc'[x].pc # "joinable",
           x = Async => proc'[x].pc \in Processing,
           x \in Threads /\ mode.type = "ASYNC" => proc'[x].pc \notin Processing,
           At(Async, "joinable") => UNCHANGED <<write_idx, read_idx>>
    PROVE  Lifecycle'
<1> USE ProcsAre
<1>1. /\ logger_state' = "UNINIT" \/ mode'.type = "SYNC" => proc'[Async].pc = "idle"
      /\ proc'[Async].pc \in {"idle", "joinable"} \cup Processing
  BY DEF Lifecycle, At, Others
<1>2. \A t \in Threads :
         /\ proc'[t].pc # "joinable"
         /\ mode'.type = "ASYNC" => proc'[t].pc \notin Processing
  BY DEF Lifecycle, At, Others
<1>3. \A t \in Threads :
         proc'[t].pc # "idle" => channel_state' = "RUNNING" /\ (ctl' = "stop" \/ logger_state' = "RUNNING")
  BY DEF Lifecycle, At, Others
<1>4. proc'[Async].pc = "joinable" => channel_state' = "FINISH" /\ write_idx' = read_idx'
  BY DEF Lifecycle, At, Others
<1>5. /\ ctl' = "idle" => logger_state' \in {"UNINIT", "RUNNING"}
      /\ ctl' \in {"start", "start_failed", "join_failed"} => logger_state' = "INITING"
      /\ ctl' \in {"stop", "join"} => logger_state' = "CLOSING"
  BY DEF Lifecycle
<1> QED BY <1>1, <1>2, <1>3, <1>4, <1>5 DEF Lifecycle, At

\* A step that moves a thread from one place where it owns no slot to another.
LEMMA WalkHolds ==
    ASSUME RingInv, clean, NEW x \in Procs, RingTypes', Lifecycle', Others(proc, proc', x),
           UNCHANGED <<mode, Indices, buffer, dispatched, ready>>, issued <= issued',
           {proc[x].pc, proc'[x].pc} \cap (Filling \cup Dispatching) = {},
           proc'[x].pc \in Making =>
             \/ proc[x].pc \in Making /\ proc'[x].log = proc[x].log
             \/ proc'[x].log = <<x, issued'>> /\ issued < issued',
           Recoverable =>
             /\ Loaded(proc'[x], mode, hold_idx, write_idx, proc_idx, read_idx, buffer, proc)
             /\ write_idx < hold_idx /\ buffer[Pos(write_idx, mode)].mark = "READY" /\ Moves(proc[x], write_idx) =>
                  Moves(proc'[x], write_idx)
             /\ mode.type = "SYNC" /\ proc_idx < write_idx /\ Works(proc[x], proc_idx) => Works(proc'[x], proc_idx)
    PROVE  RingInv'
<1>1. /\ mode' = mode /\ hold_idx' = hold_idx /\ write_idx' = write_idx /\ proc_idx' = proc_idx
      /\ read_idx' = read_idx /\ buffer' = buffer /\ Given' = Given /\ ready' = ready /\ dispatched' = dispatched
  BY DEF Indices, Given
<1>2. Recoverable' <=> Recoverable
  BY <1>1 DEF Recoverable
<1>3. proc[x].pc \notin Filling \cup Dispatching /\ proc'[x].pc \notin Filling \cup Dispatching
      /\ {proc[x].pc, proc'[x].pc} \cap (Filling \cup {"proc_mark"}) = {}
  BY DEF Dispatching
<1>4. Recoverable => TheRing' /\ TheKept'
  <2> SUFFICES ASSUME Recoverable PROVE TheRing' /\ TheKept'
    OBVIOUS
  <2>1. Ring(mode, hold_idx, write_idx, proc_idx, read_idx, buffer, proc)
    BY DEF RingInv, TheRing
  <2>2. Ring(mode, hold_idx, write_idx, proc_idx, read_idx, buffer, proc')
    BY <1>3, <2>1, Walk
  <2>3. Kept(mode, hold_idx, read_idx, buffer, proc', Given, ready)
    BY <1>3, WalkKeeps DEF RingInv, TheKept
  <2> QED BY <1>1, <2>2, <2>3 DEF TheRing, TheKept
<1>5. ~mode.shm => TheWaiting' /\ Sent'
  <2> SUFFICES ASSUME ~mode.shm PROVE TheWaiting' /\ Sent'
    OBVIOUS
  <2>1. issued \in Nat /\ issued' \in Nat
    BY LogRingAssumption DEF RingInv, RingTypes
  <2>2. Numbered(issued', ready, proc')
    BY <2>1, NumberedStays DEF RingInv, TheWaiting
  <2>3. Waiting(mode, hold_idx, read_idx, buffer, proc', Given, ready)
    BY <1>3, WalkKeeps DEF RingInv, TheWaiting
  <2>4. Sent'
    BY <1>1 DEF RingInv, Sent
  <2> QED BY <1>1, <2>2, <2>3, <2>4 DEF TheWaiting
<1> QED BY <1>1, <1>2, <1>4, <1>5 DEF RingInv

\* A step that leaves the ring and the threads alone.
LEMMA StillHolds ==
    ASSUME RingInv, RingTypes', clean' => clean /\ Lifecycle',
           UNCHANGED <<mode, Indices, buffer, proc, dispatched, ready, issued>>
    PROVE  RingInv'
<1>1. /\ mode' = mode /\ hold_idx' = hold_idx /\ write_idx' = write_idx /\ proc_idx' = proc_idx
      /\ read_idx' = read_idx /\ buffer' = buffer /\ Given' = Given /\ ready' = ready /\ dispatched' = dispatched
      /\ proc' = proc /\ issued' = issued
  BY DEF Indices, Given
<1>2. Recoverable' <=> Recoverable
  BY <1>1 DEF Recoverable
<1>3. (TheRing' <=> TheRing) /\ (TheKept' <=> TheKept) /\ (TheWaiting' <=> TheWaiting)
  BY <1>1 DEF TheRing, TheKept, TheWaiting
<1>4. Sent' <=> Sent
  BY <1>1 DEF Sent
<1> QED BY <1>1, <1>2, <1>3, <1>4 DEF RingInv

\* What a step that keeps the mode keeps of the types.
LEMMA TypesStay ==
    ASSUME RingTypes, UNCHANGED mode
    PROVE  Slots' = Slots /\ Logs' = Logs /\ ProcType(mode)' = ProcType(mode)
BY ModeIs DEF Slots, Logs, BUFFER_LEN

\* The types after a step of the ring that changes only the threads.
LEMMA WalkTypes ==
    ASSUME RingTypes, UNCHANGED <<mode, Indices, buffer, Life, dispatched, ready, clean, issued>>,
           proc' \in [Procs -> ProcType(mode')]
    PROVE  RingTypes'
<1>1. Slots' = Slots /\ Logs' = Logs
  BY TypesStay
<1>2. proc' \in [Procs -> ProcType(mode)']
  OBVIOUS
<1> QED BY <1>1, <1>2 DEF RingTypes, Indices, Life

\* Slots compared are counters compared.
LEMMA SlotsCompared ==
    ASSUME RingTypes, TheRing, Lifecycle
    PROVE  /\ Slot(hold_idx) = Slot(write_idx) <=> hold_idx = write_idx
           /\ Slot(proc_idx) = Slot(write_idx) <=> proc_idx = write_idx
           /\ Slot(read_idx) = Slot(proc_idx) <=> read_idx = proc_idx
           /\ Slot(write_idx) = Slot(read_idx) <=> write_idx = read_idx
           /\ Slot(hold_idx + 1) = Slot(read_idx) <=> hold_idx + 1 = read_idx + mode.len
           /\ read_idx <= proc_idx /\ proc_idx <= write_idx /\ write_idx <= hold_idx
           /\ hold_idx < read_idx + mode.len
<1>1. /\ hold_idx \in Nat /\ write_idx \in Nat /\ proc_idx \in Nat /\ read_idx \in Nat
      /\ read_idx <= proc_idx /\ proc_idx <= write_idx /\ write_idx <= hold_idx
      /\ hold_idx < read_idx + mode.len
  BY DEF RingTypes, TheRing, Ring, Order
<1>2. /\ mode.len \in Nat /\ mode.len > 1 /\ \A i \in Nat : Slot(i) = Pos(i, mode)
  BY ModeIs
<1>3. \A i, j \in read_idx .. hold_idx : i # j => Pos(i, mode) # Pos(j, mode)
  BY <1>1, <1>2, Window
<1>4. {hold_idx, write_idx, proc_idx, read_idx} \subseteq read_idx .. hold_idx
  BY <1>1
<1>5. Slot(hold_idx + 1) = Slot(read_idx) <=> hold_idx + 1 = read_idx + mode.len
  <2>1. ASSUME hold_idx + 1 # read_idx + mode.len PROVE Slot(hold_idx + 1) # Slot(read_idx)
    <3>1. read_idx < hold_idx + 1 /\ hold_idx + 1 < read_idx + mode.len /\ hold_idx + 1 \in Nat
      BY <1>1, <1>2, <2>1
    <3> QED BY <1>1, <1>2, <3>1, Positions
  <2>2. ASSUME hold_idx + 1 = read_idx + mode.len PROVE Slot(hold_idx + 1) = Slot(read_idx)
    <3> DEFINE L == mode.len
               i == read_idx
    <3>1. L \in Nat /\ L > 0 /\ i \in Nat /\ hold_idx + 1 = i + L
      BY <1>1, <1>2, <2>2
    <3>2. Slot(read_idx) = i % L /\ Slot(hold_idx + 1) = (i + L) % L
      BY <2>2 DEF Slot, BUFFER_LEN
    <3> HIDE DEF L, i
    <3>3. (i % L) \in 0 .. L - 1
      BY <3>1, DivMod
    <3>4. ((i % L) + L) % L = i % L
      BY <3>1, <3>3, ModOfSum
    <3>5. ((i % L) + L) % L = (i + L) % L
      BY <3>1, ModSum
    <3> QED BY <3>2, <3>4, <3>5
  <2> QED BY <2>1, <2>2
<1> QED BY <1>1, <1>2, <1>3, <1>4, <1>5

\* Everything but where the threads are.
Still == UNCHANGED <<mode, Indices, buffer, Life, issued, dispatched, ready, clean>>

\* The places where a thread owns no slot.
Apart == Places \ (Filling \cup Dispatching \cup {"idle", "joinable"})

\* A step that moves a thread, and nothing else, among those places or to the end.
LEMMA ThreadWalks ==
    ASSUME RingInv, clean, Still, NEW x \in Procs, proc[x].pc \in Apart,
           proc' \in [Procs -> ProcType(mode')], Others(proc, proc', x),
           proc'[x].pc \in Apart \/ (proc'[x].pc = "idle" /\ x \in Threads),
           proc'[x].pc \in Making => proc[x].pc \in Making /\ proc'[x].log = proc[x].log,
           x = Async => proc'[x].pc \in Processing,
           x \in Threads /\ mode.type = "ASYNC" => proc'[x].pc \notin Processing,
           Recoverable =>
             /\ Loaded(proc'[x], mode, hold_idx, write_idx, proc_idx, read_idx, buffer, proc)
             /\ write_idx < hold_idx /\ buffer[Pos(write_idx, mode)].mark = "READY" /\ Moves(proc[x], write_idx) =>
                  Moves(proc'[x], write_idx)
             /\ mode.type = "SYNC" /\ proc_idx < write_idx /\ Works(proc[x], proc_idx) => Works(proc'[x], proc_idx)
    PROVE  RingInv'
<1>1. RingTypes /\ Lifecycle
  BY DEF RingInv
<1>2. /\ UNCHANGED <<mode, Indices, buffer, dispatched, ready>> /\ issued' = issued
      /\ UNCHANGED <<channel_state, logger_state, ctl>> /\ UNCHANGED <<write_idx, read_idx>>
  BY DEF Still, Life, Indices
<1>3. RingTypes'
  BY <1>1, WalkTypes DEF Still
<1>4. Lifecycle'
  BY <1>1, <1>2, LifecycleStays DEF Apart, At
<1>5. issued <= issued'
  BY <1>1, <1>2, LogRingAssumption DEF RingTypes
<1>6. {proc[x].pc, proc'[x].pc} \cap (Filling \cup Dispatching) = {}
  BY DEF Apart, Filling, Dispatching
<1> QED BY <1>2, <1>3, <1>4, <1>5, <1>6, WalkHolds

\* One lemma for each action of the ring.
LEMMA HoldLoadHolds ==
    ASSUME RingInv, clean, NEW t \in Threads, HoldLoad(t) PROVE RingInv'
<1> USE ProcsAre DEF At
<1>1. RingTypes /\ Lifecycle /\ Still /\ proc[t].pc = "hold_load" /\ mode' = mode
  BY DEF RingInv, HoldLoad, Still
<1>2. Load(t, "hold_full", hold_idx)
  BY <1>1 DEF HoldLoad, Lifecycle
<1>3. "hold_full" \in Places /\ hold_idx \in Nat
  BY <1>1 DEF RingTypes, Places, Making
<1>4. /\ proc' \in [Procs -> ProcType(mode')] /\ Others(proc, proc', t)
      /\ proc'[t].pc = "hold_full" /\ proc'[t].at = hold_idx /\ proc'[t].log = proc[t].log
  BY <1>1, <1>2, <1>3, Loading
<1>5. /\ Loaded(proc'[t], mode, hold_idx, write_idx, proc_idx, read_idx, buffer, proc)
      /\ ~Moves(proc[t], write_idx) /\ ~Works(proc[t], proc_idx)
  BY <1>1, <1>3, <1>4 DEF Loaded, Moves, Works, Pushing, Dispatching
<1>6. /\ proc[t].pc \in Apart /\ proc'[t].pc \in Apart /\ proc'[t].pc \in Making /\ proc[t].pc \in Making
      /\ proc'[t].pc \notin Processing /\ t # Async
  BY <1>1, <1>4 DEF Apart, Places, Making, Filling, Dispatching, Processing
<1> QED BY <1>1, <1>4, <1>5, <1>6, ThreadWalks

LEMMA HoldFullHolds ==
    ASSUME RingInv, clean, NEW t \in Threads, HoldFull(t) PROVE RingInv'
<1> USE ProcsAre DEF At
<1> DEFINE i == proc[t].at
<1>1. RingTypes /\ Lifecycle /\ Still /\ proc[t].pc = "hold_full" /\ mode' = mode /\ i \in Nat
  BY DEF RingInv, HoldFull, Still, RingTypes, ProcType
<1>2. /\ ~Moves(proc[t], write_idx) /\ ~Works(proc[t], proc_idx) /\ t # Async
      /\ proc[t].pc \in Apart /\ proc[t].pc \in Making
      /\ \A pc \in {"hold_load", "hold_cas"} : pc \in Places /\ pc \in Apart /\ pc \notin Processing
  BY <1>1 DEF Moves, Works, Pushing, Apart, Places, Making, Filling, Dispatching, Processing
<1>3. CASE Goto(t, "hold_load")
  <2>1. /\ proc' \in [Procs -> ProcType(mode')] /\ Others(proc, proc', t)
        /\ proc'[t].pc = "hold_load" /\ proc'[t].log = proc[t].log
    BY <1>1, <1>2, <1>3, Going
  <2>2. Loaded(proc'[t], mode, hold_idx, write_idx, proc_idx, read_idx, buffer, proc)
    BY <2>1 DEF Loaded
  <2> QED BY <1>1, <1>2, <2>1, <2>2, ThreadWalks
<1>4. CASE Slot(i + 1) # Slot(read_idx) /\ Load(t, "hold_cas", i)
  <2>1. /\ proc' \in [Procs -> ProcType(mode')] /\ Others(proc, proc', t)
        /\ proc'[t].pc = "hold_cas" /\ proc'[t].at = i /\ proc'[t].log = proc[t].log
    BY <1>1, <1>2, <1>4, Loading
  <2>2. ASSUME Recoverable
        PROVE  Loaded(proc'[t], mode, hold_idx, write_idx, proc_idx, read_idx, buffer, proc)
    <3>1. TheRing
      BY <2>2 DEF RingInv
    <3>2. i <= hold_idx
      BY <1>1, <3>1 DEF TheRing, Ring, Loads, Loaded
    <3>3. i = hold_idx => hold_idx + 1 < read_idx + mode.len
      <4>1. i = hold_idx => hold_idx + 1 # read_idx + mode.len
        BY <1>1, <1>4, <3>1, SlotsCompared
      <4>2. hold_idx < read_idx + mode.len /\ hold_idx \in Nat /\ read_idx \in Nat /\ mode.len \in Nat
        BY <1>1, <3>1, ModeIs, SlotsCompared DEF RingTypes
      <4> QED BY <4>1, <4>2
    <3> QED BY <2>1, <3>2, <3>3 DEF Loaded
  <2> QED BY <1>1, <1>2, <2>1, <2>2, ThreadWalks
<1> QED BY <1>3, <1>4 DEF HoldFull

\* A step that takes a slot.
LEMMA Taking ==
    ASSUME RingTypes, UNCHANGED mode, NEW x \in Procs, NEW pc \in Places, NEW s \in Slots, NEW i \in Nat,
           proc' = [proc EXCEPT ![x].pc = pc, ![x].at = i, ![x].slot = s]
    PROVE  /\ proc' \in [Procs -> ProcType(mode')] /\ Others(proc, proc', x)
           /\ proc'[x].pc = pc /\ proc'[x].slot = s /\ proc'[x].log = proc[x].log
<1> DEFINE v == [proc[x] EXCEPT !.pc = pc, !.at = i, !.slot = s]
<1>1. proc \in [Procs -> ProcType(mode)]
  BY DEF RingTypes
<1>2. proc[x] \in ProcType(mode)
  BY <1>1
<1>3. proc' = [proc EXCEPT ![x] = v]
  BY <1>1
<1>4. v \in ProcType(mode) /\ v.pc = pc /\ v.slot = s /\ v.log = proc[x].log
  BY <1>2, ModeIs DEF ProcType
<1> HIDE DEF v
<1> QED BY <1>1, <1>3, <1>4 DEF Others

\* The shape of a thread's step: nothing but the ring and where the threads are.
LEMMA StepTypes ==
    ASSUME RingTypes, UNCHANGED <<mode, Life, issued>>, clean' \in BOOLEAN,
           hold_idx' \in Nat, write_idx' \in Nat, proc_idx' \in Nat, read_idx' \in Nat,
           buffer' \in [Slots -> [mark : {"INVALID", "HOLD", "READY"}, log : Logs]],
           proc' \in [Procs -> ProcType(mode')], dispatched' \in Seq(Logs), ready' \subseteq Logs
    PROVE  RingTypes'
<1>1. Slots' = Slots /\ Logs' = Logs
  BY TypesStay
<1>2. proc' \in [Procs -> ProcType(mode)']
  OBVIOUS
<1> QED BY <1>1, <1>2 DEF RingTypes, Life

\* A failed compare-and-swap loaded a value that is no longer there.
LEMMA NotSwapped ==
    ASSUME NEW i, NEW x, ~Swapped(i, x) PROVE proc[x].at # i
BY DEF Swapped

LEMMA HoldCasHolds ==
    ASSUME RingInv, clean, NEW t \in Threads, HoldCas(t) PROVE RingInv'
<1> USE ProcsAre DEF At
<1>1. RingTypes /\ Lifecycle /\ proc[t].pc = "hold_cas" /\ mode' = mode /\ hold_idx \in Nat
  BY DEF RingInv, HoldCas, RingTypes
<1>2. /\ ~Moves(proc[t], write_idx) /\ ~Works(proc[t], proc_idx) /\ t # Async
      /\ proc[t].pc \in Apart /\ proc[t].pc \in Making
      /\ "hold_load" \in Places /\ "hold_load" \in Apart /\ "hold_load" \notin Processing
      /\ "hold_mark" \in Places /\ "hold_mark" \in Making /\ "hold_mark" \notin Processing
  BY <1>1 DEF Moves, Works, Pushing, Apart, Places, Making, Filling, Dispatching, Processing
<1>3. CASE Goto(t, "hold_load") /\ UNCHANGED <<hold_idx, clean>>
  <2>1. /\ proc' \in [Procs -> ProcType(mode')] /\ Others(proc, proc', t)
        /\ proc'[t].pc = "hold_load" /\ proc'[t].log = proc[t].log
    BY <1>1, <1>2, <1>3, Going
  <2>2. Loaded(proc'[t], mode, hold_idx, write_idx, proc_idx, read_idx, buffer, proc)
    BY <2>1 DEF Loaded
  <2>3. Still
    BY <1>3 DEF HoldCas, Still, Indices
  <2> QED BY <1>1, <1>2, <2>1, <2>2, <2>3, ThreadWalks
<1>4. CASE /\ hold_idx' = hold_idx + 1 /\ Clean(hold_idx, t)
           /\ proc' = [proc EXCEPT ![t].pc = "hold_mark", ![t].at = 0, ![t].slot = Slot(hold_idx)]
  <2> DEFINE o == 0
             s == Slot(hold_idx)
  <2>1. s = Pos(hold_idx, mode) /\ s \in Slots /\ o \in Nat
    BY <1>1, ModeIs, Positions
  <2>2. proc' = [proc EXCEPT ![t].pc = "hold_mark", ![t].at = o, ![t].slot = s]
    BY <1>4
  <2> HIDE DEF o, s
  <2>3. /\ proc' \in [Procs -> ProcType(mode')] /\ Others(proc, proc', t)
        /\ proc'[t].pc = "hold_mark" /\ proc'[t].slot = Pos(hold_idx, mode) /\ proc'[t].log = proc[t].log
    BY <1>1, <1>2, <2>1, <2>2, Taking
  <2>4. /\ UNCHANGED <<write_idx, proc_idx, read_idx, buffer, Life, issued, dispatched, ready>>
        /\ write_idx' = write_idx /\ proc_idx' = proc_idx /\ read_idx' = read_idx
        /\ buffer' = buffer /\ dispatched' = dispatched /\ ready' = ready /\ Given' = Given /\ issued' = issued
        /\ clean' = (clean /\ hold_idx = proc[t].at) /\ clean' \in BOOLEAN
    BY <1>4 DEF HoldCas, Clean, Given
  <2>5. RingTypes'
    BY <1>1, <1>4, <2>3, <2>4, StepTypes DEF RingTypes
  <2>6. ASSUME clean' PROVE Lifecycle'
    BY <1>1, <1>2, <2>3, <2>4, LifecycleStays DEF Life
  <2>7. ASSUME clean', Recoverable PROVE TheRing' /\ TheKept'
    <3>1. TheRing /\ TheKept /\ proc[t].at = hold_idx
      BY <2>4, <2>7 DEF RingInv
    <3>2. Ring(mode, hold_idx + 1, write_idx, proc_idx, read_idx, buffer, proc')
      BY <1>1, <2>3, <3>1, TheShape, HoldStep DEF TheRing
    <3>3. Kept(mode, hold_idx + 1, read_idx, buffer, proc', Given, ready)
      BY <1>1, <2>3, <3>1, TheShape, HoldKeeps DEF TheRing, TheKept
    <3> QED BY <1>1, <1>4, <2>4, <3>2, <3>3 DEF TheRing, TheKept
  <2>8. ASSUME clean', ~mode.shm PROVE TheWaiting' /\ Sent'
    <3>1. TheRing /\ TheWaiting /\ Sent /\ proc[t].at = hold_idx
      BY <2>4, <2>8 DEF RingInv, Recoverable
    <3>2. Waiting(mode, hold_idx + 1, read_idx, buffer, proc', Given, ready)
      BY <1>1, <2>3, <3>1, TheShape, HoldKeeps DEF TheRing, TheWaiting
    <3>3. Numbered(issued, ready, proc')
      <4>1. issued \in Nat
        BY <1>1 DEF RingTypes
      <4> QED BY <1>2, <2>3, <3>1, <4>1, NumberedStays DEF TheWaiting
    <3> QED BY <1>1, <1>4, <2>4, <3>1, <3>2, <3>3 DEF TheWaiting, Sent
  <2> QED BY <1>1, <2>5, <2>6, <2>7, <2>8 DEF RingInv, Recoverable
<1> QED BY <1>3, <1>4 DEF HoldCas

\* A slot is marked, or its log is written.
LEMMA Marking ==
    ASSUME RingTypes, NEW s \in Slots, NEW k \in {"INVALID", "HOLD", "READY"},
           buffer' = [buffer EXCEPT ![s].mark = k]
    PROVE  /\ buffer' \in [Slots -> [mark : {"INVALID", "HOLD", "READY"}, log : Logs]]
           /\ Elsewhere(buffer, buffer', s, mode) /\ buffer'[s].mark = k /\ buffer'[s].log = buffer[s].log
<1> DEFINE S == Slots
           v == [buffer[s] EXCEPT !.mark = k]
<1>1. buffer \in [S -> [mark : {"INVALID", "HOLD", "READY"}, log : Logs]] /\ S = 0 .. mode.len - 1
  BY ModeIs DEF RingTypes
<1> HIDE DEF S
<1>2. buffer[s] \in [mark : {"INVALID", "HOLD", "READY"}, log : Logs] /\ s \in S
  BY <1>1 DEF S
<1>3. v \in [mark : {"INVALID", "HOLD", "READY"}, log : Logs] /\ v.mark = k /\ v.log = buffer[s].log
  BY <1>2
<1>4. buffer' = [buffer EXCEPT ![s] = v]
  BY <1>1
<1> HIDE DEF v
<1>5. buffer' \in [S -> [mark : {"INVALID", "HOLD", "READY"}, log : Logs]] /\ buffer'[s] = v
  BY <1>1, <1>2, <1>3, <1>4
<1>6. \A j \in S : j # s => buffer'[j] = buffer[j]
  BY <1>1, <1>4
<1> QED BY <1>1, <1>3, <1>5, <1>6 DEF Elsewhere, S

LEMMA Writing ==
    ASSUME RingTypes, NEW s \in Slots, NEW l \in Logs, buffer' = [buffer EXCEPT ![s].log = l]
    PROVE  /\ buffer' \in [Slots -> [mark : {"INVALID", "HOLD", "READY"}, log : Logs]]
           /\ Elsewhere(buffer, buffer', s, mode) /\ buffer'[s].mark = buffer[s].mark /\ buffer'[s].log = l
<1> DEFINE S == Slots
           v == [buffer[s] EXCEPT !.log = l]
<1>1. buffer \in [S -> [mark : {"INVALID", "HOLD", "READY"}, log : Logs]] /\ S = 0 .. mode.len - 1
  BY ModeIs DEF RingTypes
<1> HIDE DEF S
<1>2. buffer[s] \in [mark : {"INVALID", "HOLD", "READY"}, log : Logs] /\ s \in S
  BY <1>1 DEF S
<1>3. v \in [mark : {"INVALID", "HOLD", "READY"}, log : Logs] /\ v.mark = buffer[s].mark /\ v.log = l
  BY <1>2
<1>4. buffer' = [buffer EXCEPT ![s] = v]
  BY <1>1
<1> HIDE DEF v
<1>5. buffer' \in [S -> [mark : {"INVALID", "HOLD", "READY"}, log : Logs]] /\ buffer'[s] = v
  BY <1>1, <1>2, <1>3, <1>4
<1>6. \A j \in S : j # s => buffer'[j] = buffer[j]
  BY <1>1, <1>4
<1> QED BY <1>1, <1>3, <1>5, <1>6 DEF Elsewhere, S

\* HoldMark, and the step of PushChannel that goes on, leave the slot held.
LEMMA FillHolds ==
    ASSUME RingInv, clean, NEW t \in Threads,
           UNCHANGED <<mode, Indices, Life, issued, dispatched, ready, clean>>,
           proc[t].pc \in Filling, proc' \in [Procs -> ProcType(mode')], Others(proc, proc', t),
           proc'[t].pc \in {"push", "push_mark"}, proc'[t].slot = proc[t].slot, proc'[t].log = proc[t].log,
           buffer' \in [Slots -> [mark : {"INVALID", "HOLD", "READY"}, log : Logs]],
           Elsewhere(buffer, buffer', proc[t].slot, mode),
           Recoverable => buffer'[proc[t].slot].mark = "HOLD",
           proc'[t].pc = "push_mark" => buffer'[proc[t].slot].log = proc[t].log
    PROVE  RingInv'
<1> USE ProcsAre DEF At
<1>1. /\ RingTypes /\ Lifecycle /\ mode' = mode /\ issued' = issued /\ dispatched' = dispatched
      /\ Given' = Given /\ ready' = ready /\ clean' = clean
      /\ hold_idx' = hold_idx /\ write_idx' = write_idx /\ proc_idx' = proc_idx /\ read_idx' = read_idx
  BY DEF RingInv, Given, Indices
<1>2. /\ t # Async /\ proc[t].pc \in Making /\ proc'[t].pc \in Making /\ proc'[t].pc \notin Processing
      /\ proc[t].pc # "idle" /\ proc'[t].pc # "joinable"
  BY DEF Making, Filling, Dispatching, Processing
<1>3. RingTypes'
  BY <1>1, StepTypes DEF RingTypes
<1>4. Lifecycle'
  BY <1>1, <1>2, LifecycleStays DEF Life
<1>5. ASSUME Recoverable PROVE TheRing' /\ TheKept'
  <2>1. TheRing /\ TheKept
    BY <1>5 DEF RingInv
  <2>2. Ring(mode, hold_idx, write_idx, proc_idx, read_idx, buffer', proc')
    BY <1>1, <1>5, <2>1, TheShape, FillStep DEF TheRing
  <2>3. Kept(mode, hold_idx, read_idx, buffer', proc', Given, ready)
    BY <1>1, <1>5, <2>1, TheShape, FillKeeps DEF TheRing, TheKept
  <2> QED BY <1>1, <2>2, <2>3 DEF TheRing, TheKept
<1>6. ASSUME ~mode.shm PROVE TheWaiting' /\ Sent'
  <2>1. TheRing /\ TheWaiting /\ Sent /\ Recoverable
    BY <1>6 DEF RingInv, Recoverable
  <2>2. Waiting(mode, hold_idx, read_idx, buffer', proc', Given, ready)
    BY <1>1, <2>1, TheShape, FillKeeps DEF TheRing, TheWaiting
  <2>3. Numbered(issued, ready, proc')
    <3>1. issued \in Nat
      BY <1>1 DEF RingTypes
    <3> QED BY <1>2, <2>1, <3>1, NumberedStays DEF TheWaiting
  <2> QED BY <1>1, <2>1, <2>2, <2>3 DEF TheWaiting, Sent
<1> QED BY <1>1, <1>3, <1>4, <1>5, <1>6 DEF RingInv, Recoverable

LEMMA HoldMarkHolds ==
    ASSUME RingInv, clean, NEW t \in Threads, HoldMark(t) PROVE RingInv'
<1> USE ProcsAre DEF At
<1>1. /\ RingTypes /\ proc[t].pc = "hold_mark" /\ mode' = mode
      /\ UNCHANGED <<mode, Indices, Life, issued, dispatched, ready, clean>>
  BY DEF RingInv, HoldMark
<1>2. proc[t].slot \in Slots
  BY <1>1, ModeIs DEF RingTypes, ProcType
<1>3. /\ buffer' \in [Slots -> [mark : {"INVALID", "HOLD", "READY"}, log : Logs]]
      /\ Elsewhere(buffer, buffer', proc[t].slot, mode) /\ buffer'[proc[t].slot].mark = "HOLD"
  BY <1>1, <1>2, Marking DEF HoldMark
<1>4. "push" \in Places /\ Goto(t, "push") /\ proc[t].pc \in Filling
  BY <1>1 DEF HoldMark, Places, Making, Filling
<1>5. /\ proc' \in [Procs -> ProcType(mode')] /\ Others(proc, proc', t)
      /\ proc'[t].pc = "push" /\ proc'[t].slot = proc[t].slot /\ proc'[t].log = proc[t].log
  BY <1>1, <1>4, Going
<1> QED BY <1>1, <1>3, <1>4, <1>5, FillHolds

LEMMA PushCheckHolds ==
    ASSUME RingInv, clean, NEW t \in Threads, PushCheck(t) PROVE RingInv'
<1> USE ProcsAre DEF At
<1>1. /\ RingTypes /\ Lifecycle /\ proc[t].pc = "push" /\ mode' = mode
      /\ UNCHANGED <<mode, Indices, Life, issued, dispatched, ready, clean>>
  BY DEF RingInv, PushCheck
<1>2. proc[t].slot \in Slots /\ proc[t].log \in Logs
  BY <1>1, ModeIs DEF RingTypes, ProcType
<1>3. /\ buffer' \in [Slots -> [mark : {"INVALID", "HOLD", "READY"}, log : Logs]]
      /\ Elsewhere(buffer, buffer', proc[t].slot, mode)
      /\ buffer'[proc[t].slot].mark = buffer[proc[t].slot].mark /\ buffer'[proc[t].slot].log = proc[t].log
  BY <1>1, <1>2, Writing DEF PushCheck
<1>4. "push_mark" \in Places /\ Goto(t, "push_mark") /\ proc[t].pc \in Filling
  BY <1>1 DEF PushCheck, Lifecycle, Places, Making, Filling
<1>5. /\ proc' \in [Procs -> ProcType(mode')] /\ Others(proc, proc', t)
      /\ proc'[t].pc = "push_mark" /\ proc'[t].slot = proc[t].slot /\ proc'[t].log = proc[t].log
  BY <1>1, <1>4, Going
<1>6. Recoverable => buffer[proc[t].slot].mark = "HOLD"
  BY <1>1, <1>4 DEF RingInv, TheRing, Ring, Held, Owns
<1> QED BY <1>1, <1>3, <1>4, <1>5, <1>6, FillHolds

LEMMA PushMarkHolds ==
    ASSUME RingInv, clean, NEW t \in Threads, PushMark(t) PROVE RingInv'
<1> USE ProcsAre DEF At
<1>1. /\ RingTypes /\ Lifecycle /\ proc[t].pc = "push_mark" /\ mode' = mode
      /\ UNCHANGED <<mode, Indices, Life, issued, dispatched, clean>> /\ ready' = ready \cup {proc[t].log}
      /\ issued' = issued /\ dispatched' = dispatched /\ Given' = Given /\ clean' = clean
      /\ hold_idx' = hold_idx /\ write_idx' = write_idx /\ proc_idx' = proc_idx /\ read_idx' = read_idx
  BY DEF RingInv, PushMark, Indices, Given
<1>2. proc[t].slot \in Slots /\ proc[t].log \in Logs
  BY <1>1, ModeIs DEF RingTypes, ProcType
<1>3. /\ buffer' \in [Slots -> [mark : {"INVALID", "HOLD", "READY"}, log : Logs]]
      /\ Elsewhere(buffer, buffer', proc[t].slot, mode)
      /\ buffer'[proc[t].slot].mark = "READY" /\ buffer'[proc[t].slot].log = buffer[proc[t].slot].log
  BY <1>1, <1>2, Marking DEF PushMark
<1>4. "push_load" \in Places /\ "push_load" \notin Processing /\ Begin(t, "push_load") /\ t # Async
  BY <1>1 DEF PushMark, Places, Pushing, Processing, Dispatching
<1>5. /\ proc' \in [Procs -> ProcType(mode')] /\ Others(proc, proc', t) /\ proc'[t].pc = "push_load"
  BY <1>1, <1>4, Beginning
<1>6. RingTypes'
  BY <1>1, <1>2, <1>3, <1>5, StepTypes DEF RingTypes
<1>7. Lifecycle'
  BY <1>1, <1>4, <1>5, LifecycleStays DEF Life
<1>8. ASSUME Recoverable PROVE TheRing' /\ TheKept'
  <2>1. TheRing /\ TheKept
    BY <1>8 DEF RingInv
  <2>2. Ring(mode, hold_idx, write_idx, proc_idx, read_idx, buffer', proc')
    BY <1>1, <1>3, <1>5, <2>1, TheShape, ReadyStep DEF TheRing
  <2>3. Kept(mode, hold_idx, read_idx, buffer', proc', Given, ready')
    BY <1>1, <1>3, <1>5, <2>1, TheShape, ReadyKeeps DEF TheRing, TheKept
  <2> QED BY <1>1, <2>2, <2>3 DEF TheRing, TheKept
<1>9. ASSUME ~mode.shm PROVE TheWaiting' /\ Sent'
  <2>1. TheRing /\ TheWaiting /\ Sent
    BY <1>9 DEF RingInv, Recoverable
  <2>2. Waiting(mode, hold_idx, read_idx, buffer', proc', Given, ready') /\ Numbered(issued, ready', proc')
    BY <1>1, <1>3, <1>5, <2>1, TheShape, ReadyKeeps DEF TheRing, TheWaiting
  <2> QED BY <1>1, <2>1, <2>2 DEF TheWaiting, Sent
<1> QED BY <1>1, <1>6, <1>7, <1>8, <1>9 DEF RingInv, Recoverable

LEMMA PushLoadHolds ==
    ASSUME RingInv, clean, NEW t \in Threads, PushLoad(t) PROVE RingInv'
<1> USE ProcsAre DEF At
<1>1. RingTypes /\ Lifecycle /\ Still /\ proc[t].pc = "push_load" /\ mode' = mode /\ Load(t, "push_test", write_idx)
  BY DEF RingInv, PushLoad, Still
<1>2. "push_test" \in Places /\ write_idx \in Nat
  BY <1>1 DEF RingTypes, Places, Pushing
<1>3. /\ proc' \in [Procs -> ProcType(mode')] /\ Others(proc, proc', t)
      /\ proc'[t].pc = "push_test" /\ proc'[t].at = write_idx
  BY <1>1, <1>2, Loading
<1>4. /\ Loaded(proc'[t], mode, hold_idx, write_idx, proc_idx, read_idx, buffer, proc)
      /\ Moves(proc'[t], write_idx) /\ Works(proc'[t], proc_idx)
  BY <1>2, <1>3 DEF Loaded, Moves, Works, Pushing
<1>5. /\ proc[t].pc \in Apart /\ proc'[t].pc \in Apart /\ proc'[t].pc \notin Making
      /\ proc'[t].pc \notin Processing /\ t # Async
  BY <1>1, <1>3 DEF Apart, Places, Making, Pushing, Filling, Dispatching, Processing
<1> QED BY <1>1, <1>3, <1>4, <1>5, ThreadWalks

LEMMA PushTestHolds ==
    ASSUME RingInv, clean, NEW t \in Threads, PushTest(t) PROVE RingInv'
<1> USE ProcsAre DEF At
<1> DEFINE i == proc[t].at
<1>1. RingTypes /\ Lifecycle /\ Still /\ proc[t].pc = "push_test" /\ mode' = mode /\ i \in Nat /\ write_idx \in Nat
  BY DEF RingInv, PushTest, Still, RingTypes, ProcType
<1>2. /\ t # Async /\ proc[t].pc \in Apart
      /\ \A pc \in {"push_done", "push_cas"} :
           pc \in Places /\ pc \in Apart /\ pc \notin Processing /\ pc \in Pushing /\ pc \notin Making
  BY <1>1 DEF Pushing, Apart, Places, Making, Filling, Dispatching, Processing
<1>3. CASE /\ Goto(t, "push_done")
           /\ Slot(i) = Slot(hold_idx) \/ buffer[Slot(i)].mark # "READY"
  <2>1. proc' \in [Procs -> ProcType(mode')] /\ Others(proc, proc', t) /\ proc'[t].pc = "push_done"
    BY <1>1, <1>2, <1>3, Going
  <2>2. Loaded(proc'[t], mode, hold_idx, write_idx, proc_idx, read_idx, buffer, proc) /\ Works(proc'[t], proc_idx)
    BY <1>2, <2>1 DEF Loaded, Works
  <2>3. Recoverable /\ write_idx < hold_idx /\ buffer[Pos(write_idx, mode)].mark = "READY" => i # write_idx
    <3> SUFFICES ASSUME Recoverable, write_idx < hold_idx, buffer[Pos(write_idx, mode)].mark = "READY", i = write_idx
                 PROVE  FALSE
      OBVIOUS
    <3>1. Slot(write_idx) = Slot(hold_idx)
      BY <1>1, <1>3, ModeIs
    <3>2. hold_idx = write_idx /\ hold_idx \in Nat
      BY <1>1, <3>1, SlotsCompared DEF RingInv, RingTypes
    <3> QED BY <3>2
  <2>4. Recoverable /\ write_idx < hold_idx /\ buffer[Pos(write_idx, mode)].mark = "READY" => ~Moves(proc[t], write_idx)
    BY <1>1, <2>3 DEF Moves
  <2> QED BY <1>1, <1>2, <2>1, <2>2, <2>4, ThreadWalks
<1>4. CASE Slot(i) # Slot(hold_idx) /\ buffer[Slot(i)].mark = "READY" /\ Load(t, "push_cas", i)
  <2>1. /\ proc' \in [Procs -> ProcType(mode')] /\ Others(proc, proc', t)
        /\ proc'[t].pc = "push_cas" /\ proc'[t].at = i
    BY <1>1, <1>2, <1>4, Loading
  <2>2. ASSUME Recoverable
        PROVE  Loaded(proc'[t], mode, hold_idx, write_idx, proc_idx, read_idx, buffer, proc)
    <3>1. TheRing
      BY <2>2 DEF RingInv
    <3>2. i <= write_idx
      BY <1>1, <3>1 DEF TheRing, Ring, Loads, Loaded
    <3>3. i = write_idx => write_idx # hold_idx /\ buffer[Pos(write_idx, mode)].mark = "READY"
      BY <1>1, <1>4, ModeIs
    <3>4. write_idx <= hold_idx /\ hold_idx \in Nat
      BY <1>1, <3>1, SlotsCompared DEF RingTypes
    <3>5. i = write_idx => write_idx < hold_idx
      BY <1>1, <3>3, <3>4
    <3> QED BY <2>1, <3>2, <3>3, <3>5 DEF Loaded
  <2>3. Works(proc'[t], proc_idx) /\ (Moves(proc[t], write_idx) => Moves(proc'[t], write_idx))
    BY <1>1, <1>2, <2>1 DEF Works, Moves
  <2> QED BY <1>1, <1>2, <2>1, <2>2, <2>3, ThreadWalks
<1> QED BY <1>3, <1>4 DEF PushTest

LEMMA PushCasHolds ==
    ASSUME RingInv, clean, NEW t \in Threads, PushCas(t) PROVE RingInv'
<1> USE ProcsAre DEF At
<1>1. /\ RingTypes /\ Lifecycle /\ proc[t].pc = "push_cas" /\ mode' = mode /\ write_idx \in Nat
      /\ Goto(t, "push_load")
  BY DEF RingInv, PushCas, RingTypes, Lifecycle
<1>2. /\ t # Async /\ proc[t].pc \in Apart /\ proc[t].pc \notin Filling
      /\ "push_load" \in Places /\ "push_load" \in Apart /\ "push_load" \notin Processing
      /\ "push_load" \in Pushing /\ "push_load" \notin Making
  BY <1>1 DEF Pushing, Apart, Places, Making, Filling, Dispatching, Processing
<1>3. proc' \in [Procs -> ProcType(mode')] /\ Others(proc, proc', t) /\ proc'[t].pc = "push_load"
  BY <1>1, <1>2, Going
<1>4. CASE UNCHANGED <<write_idx, clean>>
  <2>1. /\ Loaded(proc'[t], mode, hold_idx, write_idx, proc_idx, read_idx, buffer, proc)
        /\ Moves(proc'[t], write_idx) /\ Works(proc'[t], proc_idx)
    BY <1>2, <1>3 DEF Loaded, Moves, Works
  <2>2. Still
    BY <1>4 DEF PushCas, Still, Indices
  <2> QED BY <1>1, <1>2, <1>3, <2>1, <2>2, ThreadWalks
<1>5. CASE write_idx' = write_idx + 1 /\ Clean(write_idx, t)
  <2>1. /\ UNCHANGED <<hold_idx, proc_idx, read_idx, buffer, Life, issued, dispatched, ready>>
        /\ hold_idx' = hold_idx /\ proc_idx' = proc_idx /\ read_idx' = read_idx
        /\ buffer' = buffer /\ dispatched' = dispatched /\ ready' = ready /\ Given' = Given /\ issued' = issued
        /\ clean' = (clean /\ write_idx = proc[t].at) /\ clean' \in BOOLEAN
    BY <1>5 DEF PushCas, Clean, Given
  <2>2. RingTypes'
    BY <1>1, <1>3, <1>5, <2>1, StepTypes DEF RingTypes
  <2>3. Lifecycle'
    <3>1. ~At(Async, "joinable")
      BY <1>1 DEF Lifecycle
    <3> QED BY <1>1, <1>2, <1>3, <2>1, <3>1, LifecycleStays DEF Life
  <2>4. {proc[t].pc, proc'[t].pc} \cap (Filling \cup {"proc_mark"}) = {}
    BY <1>1, <1>3 DEF Filling
  <2>5. ASSUME clean', Recoverable PROVE TheRing' /\ TheKept'
    <3>1. TheRing /\ TheKept /\ proc[t].at = write_idx
      BY <2>1, <2>5 DEF RingInv
    <3>2. Ring(mode, hold_idx, write_idx + 1, proc_idx, read_idx, buffer, proc')
      BY <1>1, <1>3, <3>1, TheShape, PushStep DEF TheRing
    <3>3. Kept(mode, hold_idx, read_idx, buffer, proc', Given, ready)
      BY <1>3, <2>4, <3>1, WalkKeeps DEF TheKept
    <3> QED BY <1>1, <1>5, <2>1, <3>2, <3>3 DEF TheRing, TheKept
  <2>6. ASSUME clean', ~mode.shm PROVE TheWaiting' /\ Sent'
    <3>1. TheWaiting /\ Sent
      BY <2>6 DEF RingInv
    <3>2. Waiting(mode, hold_idx, read_idx, buffer, proc', Given, ready)
      BY <1>3, <2>4, <3>1, WalkKeeps DEF TheWaiting
    <3>3. Numbered(issued, ready, proc')
      <4>1. issued \in Nat
        BY <1>1 DEF RingTypes
      <4> QED BY <1>2, <1>3, <3>1, <4>1, NumberedStays DEF TheWaiting
    <3> QED BY <1>1, <2>1, <3>1, <3>2, <3>3 DEF TheWaiting, Sent
  <2> QED BY <1>1, <2>2, <2>3, <2>5, <2>6 DEF RingInv, Recoverable
<1> QED BY <1>4, <1>5 DEF PushCas

LEMMA PushDoneHolds ==
    ASSUME RingInv, clean, NEW t \in Threads, PushDone(t) PROVE RingInv'
<1> USE ProcsAre DEF At
<1>1. RingTypes /\ Lifecycle /\ Still /\ proc[t].pc = "push_done" /\ mode' = mode /\ channel_state = "RUNNING"
  BY DEF RingInv, PushDone, Still, Lifecycle
<1>2. /\ t # Async /\ proc[t].pc \in Apart /\ ~Moves(proc[t], write_idx)
      /\ "proc_load" \in Places /\ "proc_load" \in Apart /\ "proc_load" \notin Making /\ "idle" \in Places
      /\ "idle" \notin Making /\ "idle" \notin Processing
  BY <1>1 DEF Moves, Pushing, Apart, Places, Making, Filling, Dispatching, Processing
<1>3. CASE mode.type = "SYNC" /\ Goto(t, "proc_load")
  <2>1. proc' \in [Procs -> ProcType(mode')] /\ Others(proc, proc', t) /\ proc'[t].pc = "proc_load"
    BY <1>1, <1>2, <1>3, Going
  <2>2. Loaded(proc'[t], mode, hold_idx, write_idx, proc_idx, read_idx, buffer, proc) /\ Works(proc'[t], proc_idx)
    BY <2>1 DEF Loaded, Works
  <2> QED BY <1>1, <1>2, <1>3, <2>1, <2>2, ThreadWalks
<1>4. CASE mode.type # "SYNC" /\ Begin(t, "idle")
  <2>1. proc' \in [Procs -> ProcType(mode')] /\ Others(proc, proc', t) /\ proc'[t].pc = "idle"
    BY <1>1, <1>2, <1>4, Beginning
  <2>2. Loaded(proc'[t], mode, hold_idx, write_idx, proc_idx, read_idx, buffer, proc)
    BY <2>1 DEF Loaded
  <2> QED BY <1>1, <1>2, <1>4, <2>1, <2>2, ThreadWalks
<1> QED BY <1>1, <1>3, <1>4 DEF PushDone

LEMMA LogStreamHolds ==
    ASSUME RingInv, clean, NEW t \in Threads, LogStream(t) PROVE RingInv'
<1> USE ProcsAre DEF At
<1> DEFINE l == <<t, issued + 1>>
           v == [Idle EXCEPT !.pc = "hold_load", !.log = l]
<1>1. /\ RingTypes /\ Lifecycle /\ proc[t].pc = "idle" /\ mode' = mode /\ issued' = issued + 1
      /\ issued \in Nat /\ issued' \in 1 .. mode.logs /\ mode.logs \in Nat
      /\ channel_state = "RUNNING" /\ logger_state = "RUNNING"
      /\ UNCHANGED <<mode, Indices, buffer, Life, dispatched, ready, clean>>
  BY ModeIs DEF RingInv, LogStream, RingTypes
<1>2. v \in ProcType(mode) /\ v.pc = "hold_load" /\ v.log = l
  <2>1. Idle \in ProcType(mode)
    BY <1>1, ModeIs DEF Idle, ProcType, Places
  <2>2. l \in Threads \X (1 .. mode.logs) /\ "hold_load" \in Places
    BY <1>1 DEF Places, Making
  <2> HIDE DEF l
  <2> QED BY <2>1, <2>2 DEF ProcType
<1>3. proc' = [proc EXCEPT ![t] = v]
  BY DEF LogStream
<1> HIDE DEF v
<1>4. proc' \in [Procs -> ProcType(mode)] /\ proc'[t] = v /\ Others(proc, proc', t)
  BY <1>1, <1>2, <1>3 DEF RingTypes, Others
<1>5. RingTypes'
  <2>1. Slots' = Slots /\ Logs' = Logs /\ ProcType(mode)' = ProcType(mode)
    BY <1>1, TypesStay
  <2> QED BY <1>1, <1>4, <2>1 DEF RingTypes, Indices, Life
<1>6. t # Async /\ "hold_load" \notin Processing /\ "hold_load" # "joinable"
  BY DEF Processing, Dispatching
<1>7. Lifecycle'
  BY <1>1, <1>2, <1>4, <1>6, LifecycleStays DEF Life, Indices
<1>8. /\ Loaded(proc'[t], mode, hold_idx, write_idx, proc_idx, read_idx, buffer, proc)
      /\ ~Moves(proc[t], write_idx) /\ ~Works(proc[t], proc_idx)
  BY <1>1, <1>2, <1>4 DEF Loaded, Moves, Works, Pushing, Dispatching
<1>9. {proc[t].pc, proc'[t].pc} \cap (Filling \cup Dispatching) = {}
  BY <1>1, <1>2, <1>4 DEF Filling, Dispatching
<1>10. issued < issued' /\ issued <= issued' /\ proc'[t].log = <<t, issued'>>
  BY <1>1, <1>2, <1>4
<1> QED BY <1>1, <1>4, <1>5, <1>7, <1>8, <1>9, <1>10, WalkHolds

\* The thread that processes: the channel's own, or the one that pushed.
LEMMA Processes ==
    ASSUME Lifecycle, NEW x \in Procs, proc[x].pc \in Processing
    PROVE  /\ mode.type = "ASYNC" => x = Async
           /\ mode.type = "SYNC" => x \in Threads /\ x # Async
           /\ x \in Threads => channel_state = "RUNNING" /\ mode.type # "ASYNC"
           /\ x = Async \/ x \in Threads
           /\ ~At(x, "idle")
           /\ mode.type = "SYNC" => ~At(Async, "joinable")
           /\ x = Async => ~At(Async, "joinable")
<1>1. proc[x].pc \notin {"idle", "joinable"} /\ "idle" \notin Processing
  BY DEF Processing, Dispatching
<1> QED BY <1>1, ProcsAre DEF Lifecycle, Procs, At

LEMMA ProcLoadHolds ==
    ASSUME RingInv, clean, NEW x \in Procs, ProcLoad(x) PROVE RingInv'
<1> USE DEF At
<1>1. /\ RingTypes /\ Lifecycle /\ Still /\ proc[x].pc = "proc_load" /\ mode' = mode
      /\ proc_idx \in Nat /\ write_idx \in Nat
  BY DEF RingInv, ProcLoad, Still, RingTypes
<1>2. /\ proc[x].pc \in Apart /\ proc[x].pc \in Processing /\ ~Moves(proc[x], write_idx)
      /\ \A pc \in {"proc_state", "proc_cas"} : pc \in Places /\ pc \in Apart /\ pc \in Processing /\ pc \notin Making
  BY <1>1 DEF Moves, Pushing, Apart, Places, Making, Filling, Dispatching, Processing
<1>3. x \in Threads /\ mode.type = "ASYNC" => FALSE
  BY <1>1, <1>2, Processes
<1>4. CASE Slot(proc_idx) = Slot(write_idx) /\ Goto(x, "proc_state")
  <2>1. proc' \in [Procs -> ProcType(mode')] /\ Others(proc, proc', x) /\ proc'[x].pc = "proc_state"
    BY <1>1, <1>2, <1>4, Going
  <2>2. Loaded(proc'[x], mode, hold_idx, write_idx, proc_idx, read_idx, buffer, proc)
    BY <2>1 DEF Loaded
  <2>3. Recoverable => ~(proc_idx < write_idx)
    BY <1>1, <1>4, SlotsCompared DEF RingInv
  <2> QED BY <1>1, <1>2, <1>3, <2>1, <2>2, <2>3, ThreadWalks
<1>5. CASE Slot(proc_idx) # Slot(write_idx) /\ Load(x, "proc_cas", proc_idx)
  <2>1. proc' \in [Procs -> ProcType(mode')] /\ Others(proc, proc', x) /\ proc'[x].pc = "proc_cas" /\ proc'[x].at = proc_idx
    BY <1>1, <1>2, <1>5, Loading
  <2>2. Recoverable => Loaded(proc'[x], mode, hold_idx, write_idx, proc_idx, read_idx, buffer, proc)
    <3>1. Recoverable => proc_idx <= write_idx
      BY <1>1, SlotsCompared DEF RingInv
    <3>2. proc_idx # write_idx
      BY <1>5
    <3> QED BY <1>1, <2>1, <3>1, <3>2 DEF Loaded
  <2>3. Works(proc'[x], proc_idx)
    BY <2>1 DEF Works
  <2> QED BY <1>1, <1>2, <1>3, <2>1, <2>2, <2>3, ThreadWalks
<1> QED BY <1>4, <1>5 DEF ProcLoad

LEMMA ProcCasHolds ==
    ASSUME RingInv, clean, NEW x \in Procs, ProcCas(x) PROVE RingInv'
<1> USE DEF At
<1>1. /\ RingTypes /\ Lifecycle /\ proc[x].pc = "proc_cas" /\ mode' = mode /\ proc_idx \in Nat
  BY DEF RingInv, ProcCas, RingTypes
<1>2. /\ proc[x].pc \in Apart /\ proc[x].pc \in Processing /\ ~Moves(proc[x], write_idx)
      /\ "proc_state" \in Places /\ "proc_state" \in Apart /\ "proc_state" \in Processing /\ "proc_state" \notin Making
      /\ "dispatch" \in Places /\ "dispatch" \in Processing /\ "dispatch" \notin Making
      /\ "dispatch" \notin Filling
  BY <1>1 DEF Moves, Pushing, Apart, Places, Making, Filling, Dispatching, Processing
<1>3. x \in Threads /\ mode.type = "ASYNC" => FALSE
  BY <1>1, <1>2, Processes
<1>4. CASE ~Swapped(proc_idx, x) /\ Goto(x, "proc_state") /\ UNCHANGED <<proc_idx, clean>>
  <2>1. proc' \in [Procs -> ProcType(mode')] /\ Others(proc, proc', x) /\ proc'[x].pc = "proc_state"
    BY <1>1, <1>2, <1>4, Going
  <2>2. Loaded(proc'[x], mode, hold_idx, write_idx, proc_idx, read_idx, buffer, proc)
    BY <2>1 DEF Loaded
  <2>3. ~Works(proc[x], proc_idx)
    BY <1>1, <1>4, NotSwapped DEF Works, Pushing, Dispatching
  <2>4. Still
    BY <1>4 DEF ProcCas, Still, Indices
  <2> QED BY <1>1, <1>2, <1>3, <2>1, <2>2, <2>3, <2>4, ThreadWalks
<1>5. CASE /\ proc_idx' = proc_idx + 1 /\ Clean(proc_idx, x)
           /\ proc' = [proc EXCEPT ![x].pc = "dispatch", ![x].at = 0, ![x].slot = Slot(proc_idx)]
  <2> DEFINE o == 0
             s == Slot(proc_idx)
  <2>1. s = Pos(proc_idx, mode) /\ s \in Slots /\ o \in Nat
    BY <1>1, ModeIs, Positions
  <2>2. proc' = [proc EXCEPT ![x].pc = "dispatch", ![x].at = o, ![x].slot = s]
    BY <1>5
  <2> HIDE DEF o, s
  <2>3. /\ proc' \in [Procs -> ProcType(mode')] /\ Others(proc, proc', x)
        /\ proc'[x].pc = "dispatch" /\ proc'[x].slot = Pos(proc_idx, mode)
    BY <1>1, <1>2, <2>1, <2>2, Taking
  <2>4. /\ UNCHANGED <<hold_idx, write_idx, read_idx, buffer, Life, issued, dispatched, ready>>
        /\ hold_idx' = hold_idx /\ write_idx' = write_idx /\ read_idx' = read_idx
        /\ buffer' = buffer /\ dispatched' = dispatched /\ ready' = ready /\ Given' = Given /\ issued' = issued
        /\ clean' = (clean /\ proc_idx = proc[x].at) /\ clean' \in BOOLEAN
    BY <1>5 DEF ProcCas, Clean, Given
  <2>5. RingTypes'
    BY <1>1, <1>5, <2>3, <2>4, StepTypes DEF RingTypes
  <2>6. Lifecycle'
    <3>1. proc'[x].pc # "joinable" /\ proc'[x].pc \in Processing
      BY <1>2, <2>3
    <3>2. At(Async, "joinable") => UNCHANGED <<write_idx, read_idx>>
      BY <2>4
    <3>3. UNCHANGED <<mode, channel_state, logger_state, ctl>> /\ ~At(x, "idle")
      BY <1>1, <2>4 DEF Life
    <3> QED BY <1>1, <1>3, <2>3, <3>1, <3>2, <3>3, LifecycleStays
  <2>7. {proc[x].pc, proc'[x].pc} \cap (Filling \cup {"proc_mark"}) = {}
    BY <1>1, <2>3 DEF Filling
  <2>8. ASSUME clean', Recoverable PROVE TheRing' /\ TheKept'
    <3>1. TheRing /\ TheKept /\ proc[x].at = proc_idx
      BY <2>4, <2>8 DEF RingInv
    <3>2. Ring(mode, hold_idx, write_idx, proc_idx + 1, read_idx, buffer, proc')
      BY <1>1, <2>3, <3>1, TheShape, TakeStep DEF TheRing
    <3>3. Kept(mode, hold_idx, read_idx, buffer, proc', Given, ready)
      BY <2>3, <2>7, <3>1, WalkKeeps DEF TheKept
    <3> QED BY <1>1, <1>5, <2>4, <3>2, <3>3 DEF TheRing, TheKept
  <2>9. ASSUME clean', ~mode.shm PROVE TheWaiting' /\ Sent'
    <3>1. TheWaiting /\ Sent
      BY <2>9 DEF RingInv
    <3>2. Waiting(mode, hold_idx, read_idx, buffer, proc', Given, ready)
      BY <2>3, <2>7, <3>1, WalkKeeps DEF TheWaiting
    <3>3. Numbered(issued, ready, proc')
      <4>1. issued \in Nat
        BY <1>1 DEF RingTypes
      <4>2. proc'[x].pc \notin Making /\ Others(proc, proc', x)
        BY <1>2, <2>3
      <4>3. Numbered(issued, ready, proc) /\ issued <= issued
        BY <3>1, <4>1 DEF TheWaiting
      <4> QED BY <4>1, <4>2, <4>3, NumberedStays
    <3> QED BY <1>1, <2>4, <3>1, <3>2, <3>3 DEF TheWaiting, Sent
  <2> QED BY <1>1, <2>5, <2>6, <2>8, <2>9 DEF RingInv, Recoverable
<1> QED BY <1>4, <1>5 DEF ProcCas

\* A log more in the sequence of those that were given.
LEMMA Appended ==
    ASSUME NEW S, NEW s \in Seq(S), NEW l \in S, NEW e, e = Append(s, l)
    PROVE  /\ e \in Seq(S) /\ Len(e) = Len(s) + 1 /\ Len(s) \in Nat
           /\ \A i \in 1 .. Len(s) : e[i] = s[i]
           /\ e[Len(s) + 1] = l
           /\ {e[i] : i \in 1 .. Len(e)} = {s[i] : i \in 1 .. Len(s)} \cup {l}
<1>1. /\ e \in Seq(S) /\ Len(e) = Len(s) + 1 /\ Len(s) \in Nat
      /\ \A i \in 1 .. Len(s) : e[i] = s[i]
      /\ e[Len(s) + 1] = l
  OBVIOUS
<1>2. ASSUME NEW x \in {e[i] : i \in 1 .. Len(e)} PROVE x \in {s[i] : i \in 1 .. Len(s)} \cup {l}
  <2>1. PICK i \in 1 .. Len(e) : x = e[i]
    OBVIOUS
  <2>2. CASE i \in 1 .. Len(s)
    BY <1>1, <2>1, <2>2
  <2>3. CASE i = Len(s) + 1
    BY <1>1, <2>1, <2>3
  <2> QED BY <1>1, <2>2, <2>3
<1>3. ASSUME NEW x \in {s[i] : i \in 1 .. Len(s)} \cup {l} PROVE x \in {e[i] : i \in 1 .. Len(e)}
  <2>1. CASE x = l
    <3>1. Len(s) + 1 \in 1 .. Len(e)
      BY <1>1
    <3> QED BY <1>1, <2>1, <3>1
  <2>2. CASE x \in {s[i] : i \in 1 .. Len(s)}
    <3>1. PICK i \in 1 .. Len(s) : x = s[i]
      BY <2>2
    <3>2. i \in 1 .. Len(e)
      BY <1>1
    <3> QED BY <1>1, <3>1, <3>2
  <2> QED BY <2>1, <2>2
<1> QED BY <1>1, <1>2, <1>3

LEMMA DispatchHolds ==
    ASSUME RingInv, clean, NEW x \in Procs, Dispatch(x) PROVE RingInv'
<1> USE DEF At
<1> DEFINE log == buffer[proc[x].slot].log
<1>1. /\ RingTypes /\ Lifecycle /\ proc[x].pc = "dispatch" /\ mode' = mode
      /\ UNCHANGED <<mode, Indices, buffer, Life, issued, ready, clean>>
      /\ issued' = issued /\ ready' = ready /\ clean' = clean /\ buffer' = buffer
      /\ hold_idx' = hold_idx /\ write_idx' = write_idx /\ proc_idx' = proc_idx /\ read_idx' = read_idx
      /\ Goto(x, "proc_mark") /\ dispatched' = Append(dispatched, log)
  BY DEF RingInv, Dispatch, Indices
<1>2. /\ proc[x].pc \in Processing
      /\ "proc_mark" \in Places /\ "proc_mark" \in Processing /\ "proc_mark" \notin Making
  BY <1>1 DEF Places, Making, Dispatching, Processing
<1>3. /\ proc' \in [Procs -> ProcType(mode')] /\ Others(proc, proc', x)
      /\ proc'[x].pc = "proc_mark" /\ proc'[x].slot = proc[x].slot
  BY <1>1, <1>2, Going
<1>4. log \in Logs
  <2>1. proc[x].slot \in Slots
    BY <1>1, ModeIs DEF RingTypes, ProcType
  <2>2. buffer[proc[x].slot] \in [mark : {"INVALID", "HOLD", "READY"}, log : Logs]
    BY <1>1, <2>1 DEF RingTypes
  <2> QED BY <2>2
<1> HIDE DEF log
<1>5. /\ dispatched \in Seq(Logs) /\ dispatched' \in Seq(Logs)
      /\ Len(dispatched') = Len(dispatched) + 1 /\ Len(dispatched) \in Nat
      /\ \A i \in 1 .. Len(dispatched) : dispatched'[i] = dispatched[i]
      /\ dispatched'[Len(dispatched) + 1] = log
      /\ Given' = Given \cup {log}
  <2>1. dispatched \in Seq(Logs)
    BY <1>1 DEF RingTypes
  <2> QED BY <1>1, <1>4, <2>1, Appended DEF Given
<1>6. RingTypes'
  BY <1>1, <1>3, <1>5, StepTypes DEF RingTypes
<1>7. Lifecycle'
  <2>1. proc'[x].pc # "joinable" /\ proc'[x].pc \in Processing /\ (x \in Threads /\ mode.type = "ASYNC" => FALSE)
    BY <1>1, <1>2, <1>3, Processes
  <2>2. At(Async, "joinable") => UNCHANGED <<write_idx, read_idx>>
    BY <1>1
  <2>3. UNCHANGED <<mode, channel_state, logger_state, ctl>> /\ ~At(x, "idle")
    BY <1>1 DEF Life
  <2> QED BY <1>1, <1>3, <2>1, <2>2, <2>3, LifecycleStays
<1>8. ASSUME Recoverable PROVE TheRing' /\ TheKept'
  <2>1. TheRing /\ TheKept
    BY <1>8 DEF RingInv
  <2>2. Ring(mode, hold_idx, write_idx, proc_idx, read_idx, buffer, proc')
    BY <1>1, <1>3, <2>1, DispatchStep DEF TheRing
  <2>3. Kept(mode, hold_idx, read_idx, buffer, proc', Given \cup {log}, ready)
    BY <1>3, <2>1, DispatchKeeps DEF TheKept, log
  <2> QED BY <1>1, <1>5, <2>2, <2>3 DEF TheRing, TheKept
<1>9. ASSUME ~mode.shm PROVE TheWaiting' /\ Sent'
  <2>1. TheRing /\ TheWaiting /\ Sent
    BY <1>9 DEF RingInv, Recoverable
  <2>2. /\ Waiting(mode, hold_idx, read_idx, buffer, proc', Given \cup {log}, ready)
        /\ log \in ready \ Given
        /\ mode.type = "ASYNC" => \A d \in Given : d[1] = log[1] => d[2] < log[2]
    <3>1. /\ Shape(mode, hold_idx, write_idx, proc_idx, read_idx, proc)
          /\ Ring(mode, hold_idx, write_idx, proc_idx, read_idx, buffer, proc)
          /\ Waiting(mode, hold_idx, read_idx, buffer, proc, Given, ready) /\ Numbered(issued, ready, proc)
          /\ log = buffer[proc[x].slot].log
      BY <1>1, <2>1, TheShape DEF TheRing, TheWaiting, log
    <3>2. Waiting(mode, hold_idx, read_idx, buffer, proc', Given \cup {log}, ready)
      BY <1>1, <1>3, <1>9, <3>1, DispatchWaits
    <3> QED BY <1>1, <1>3, <1>9, <3>1, <3>2, DispatchWaits
  <2>3. Numbered(issued, ready, proc')
    <3>1. issued \in Nat
      BY <1>1 DEF RingTypes
    <3> QED BY <1>2, <1>3, <2>1, <3>1, NumberedStays DEF TheWaiting
  <2>4. IsFiniteSet(Given') /\ Cardinality(Given') = Len(dispatched')
    <3>1. IsFiniteSet(Given) /\ Cardinality(Given) = Len(dispatched) /\ log \notin Given
      BY <2>1, <2>2 DEF Sent
    <3> QED BY <1>5, <3>1, FS_AddElement
  <2>5. ASSUME mode.type = "ASYNC", NEW i \in 1 .. Len(dispatched'), NEW j \in 1 .. Len(dispatched'), i < j,
               dispatched'[i][1] = dispatched'[j][1]
        PROVE  dispatched'[i][2] < dispatched'[j][2]
    <3>1. i \in 1 .. Len(dispatched) /\ dispatched'[i] = dispatched[i]
      BY <1>5, <2>5
    <3>2. CASE j \in 1 .. Len(dispatched)
      <4>1. dispatched'[j] = dispatched[j]
        BY <1>5, <3>2
      <4> QED BY <2>1, <2>5, <3>1, <3>2, <4>1 DEF Sent
    <3>3. CASE j = Len(dispatched) + 1
      <4>1. dispatched'[j] = log /\ dispatched[i] \in Given
        BY <1>5, <3>1, <3>3 DEF Given
      <4> QED BY <2>2, <2>5, <3>1, <4>1
    <3> QED BY <1>5, <3>2, <3>3
  <2>6. Sent'
    BY <1>1, <2>4, <2>5 DEF Sent
  <2> QED BY <1>1, <1>5, <2>2, <2>3, <2>6 DEF TheWaiting
<1> QED BY <1>1, <1>6, <1>7, <1>8, <1>9 DEF RingInv, Recoverable

LEMMA ProcMarkHolds ==
    ASSUME RingInv, clean, NEW x \in Procs, ProcMark(x) PROVE RingInv'
<1> USE DEF At
<1>1. /\ RingTypes /\ Lifecycle /\ proc[x].pc = "proc_mark" /\ mode' = mode
      /\ UNCHANGED <<mode, Indices, Life, issued, dispatched, ready, clean>>
      /\ issued' = issued /\ ready' = ready /\ clean' = clean /\ dispatched' = dispatched /\ Given' = Given
      /\ hold_idx' = hold_idx /\ write_idx' = write_idx /\ proc_idx' = proc_idx /\ read_idx' = read_idx
      /\ Begin(x, "read_load")
  BY DEF RingInv, ProcMark, Indices, Given
<1>2. /\ proc[x].pc \in Processing
      /\ "read_load" \in Places /\ "read_load" \in Processing /\ "read_load" \notin Making
  BY <1>1 DEF Places, Making, Dispatching, Processing
<1>3. /\ proc' \in [Procs -> ProcType(mode')] /\ Others(proc, proc', x) /\ proc'[x].pc = "read_load"
  BY <1>1, <1>2, Beginning
<1>4. proc[x].slot \in Slots
  BY <1>1, ModeIs DEF RingTypes, ProcType
<1>5. /\ buffer' \in [Slots -> [mark : {"INVALID", "HOLD", "READY"}, log : Logs]]
      /\ Elsewhere(buffer, buffer', proc[x].slot, mode) /\ buffer'[proc[x].slot].mark = "INVALID"
  BY <1>1, <1>4, Marking DEF ProcMark
<1>6. RingTypes'
  BY <1>1, <1>3, <1>5, StepTypes DEF RingTypes
<1>7. Lifecycle'
  <2>1. proc'[x].pc # "joinable" /\ proc'[x].pc \in Processing /\ (x \in Threads /\ mode.type = "ASYNC" => FALSE)
    BY <1>1, <1>2, <1>3, Processes
  <2>2. At(Async, "joinable") => UNCHANGED <<write_idx, read_idx>>
    BY <1>1
  <2>3. UNCHANGED <<mode, channel_state, logger_state, ctl>> /\ ~At(x, "idle")
    BY <1>1 DEF Life
  <2> QED BY <1>1, <1>3, <2>1, <2>2, <2>3, LifecycleStays
<1>8. ASSUME Recoverable PROVE TheRing' /\ TheKept'
  <2>1. TheRing /\ TheKept
    BY <1>8 DEF RingInv
  <2>2. Ring(mode, hold_idx, write_idx, proc_idx, read_idx, buffer', proc')
    BY <1>1, <1>3, <1>5, <2>1, TheShape, ReleaseStep DEF TheRing
  <2>3. Kept(mode, hold_idx, read_idx, buffer', proc', Given, ready)
    BY <1>1, <1>3, <1>5, <2>1, TheShape, ReleaseKeeps DEF TheRing, TheKept
  <2> QED BY <1>1, <2>2, <2>3 DEF TheRing, TheKept
<1>9. ASSUME ~mode.shm PROVE TheWaiting' /\ Sent'
  <2>1. TheRing /\ TheWaiting /\ Sent
    BY <1>9 DEF RingInv, Recoverable
  <2>2. Waiting(mode, hold_idx, read_idx, buffer', proc', Given, ready)
    BY <1>1, <1>3, <1>5, <2>1, TheShape, ReleaseKeeps DEF TheRing, TheWaiting
  <2>3. Numbered(issued, ready, proc')
    <3>1. issued \in Nat
      BY <1>1 DEF RingTypes
    <3> QED BY <1>2, <1>3, <2>1, <3>1, NumberedStays DEF TheWaiting
  <2> QED BY <1>1, <2>1, <2>2, <2>3 DEF TheWaiting, Sent
<1> QED BY <1>1, <1>6, <1>7, <1>8, <1>9 DEF RingInv, Recoverable

\* The places a step of EnterProcChannel goes to that owns no slot.
LEMMA ProcPlaces ==
    \A pc \in {"proc_load", "proc_state", "read_load", "read_cas", "proc_loop", "hot_lock"} :
        pc \in Places /\ pc \in Apart /\ pc \in Processing /\ pc \notin Making /\ pc \notin Filling \cup Dispatching
BY DEF Apart, Places, Making, Filling, Dispatching, Processing

LEMMA ReadLoadHolds ==
    ASSUME RingInv, clean, NEW x \in Procs, ReadLoad(x) PROVE RingInv'
<1> USE DEF At
<1>1. /\ RingTypes /\ Lifecycle /\ Still /\ proc[x].pc = "read_load" /\ mode' = mode
      /\ read_idx \in Nat /\ proc_idx \in Nat
  BY DEF RingInv, ReadLoad, Still, RingTypes
<1>2. proc[x].pc \in Apart /\ proc[x].pc \in Processing /\ ~Moves(proc[x], write_idx)
  BY <1>1, ProcPlaces DEF Moves
<1>3. x \in Threads /\ mode.type = "ASYNC" => FALSE
  BY <1>1, <1>2, Processes
<1>4. CASE Goto(x, "proc_load")
  <2>1. proc' \in [Procs -> ProcType(mode')] /\ Others(proc, proc', x) /\ proc'[x].pc = "proc_load"
    BY <1>1, <1>4, ProcPlaces, Going
  <2>2. Loaded(proc'[x], mode, hold_idx, write_idx, proc_idx, read_idx, buffer, proc) /\ Works(proc'[x], proc_idx)
    BY <2>1 DEF Loaded, Works
  <2> QED BY <1>1, <1>2, <1>3, <2>1, <2>2, ProcPlaces, ThreadWalks
<1>5. CASE /\ Slot(read_idx) # Slot(proc_idx) /\ buffer[Slot(read_idx)].mark = "INVALID"
           /\ Load(x, "read_cas", read_idx)
  <2>1. proc' \in [Procs -> ProcType(mode')] /\ Others(proc, proc', x) /\ proc'[x].pc = "read_cas" /\ proc'[x].at = read_idx
    BY <1>1, <1>5, ProcPlaces, Loading
  <2>2. ASSUME Recoverable
        PROVE  Loaded(proc'[x], mode, hold_idx, write_idx, proc_idx, read_idx, buffer, proc)
    <3>1. TheRing
      BY <2>2 DEF RingInv
    <3>2. read_idx < proc_idx
      <4>1. read_idx <= proc_idx
        BY <1>1, <3>1, SlotsCompared
      <4>2. read_idx # proc_idx
        BY <1>5
      <4> QED BY <1>1, <4>1, <4>2
    <3>3. buffer[Pos(read_idx, mode)].mark = "INVALID"
      BY <1>1, <1>5, ModeIs
    <3>4. ASSUME NEW y \in Procs, proc[y].pc \in Dispatching PROVE proc[y].slot # Pos(read_idx, mode)
      <4>1. CASE ~mode.shm
        <5>1. buffer[proc[y].slot].mark = "READY"
          BY <3>1, <3>4, <4>1 DEF TheRing, Ring, Taken, Takes
        <5> QED BY <3>3, <5>1
      <4>2. CASE mode.shm
        <5>1. mode.type = "ASYNC" /\ proc[y].pc \in Processing
          BY <2>2, <3>4, <4>2 DEF Recoverable, Processing
        <5>2. x = Async /\ y = Async
          BY <1>1, <1>2, <5>1, Processes
        <5> QED BY <1>1, <3>4, <5>2 DEF Dispatching
      <4> QED BY <4>1, <4>2
    <3> QED BY <1>1, <2>1, <3>2, <3>3, <3>4 DEF Loaded
  <2>3. Works(proc'[x], proc_idx)
    BY <2>1 DEF Works
  <2> QED BY <1>1, <1>2, <1>3, <2>1, <2>2, <2>3, ProcPlaces, ThreadWalks
<1> QED BY <1>4, <1>5 DEF ReadLoad

LEMMA ReadCasHolds ==
    ASSUME RingInv, clean, NEW x \in Procs, ReadCas(x) PROVE RingInv'
<1> USE DEF At
<1>1. /\ RingTypes /\ Lifecycle /\ proc[x].pc = "read_cas" /\ mode' = mode /\ read_idx \in Nat
      /\ Goto(x, "read_load")
  BY DEF RingInv, ReadCas, RingTypes
<1>2. proc[x].pc \in Apart /\ proc[x].pc \in Processing /\ ~Moves(proc[x], write_idx)
  BY <1>1, ProcPlaces DEF Moves
<1>3. (x \in Threads /\ mode.type = "ASYNC" => FALSE) /\ ~At(Async, "joinable") /\ ~At(x, "idle")
  <2>1. mode.type \in {"ASYNC", "SYNC"}
    BY <1>1, ModeIs
  <2> QED BY <1>1, <1>2, <2>1, Processes
<1>4. proc' \in [Procs -> ProcType(mode')] /\ Others(proc, proc', x) /\ proc'[x].pc = "read_load"
  BY <1>1, ProcPlaces, Going
<1>5. CASE UNCHANGED <<read_idx, clean>>
  <2>1. /\ Loaded(proc'[x], mode, hold_idx, write_idx, proc_idx, read_idx, buffer, proc) /\ Works(proc'[x], proc_idx)
    BY <1>4 DEF Loaded, Works
  <2>2. Still
    BY <1>5 DEF ReadCas, Still, Indices
  <2> QED BY <1>1, <1>2, <1>3, <1>4, <2>1, <2>2, ProcPlaces, ThreadWalks
<1>6. CASE read_idx' = read_idx + 1 /\ Clean(read_idx, x)
  <2>1. /\ UNCHANGED <<hold_idx, write_idx, proc_idx, buffer, Life, issued, dispatched, ready>>
        /\ hold_idx' = hold_idx /\ write_idx' = write_idx /\ proc_idx' = proc_idx
        /\ buffer' = buffer /\ dispatched' = dispatched /\ ready' = ready /\ Given' = Given /\ issued' = issued
        /\ clean' = (clean /\ read_idx = proc[x].at) /\ clean' \in BOOLEAN
    BY <1>6 DEF ReadCas, Clean, Given
  <2>2. RingTypes'
    BY <1>1, <1>4, <1>6, <2>1, StepTypes DEF RingTypes
  <2>3. Lifecycle'
    <3>1. proc'[x].pc # "joinable" /\ proc'[x].pc \in Processing
      BY <1>4, ProcPlaces
    <3>2. At(Async, "joinable") => UNCHANGED <<write_idx, read_idx>>
      BY <1>3
    <3>3. UNCHANGED <<mode, channel_state, logger_state, ctl>>
      BY <1>1, <2>1 DEF Life
    <3> QED BY <1>1, <1>3, <1>4, <3>1, <3>2, <3>3, LifecycleStays
  <2>4. ASSUME clean', Recoverable PROVE TheRing' /\ TheKept'
    <3>1. TheRing /\ TheKept /\ proc[x].at = read_idx
      BY <2>1, <2>4 DEF RingInv
    <3>2. Ring(mode, hold_idx, write_idx, proc_idx, read_idx + 1, buffer, proc')
      BY <1>1, <1>4, <3>1, TheShape, FreeStep DEF TheRing
    <3>3. Kept(mode, hold_idx, read_idx + 1, buffer, proc', Given, ready)
      BY <1>1, <1>4, <3>1, TheShape, FreeKeeps DEF TheRing, TheKept
    <3> QED BY <1>1, <1>6, <2>1, <3>2, <3>3 DEF TheRing, TheKept
  <2>5. ASSUME clean', ~mode.shm PROVE TheWaiting' /\ Sent'
    <3>1. TheRing /\ TheWaiting /\ Sent /\ proc[x].at = read_idx
      BY <2>1, <2>5 DEF RingInv, Recoverable
    <3>2. Waiting(mode, hold_idx, read_idx + 1, buffer, proc', Given, ready)
      BY <1>1, <1>4, <3>1, TheShape, FreeKeeps DEF TheRing, TheWaiting
    <3>3. Numbered(issued, ready, proc')
      <4>1. issued \in Nat
        BY <1>1 DEF RingTypes
      <4> QED BY <1>4, <3>1, <4>1, ProcPlaces, NumberedStays DEF TheWaiting
    <3> QED BY <1>1, <1>6, <2>1, <3>1, <3>2, <3>3 DEF TheWaiting, Sent
  <2> QED BY <1>1, <2>2, <2>3, <2>4, <2>5 DEF RingInv, Recoverable
<1> QED BY <1>5, <1>6 DEF ReadCas

\* The types after a step that leaves the ring alone.
LEMMA LifeTypes ==
    ASSUME RingTypes, UNCHANGED <<mode, Indices, buffer, issued, dispatched, ready>>,
           channel_state' \in {"NULL", "RUNNING", "WAITING_FINISH", "FINISH"},
           logger_state' \in {"UNINIT", "INITING", "RUNNING", "CLOSING"},
           ctl' \in {"idle", "start", "start_failed", "join_failed", "stop", "join"},
           proc' \in [Procs -> ProcType(mode')], starts' \in 0 .. mode.starts,
           clean' \in BOOLEAN, quiet' \in BOOLEAN
    PROVE  RingTypes'
<1>1. Slots' = Slots /\ Logs' = Logs
  BY TypesStay
<1>2. proc' \in [Procs -> ProcType(mode)']
  OBVIOUS
<1> QED BY <1>1, <1>2 DEF RingTypes, Indices

\* A step of the thread that processes, which may set the state of the channel.
LEMMA ProcWalks ==
    ASSUME RingInv, clean, NEW x \in Procs, proc[x].pc \in {"proc_state", "hot_lock", "proc_loop"},
           UNCHANGED <<mode, Indices, buffer, logger_state, ctl, starts, quiet, issued, dispatched, ready, clean>>,
           proc' \in [Procs -> ProcType(mode')], Others(proc, proc', x),
           channel_state' \in {"NULL", "RUNNING", "WAITING_FINISH", "FINISH"},
           \/ /\ proc'[x].pc \in {"proc_loop", "hot_lock", "proc_load"}
              /\ channel_state = "RUNNING" => channel_state' = "RUNNING"
           \/ /\ x = Async /\ proc'[x].pc = "joinable" /\ channel_state' = "FINISH"
              /\ channel_state # "RUNNING" /\ write_idx = read_idx
           \/ x \in Threads /\ proc'[x].pc = "idle" /\ channel_state' = channel_state
    PROVE  RingInv'
<1> USE ProcsAre DEF At
<1>1. /\ RingTypes /\ Lifecycle /\ mode' = mode /\ write_idx' = write_idx /\ read_idx' = read_idx
      /\ logger_state' = logger_state /\ ctl' = ctl
  BY DEF RingInv, Indices
<1>2. /\ proc[x].pc \in Processing /\ mode.type \in {"ASYNC", "SYNC"}
  BY <1>1, ModeIs, ProcPlaces
<1>3. /\ mode.type = "ASYNC" => x = Async
      /\ mode.type = "SYNC" => x \in Threads /\ x # Async
      /\ x \in Threads => channel_state = "RUNNING" /\ mode.type # "ASYNC"
      /\ x = Async \/ x \in Threads
      /\ proc[x].pc # "idle" /\ proc[Async].pc # "joinable"
  BY <1>1, <1>2, Processes
<1>4. RingTypes'
  BY <1>1, LifeTypes DEF RingTypes
<1>5. Lifecycle'
  <2>1. /\ ctl' = "idle" => logger_state' \in {"UNINIT", "RUNNING"}
        /\ ctl' \in {"start", "start_failed", "join_failed"} => logger_state' = "INITING"
        /\ ctl' \in {"stop", "join"} => logger_state' = "CLOSING"
    BY <1>1 DEF Lifecycle
  <2>2. logger_state' = "UNINIT" \/ mode'.type = "SYNC" => proc'[Async].pc = "idle"
    BY <1>1, <1>3 DEF Lifecycle, Others
  <2>3. proc'[Async].pc \in {"idle", "joinable"} \cup Processing
    BY <1>1, <1>3, ProcPlaces DEF Lifecycle, Others
  <2>4. ASSUME NEW t \in Threads
        PROVE  /\ proc'[t].pc # "joinable"
               /\ mode'.type = "ASYNC" => proc'[t].pc \notin Processing
               /\ proc'[t].pc # "idle" => channel_state' = "RUNNING" /\ (ctl' = "stop" \/ logger_state' = "RUNNING")
    <3>1. CASE t # x
      <4>1. proc'[t] = proc[t]
        BY <3>1 DEF Others
      <4>2. channel_state = "RUNNING" => channel_state' = "RUNNING"
        OBVIOUS
      <4> QED BY <1>1, <4>1, <4>2 DEF Lifecycle
    <3>2. CASE t = x
      BY <1>1, <1>3, <3>2 DEF Lifecycle
    <3> QED BY <3>1, <3>2
  <2>5. proc'[Async].pc = "joinable" => channel_state' = "FINISH" /\ write_idx' = read_idx'
    BY <1>1, <1>3 DEF Others
  <2> QED BY <2>1, <2>2, <2>3, <2>4, <2>5 DEF Lifecycle
<1>6. /\ {proc[x].pc, proc'[x].pc} \cap (Filling \cup Dispatching) = {} /\ proc'[x].pc \notin Making
      /\ ~Moves(proc[x], write_idx) /\ ~Works(proc[x], proc_idx)
      /\ Loaded(proc'[x], mode, hold_idx, write_idx, proc_idx, read_idx, buffer, proc)
  BY DEF Filling, Dispatching, Making, Moves, Works, Pushing, Loaded
<1>7. issued' = issued /\ issued <= issued'
  BY <1>1, ModeIs DEF RingTypes
<1> QED BY <1>1, <1>4, <1>5, <1>6, <1>7, WalkHolds

LEMMA HotUpdateLoggerHolds ==
    ASSUME RingInv, clean, NEW x \in Procs, HotUpdateLogger(x) PROVE RingInv'
<1> USE DEF At
<1>1. RingTypes /\ proc[x].pc = "proc_state" /\ mode' = mode
  BY DEF RingInv, HotUpdateLogger
<1>2. channel_state' \in {"NULL", "RUNNING", "WAITING_FINISH", "FINISH"} /\ (channel_state = "RUNNING" => channel_state' = "RUNNING")
  BY <1>1 DEF HotUpdateLogger, RingTypes
<1>3. PICK pc \in {"proc_loop", "hot_lock"} : Goto(x, pc)
  BY DEF HotUpdateLogger
<1>4. proc' \in [Procs -> ProcType(mode')] /\ Others(proc, proc', x) /\ proc'[x].pc = pc
  BY <1>1, <1>3, ProcPlaces, Going
<1>5. UNCHANGED <<mode, Indices, buffer, logger_state, ctl, starts, quiet, issued, dispatched, ready, clean>>
  BY DEF HotUpdateLogger
<1> QED BY <1>1, <1>2, <1>4, <1>5, ProcWalks

LEMMA HotLockedHolds ==
    ASSUME RingInv, clean, NEW x \in Procs, HotLocked(x) PROVE RingInv'
<1> USE DEF At
<1>1. /\ RingTypes /\ proc[x].pc = "hot_lock" /\ mode' = mode /\ Goto(x, "proc_loop")
      /\ UNCHANGED <<mode, Indices, buffer, Life, issued, dispatched, ready, clean>>
  BY DEF RingInv, HotLocked
<1>2. proc' \in [Procs -> ProcType(mode')] /\ Others(proc, proc', x) /\ proc'[x].pc = "proc_loop"
  BY <1>1, ProcPlaces, Going
<1>3. channel_state' = channel_state /\ channel_state \in {"NULL", "RUNNING", "WAITING_FINISH", "FINISH"}
  BY <1>1 DEF Life, RingTypes
<1>4. UNCHANGED <<mode, Indices, buffer, logger_state, ctl, starts, quiet, issued, dispatched, ready, clean>>
  BY <1>1 DEF Life
<1> QED BY <1>1, <1>2, <1>3, <1>4, ProcWalks

LEMMA ProcLoopHolds ==
    ASSUME RingInv, clean, NEW x \in Procs, ProcLoop(x) PROVE RingInv'
<1> USE DEF At
<1>1. /\ RingTypes /\ Lifecycle /\ proc[x].pc = "proc_loop" /\ mode' = mode
      /\ UNCHANGED <<mode, Indices, buffer, logger_state, ctl, starts, quiet, issued, dispatched, ready, clean>>
  BY DEF RingInv, ProcLoop
<1>2. /\ mode.type \in {"ASYNC", "SYNC"}
      /\ channel_state \in {"NULL", "RUNNING", "WAITING_FINISH", "FINISH"}
      /\ mode.type = "ASYNC" => x = Async
      /\ mode.type = "SYNC" => x \in Threads /\ x # Async
  <2>1. proc[x].pc \in Processing
    BY <1>1, ProcPlaces
  <2> QED BY <1>1, <2>1, ModeIs, Processes DEF RingTypes
<1>3. CASE Goto(x, "proc_load") /\ UNCHANGED channel_state
  <2>1. proc' \in [Procs -> ProcType(mode')] /\ Others(proc, proc', x) /\ proc'[x].pc = "proc_load"
    BY <1>1, <1>3, ProcPlaces, Going
  <2> QED BY <1>1, <1>2, <1>3, <2>1, ProcWalks
<1>4. CASE /\ mode.type = "ASYNC" /\ channel_state # "RUNNING" /\ Slot(write_idx) = Slot(read_idx)
           /\ Begin(x, "joinable") /\ channel_state' = "FINISH"
  <2>1. proc' \in [Procs -> ProcType(mode')] /\ Others(proc, proc', x) /\ proc'[x].pc = "joinable"
    BY <1>1, <1>4, Beginning DEF Places
  <2>2. write_idx = read_idx
    BY <1>1, <1>4, SlotsCompared DEF RingInv, Recoverable
  <2> QED BY <1>1, <1>2, <1>4, <2>1, <2>2, ProcWalks
<1>5. CASE mode.type = "SYNC" /\ Begin(x, "idle") /\ channel_state' = channel_state
  <2>1. proc' \in [Procs -> ProcType(mode')] /\ Others(proc, proc', x) /\ proc'[x].pc = "idle"
    BY <1>1, <1>5, Beginning DEF Places
  <2> QED BY <1>1, <1>2, <1>5, <2>1, ProcWalks
<1> QED BY <1>2, <1>3, <1>4, <1>5 DEF ProcLoop

\* Nobody is inside a log statement while the logger starts, joins or is stopped.
LEMMA NobodyLogs ==
    ASSUME Lifecycle, ctl # "stop", logger_state # "RUNNING"
    PROVE  \A t \in Threads : proc[t].pc = "idle"
BY DEF Lifecycle, At

\* What the controller's steps leave as it is.
LEMMA ControlIs ==
    ASSUME RingTypes
    PROVE  /\ proc \in [Procs -> ProcType(mode)] /\ starts \in 0 .. mode.starts /\ mode.starts \in Nat
           /\ clean \in BOOLEAN /\ quiet \in BOOLEAN
           /\ channel_state \in {"NULL", "RUNNING", "WAITING_FINISH", "FINISH"}
           /\ logger_state \in {"UNINIT", "INITING", "RUNNING", "CLOSING"}
           /\ ctl \in {"idle", "start", "start_failed", "join_failed", "stop", "join"}
           /\ mode.type \in {"ASYNC", "SYNC"}
           /\ issued \in Nat /\ issued <= issued
BY ModeIs DEF RingTypes

\* A step of the controller that moves the channel's own thread between idle places.
LEMMA AsyncWalks ==
    ASSUME RingInv, clean, RingTypes', Lifecycle',
           UNCHANGED <<mode, Indices, buffer, dispatched, ready, issued>>,
           proc[Async].pc \in {"idle", "joinable"}, Others(proc, proc', Async),
           proc'[Async].pc \in {"proc_load", "idle"}
    PROVE  RingInv'
<1>1. /\ {proc[Async].pc, proc'[Async].pc} \cap (Filling \cup Dispatching) = {} /\ proc'[Async].pc \notin Making
      /\ ~Moves(proc[Async], write_idx) /\ ~Works(proc[Async], proc_idx)
      /\ Loaded(proc'[Async], mode, hold_idx, write_idx, proc_idx, read_idx, buffer, proc)
  BY DEF Filling, Dispatching, Making, Moves, Works, Pushing, Loaded
<1>2. issued <= issued'
  BY ControlIs DEF RingInv
<1> QED BY <1>1, <1>2, ProcsAre, WalkHolds

LEMMA StartLoggerHolds ==
    ASSUME RingInv, clean, StartLogger PROVE RingInv'
<1> USE ProcsAre DEF At
<1>1. /\ RingTypes /\ Lifecycle /\ ctl = "idle" /\ logger_state = "UNINIT" /\ starts < mode.starts
      /\ starts' = starts + 1 /\ logger_state' = "INITING" /\ ctl' = "start" /\ quiet' = TRUE
      /\ UNCHANGED <<mode, Indices, buffer, issued, dispatched, ready, clean>> /\ mode' = mode
      /\ write_idx' = write_idx /\ read_idx' = read_idx
  BY DEF RingInv, StartLogger, Indices
<1>2. proc[Async].pc = "idle" /\ \A t \in Threads : proc[t].pc = "idle"
  BY <1>1, NobodyLogs DEF Lifecycle
<1>3. starts' \in 0 .. mode.starts /\ clean' \in BOOLEAN /\ quiet' \in BOOLEAN
  BY <1>1, ControlIs
<1>4. "proc_load" \in Processing /\ "idle" \notin Processing
  BY DEF Processing, Dispatching
<1>5. CASE mode.type = "SYNC" /\ channel_state' = "RUNNING" /\ UNCHANGED proc
  <2>1. RingTypes'
    BY <1>1, <1>3, <1>5, ControlIs, LifeTypes
  <2>2. Lifecycle'
    BY <1>1, <1>2, <1>4, <1>5 DEF Lifecycle
  <2> QED BY <1>1, <1>5, <2>1, <2>2, StillHolds
<1>6. CASE mode.type # "SYNC" /\ Begin(Async, "proc_load") /\ UNCHANGED channel_state
  <2>1. proc' \in [Procs -> ProcType(mode')] /\ Others(proc, proc', Async) /\ proc'[Async].pc = "proc_load"
    BY <1>1, <1>6, ProcPlaces, Beginning
  <2>2. RingTypes'
    BY <1>1, <1>3, <1>6, <2>1, ControlIs, LifeTypes
  <2>3. \A t \in Threads : proc'[t].pc = "idle"
    BY <1>2, <2>1 DEF Others
  <2>4. Lifecycle'
    BY <1>1, <1>4, <1>6, <2>1, <2>3 DEF Lifecycle
  <2> QED BY <1>1, <1>2, <2>1, <2>2, <2>4, AsyncWalks
<1> QED BY <1>5, <1>6 DEF StartLogger

LEMMA StartedHolds ==
    ASSUME RingInv, clean, Started PROVE RingInv'
<1> USE ProcsAre DEF At
<1>1. /\ RingTypes /\ Lifecycle /\ ctl = "start" /\ channel_state = "RUNNING" /\ logger_state = "INITING"
      /\ logger_state' = "RUNNING" /\ ctl' = "idle"
      /\ UNCHANGED <<mode, Indices, buffer, channel_state, proc, starts, quiet, issued, dispatched, ready, clean>>
      /\ mode' = mode /\ proc' = proc /\ channel_state' = channel_state
      /\ write_idx' = write_idx /\ read_idx' = read_idx
  BY DEF RingInv, Started, Lifecycle, Indices
<1>2. RingTypes'
  BY <1>1, ControlIs, LifeTypes
<1>3. Lifecycle'
  BY <1>1 DEF Lifecycle
<1> QED BY <1>1, <1>2, <1>3, StillHolds

LEMMA StartTimeoutHolds ==
    ASSUME RingInv, clean, StartTimeout PROVE RingInv'
<1> USE ProcsAre DEF At
<1>1. /\ RingTypes /\ Lifecycle /\ ctl = "start" /\ logger_state = "INITING" /\ ctl' = "start_failed"
      /\ UNCHANGED <<mode, Indices, buffer, channel_state, logger_state, proc, starts, quiet, issued, dispatched, ready, clean>>
      /\ mode' = mode /\ proc' = proc /\ channel_state' = channel_state /\ logger_state' = logger_state
      /\ write_idx' = write_idx /\ read_idx' = read_idx
  BY DEF RingInv, StartTimeout, Lifecycle, Indices
<1>2. RingTypes'
  BY <1>1, ControlIs, LifeTypes
<1>3. Lifecycle'
  BY <1>1 DEF Lifecycle
<1> QED BY <1>1, <1>2, <1>3, StillHolds

LEMMA StartFailedHolds ==
    ASSUME RingInv, clean, StartFailed PROVE RingInv'
<1> USE ProcsAre DEF At
<1>1. /\ RingTypes /\ Lifecycle /\ ctl = "start_failed" /\ logger_state = "INITING" /\ ctl' = "join_failed"
      /\ UNCHANGED <<mode, Indices, buffer, logger_state, proc, starts, quiet, issued, dispatched, ready, clean>>
      /\ mode' = mode /\ proc' = proc /\ logger_state' = logger_state
      /\ write_idx' = write_idx /\ read_idx' = read_idx
      /\ channel_state' = IF channel_state = "RUNNING" THEN "WAITING_FINISH" ELSE channel_state
  BY DEF RingInv, StartFailed, Lifecycle, Indices
<1>2. RingTypes'
  BY <1>1, ControlIs, LifeTypes
<1>3. \A t \in Threads : proc[t].pc = "idle"
  BY <1>1, NobodyLogs
<1>4. Lifecycle'
  BY <1>1, <1>3 DEF Lifecycle
<1> QED BY <1>1, <1>2, <1>4, StillHolds

LEMMA StartJoinedHolds ==
    ASSUME RingInv, clean, StartJoined PROVE RingInv'
<1> USE ProcsAre DEF At
<1>1. /\ RingTypes /\ Lifecycle /\ ctl = "join_failed" /\ logger_state = "INITING" /\ proc[Async].pc = "joinable"
      /\ Begin(Async, "idle") /\ channel_state' = "NULL" /\ logger_state' = "UNINIT" /\ ctl' = "idle"
      /\ UNCHANGED <<mode, Indices, buffer, starts, quiet, issued, dispatched, ready, clean>> /\ mode' = mode
  BY DEF RingInv, StartJoined, Lifecycle
<1>2. proc' \in [Procs -> ProcType(mode')] /\ Others(proc, proc', Async) /\ proc'[Async].pc = "idle"
  BY <1>1, Beginning DEF Places
<1>3. RingTypes'
  BY <1>1, <1>2, ControlIs, LifeTypes
<1>4. \A t \in Threads : proc'[t].pc = "idle"
  BY <1>1, <1>2, NobodyLogs DEF Others
<1>5. "idle" \notin Processing
  BY DEF Processing, Dispatching
<1>6. Lifecycle'
  BY <1>1, <1>2, <1>4, <1>5 DEF Lifecycle
<1> QED BY <1>1, <1>2, <1>3, <1>6, AsyncWalks

LEMMA StopLoggerHolds ==
    ASSUME RingInv, clean, StopLogger PROVE RingInv'
<1> USE ProcsAre DEF At
<1>1. /\ RingTypes /\ Lifecycle /\ ctl = "idle" /\ logger_state = "RUNNING"
      /\ logger_state' = "CLOSING" /\ ctl' = "stop"
      /\ UNCHANGED <<mode, Indices, buffer, channel_state, proc, starts, quiet, issued, dispatched, ready, clean>>
      /\ mode' = mode /\ proc' = proc /\ channel_state' = channel_state
      /\ write_idx' = write_idx /\ read_idx' = read_idx
  BY DEF RingInv, StopLogger, Indices
<1>2. RingTypes'
  BY <1>1, ControlIs, LifeTypes
<1>3. Lifecycle'
  BY <1>1 DEF Lifecycle
<1> QED BY <1>1, <1>2, <1>3, StillHolds

LEMMA StopChannelsHolds ==
    ASSUME RingInv, clean, StopChannels PROVE RingInv'
<1> USE ProcsAre DEF At
<1>1. /\ RingTypes /\ Lifecycle /\ ctl = "stop" /\ logger_state = "CLOSING" /\ ctl' = "join"
      /\ UNCHANGED <<mode, Indices, buffer, logger_state, proc, starts, issued, dispatched, ready>>
      /\ mode' = mode /\ proc' = proc /\ logger_state' = logger_state
      /\ write_idx' = write_idx /\ read_idx' = read_idx
      /\ quiet' = (\A t \in Threads : proc[t].pc = "idle") /\ clean' = (clean /\ quiet')
  BY DEF RingInv, StopChannels, Lifecycle, Indices
<1>2. /\ mode.type = "SYNC" => channel_state' = "NULL"
      /\ mode.type = "ASYNC" /\ channel_state = "RUNNING" => channel_state' = "WAITING_FINISH"
      /\ mode.type = "ASYNC" /\ channel_state # "RUNNING" => channel_state' = channel_state
  BY DEF StopChannels
<1>3. quiet' \in BOOLEAN /\ clean' \in BOOLEAN
  BY <1>1
<1>4. RingTypes'
  BY <1>1, <1>2, <1>3, ControlIs, LifeTypes
<1>5. ASSUME clean' PROVE clean /\ Lifecycle'
  <2>1. \A t \in Threads : proc[t].pc = "idle"
    BY <1>1, <1>5
  <2> QED BY <1>1, <1>2, <2>1, ControlIs DEF Lifecycle
<1> QED BY <1>1, <1>4, <1>5, StillHolds

\* The slots from one counter to another, as CleanChannels and LoadSharedMemory
\* count them.
Walked(D, i, left, L) == D = {(i + k) % L : k \in 0 .. left - 1}
Span(D, i, j, L) == \A s : s \in D <=> \E n \in i .. j - 1 : n % L = s

LEMMA Between ==
    ASSUME NEW L \in Nat, L > 0, NEW i \in Nat, NEW j \in Nat, i <= j, j < i + L,
           NEW left, left = ((j % L) + L - (i % L)) % L,
           NEW D, Walked(D, i, left, L)
    PROVE  left = j - i /\ Span(D, i, j, L)
<1>1. left = j - i
  BY ModDistance
<1>2. ASSUME NEW s, s \in D PROVE \E n \in i .. j - 1 : n % L = s
  <2>1. PICK k \in 0 .. left - 1 : s = (i + k) % L
    BY <1>2 DEF Walked
  <2>2. i + k \in i .. j - 1
    BY <1>1
  <2> QED BY <2>1, <2>2
<1>3. ASSUME NEW s, NEW n \in i .. j - 1, n % L = s PROVE s \in D
  <2> DEFINE k == n - i
  <2>1. k \in 0 .. left - 1 /\ i + k = n
    BY <1>1
  <2> HIDE DEF k
  <2> QED BY <1>3, <2>1 DEF Walked
<1> QED BY <1>1, <1>2, <1>3 DEF Span

\* The marks of the slots of a set are changed.
LEMMA Remarking ==
    ASSUME RingTypes, NEW D, NEW k \in {"INVALID", "HOLD", "READY"},
           buffer' = [s \in Slots |-> IF s \in D THEN [buffer[s] EXCEPT !.mark = k] ELSE buffer[s]]
    PROVE  /\ buffer' \in [Slots -> [mark : {"INVALID", "HOLD", "READY"}, log : Logs]]
           /\ \A s \in Slots : IF s \in D THEN buffer'[s].mark = k /\ buffer'[s].log = buffer[s].log
                                          ELSE buffer'[s] = buffer[s]
<1>1. \A s \in Slots : buffer[s] \in [mark : {"INVALID", "HOLD", "READY"}, log : Logs]
  BY DEF RingTypes
<1>2. ASSUME NEW s \in Slots
      PROVE  /\ buffer'[s] \in [mark : {"INVALID", "HOLD", "READY"}, log : Logs]
             /\ IF s \in D THEN buffer'[s].mark = k /\ buffer'[s].log = buffer[s].log
                           ELSE buffer'[s] = buffer[s]
  <2> DEFINE v == [buffer[s] EXCEPT !.mark = k]
  <2>1. v \in [mark : {"INVALID", "HOLD", "READY"}, log : Logs] /\ v.mark = k /\ v.log = buffer[s].log
    BY <1>1
  <2>2. buffer'[s] = IF s \in D THEN v ELSE buffer[s]
    OBVIOUS
  <2> HIDE DEF v
  <2> QED BY <1>1, <2>1, <2>2
<1> QED BY <1>2

\* What is ready was given when the logger is stopped and the channel has drained.
LEMMA Drained ==
    ASSUME RingTypes, Lifecycle, TheRing, TheKept, \A t \in Threads : proc[t].pc = "idle",
           mode.type = "ASYNC" => At(Async, "joinable")
    PROVE  ready \subseteq Given
<1> USE DEF At
<1>1. Shape(mode, hold_idx, write_idx, proc_idx, read_idx, proc)
  BY TheShape
<1>2. write_idx = hold_idx /\ (mode.type = "SYNC" => proc_idx = write_idx)
  BY <1>1, NobodyInside DEF TheRing
<1>3. SUFFICES ASSUME NEW l \in ready \ Given PROVE FALSE
  OBVIOUS
<1>4. PICK i \in read_idx .. hold_idx - 1 : buffer[Pos(i, mode)].mark = "READY"
  BY DEF TheKept, Kept
<1>5. CASE mode.type = "ASYNC"
  <2>1. write_idx = read_idx /\ read_idx \in Nat
    BY <1>5 DEF Lifecycle, RingTypes
  <2> QED BY <1>2, <1>4, <2>1
<1>6. CASE mode.type = "SYNC"
  <2>1. i \in read_idx .. proc_idx - 1
    BY <1>2, <1>4, <1>6
  <2>2. PICK x \in Procs : proc[x].pc \in Dispatching
    BY <1>4, <2>1 DEF TheRing, Ring, Taken
  <2>3. proc[x].pc = "idle"
    BY <1>6 DEF Lifecycle, Procs
  <2> QED BY <2>2, <2>3 DEF Dispatching
<1> QED BY <1>5, <1>6, ModeIs

\* Threads that are all idle.
LEMMA IdleKeeps ==
    ASSUME NEW m, NEW h, NEW r, NEW b, NEW q, NEW c, NEW z, NEW given, NEW rdy, NEW n,
           \A x \in Procs : z[x].pc = "idle"
    PROVE  Numbered(n, rdy, q) => Numbered(n, rdy, z)
<1>1. \A t \in Threads : z[t].pc \notin Making
  BY ProcsAre DEF Making
<1> QED BY <1>1 DEF Numbered

LEMMA CleanChannelsHolds ==
    ASSUME RingInv, clean, CleanChannels PROVE RingInv'
<1> USE ProcsAre DEF At
<1> DEFINE o == 0
           L == mode.len
           left == (Slot(write_idx) + BUFFER_LEN - Slot(read_idx)) % BUFFER_LEN
           D == {Slot(read_idx + k) : k \in 0 .. left - 1}
           c == buffer'
           z == proc'
<1>1. /\ RingTypes /\ Lifecycle /\ ctl = "join" /\ logger_state = "CLOSING"
      /\ mode.type = "ASYNC" => At(Async, "joinable")
      /\ Begin(Async, "idle") /\ channel_state' = "NULL" /\ logger_state' = "UNINIT" /\ ctl' = "idle"
      /\ UNCHANGED <<mode, starts, quiet, issued, dispatched, ready, clean>>
      /\ mode' = mode /\ issued' = issued /\ ready' = ready /\ dispatched' = dispatched /\ Given' = Given
      /\ clean' = clean
  BY DEF RingInv, CleanChannels, Lifecycle, Given
<1>2. c = [s \in Slots |-> IF s \in D THEN [buffer[s] EXCEPT !.mark = "INVALID"] ELSE buffer[s]]
  BY DEF CleanChannels
<1>3. hold_idx' = o /\ write_idx' = o /\ proc_idx' = o /\ read_idx' = o /\ o \in Nat /\ o = 0
  BY DEF CleanChannels
<1>4. /\ hold_idx \in Nat /\ write_idx \in Nat /\ proc_idx \in Nat /\ read_idx \in Nat
      /\ L \in Nat /\ L > 0
  BY <1>1, ModeIs DEF RingTypes
<1>5. left = ((write_idx % L) + L - (read_idx % L)) % L /\ Walked(D, read_idx, left, L)
  BY DEF Slot, BUFFER_LEN, Walked
<1> HIDE DEF o, L, left, D
<1>6. /\ c \in [Slots -> [mark : {"INVALID", "HOLD", "READY"}, log : Logs]]
      /\ \A s \in Slots : IF s \in D THEN c[s].mark = "INVALID" ELSE c[s] = buffer[s]
  BY <1>1, <1>2, Remarking
<1>7. z \in [Procs -> ProcType(mode')] /\ Others(proc, z, Async) /\ z[Async].pc = "idle"
  BY <1>1, Beginning DEF Places
<1>8. (\A t \in Threads : proc[t].pc = "idle") /\ (\A x \in Procs : z[x].pc = "idle")
  BY <1>1, <1>7, NobodyLogs DEF Others, Procs
<1>9. RingTypes'
  <2>1. Slots' = Slots /\ Logs' = Logs /\ ProcType(mode)' = ProcType(mode)
    BY <1>1, TypesStay
  <2> QED BY <1>1, <1>3, <1>6, <1>7, <2>1 DEF RingTypes
<1>10. Lifecycle'
  <2>1. "idle" \notin Processing
    BY DEF Processing, Dispatching
  <2> QED BY <1>1, <1>8, <2>1 DEF Lifecycle
<1>11. ASSUME Recoverable PROVE TheRing' /\ TheKept'
  <2>1. TheRing /\ TheKept
    BY <1>11 DEF RingInv
  <2>2. Shape(mode, hold_idx, write_idx, proc_idx, read_idx, proc)
    BY <1>1, TheShape
  <2>3. read_idx <= write_idx /\ write_idx < read_idx + L
    <3>1. read_idx <= proc_idx /\ proc_idx <= write_idx /\ write_idx <= hold_idx /\ hold_idx < read_idx + mode.len
      BY <1>1, <2>1, SlotsCompared
    <3>2. mode.len = L
      BY DEF L
    <3> QED BY <1>4, <3>1, <3>2
  <2>4. Span(D, read_idx, write_idx, L)
    BY <1>4, <1>5, <2>3, Between
  <2>5. \A s \in 0 .. mode.len - 1 :
            IF \E i \in read_idx .. write_idx - 1 : Pos(i, mode) = s THEN c[s].mark = "INVALID" ELSE c[s] = buffer[s]
    <3>1. Slots = 0 .. mode.len - 1 /\ \A i : Pos(i, mode) = i % L
      BY <1>1, ModeIs DEF Pos, L
    <3> QED BY <1>6, <2>4, <3>1 DEF Span
  <2>6. Ring(mode, o, o, o, o, c, z)
    <3>1. Ring(mode, 0, 0, 0, 0, c, z)
      BY <1>8, <2>1, <2>2, <2>5, CleanStep DEF TheRing
    <3> QED BY <1>3, <3>1
  <2>7. ready \subseteq Given
    BY <1>1, <1>8, <2>1, Drained
  <2>8. Kept(mode, o, o, c, z, Given, ready)
    <3>1. \A x \in Procs : z[x].pc # "proc_mark"
      BY <1>8
    <3> QED BY <2>7, <3>1 DEF Kept
  <2> QED BY <1>1, <1>3, <2>6, <2>8 DEF TheRing, TheKept
<1>12. ASSUME ~mode.shm PROVE TheWaiting' /\ Sent'
  <2>1. TheWaiting /\ Sent
    BY <1>12 DEF RingInv
  <2>2. Numbered(issued, ready, z)
    BY <1>8, <2>1, IdleKeeps DEF TheWaiting
  <2>3. Waiting(mode, o, o, c, z, Given, ready)
    <3>1. \A i \in o .. o - 1 : FALSE
      BY <1>3
    <3>2. Given \subseteq ready
      BY <2>1 DEF TheWaiting, Waiting
    <3> QED BY <3>1, <3>2 DEF Waiting
  <2> QED BY <1>1, <1>3, <2>1, <2>2, <2>3 DEF TheWaiting, Sent
<1> QED BY <1>1, <1>9, <1>10, <1>11, <1>12 DEF RingInv, Recoverable

LEMMA CrashHolds ==
    ASSUME RingInv, clean, Crash PROVE RingInv'
<1> USE ProcsAre DEF At
<1> DEFINE L == mode.len
           left == (Slot(hold_idx) + BUFFER_LEN - Slot(write_idx)) % BUFFER_LEN
           D == {Slot(write_idx + k) : k \in 0 .. left - 1}
           c == buffer'
           z == proc'
<1>1. /\ RingTypes /\ Lifecycle /\ mode.shm
      /\ channel_state' = "NULL" /\ logger_state' = "UNINIT" /\ ctl' = "idle"
      /\ UNCHANGED <<mode, read_idx, starts, quiet, issued, dispatched, ready, clean>>
      /\ mode' = mode /\ issued' = issued /\ ready' = ready /\ dispatched' = dispatched /\ Given' = Given
      /\ clean' = clean /\ read_idx' = read_idx /\ proc_idx' = read_idx
      /\ z = [p \in Procs |-> Idle]
  BY DEF RingInv, Crash, Given
<1>2. /\ c = [s \in Slots |-> IF s \in D THEN [buffer[s] EXCEPT !.mark = "READY"] ELSE buffer[s]]
      /\ write_idx' = write_idx + left /\ hold_idx' = write_idx + left
  BY DEF Crash
<1>3. /\ hold_idx \in Nat /\ write_idx \in Nat /\ proc_idx \in Nat /\ read_idx \in Nat
      /\ L \in Nat /\ L > 0
  BY <1>1, ModeIs DEF RingTypes
<1>4. left = ((hold_idx % L) + L - (write_idx % L)) % L /\ Walked(D, write_idx, left, L)
  BY DEF Slot, BUFFER_LEN, Walked
<1> HIDE DEF L, left, D
<1>5. /\ c \in [Slots -> [mark : {"INVALID", "HOLD", "READY"}, log : Logs]]
      /\ \A s \in Slots : IF s \in D THEN c[s].mark = "READY" /\ c[s].log = buffer[s].log ELSE c[s] = buffer[s]
  BY <1>1, <1>2, Remarking
<1>6. left \in Nat
  <2> DEFINE a == hold_idx % L
             e == write_idx % L
             n == a + L - e
  <2>1. a \in 0 .. L - 1 /\ e \in 0 .. L - 1
    BY <1>3, DivMod
  <2> HIDE DEF a, e
  <2>2. n \in Nat
    BY <1>3, <2>1
  <2> HIDE DEF n
  <2>3. n % L \in 0 .. L - 1
    BY <1>3, <2>2, DivMod
  <2>4. left = n % L
    BY <1>4 DEF n, a, e
  <2> QED BY <1>3, <2>3, <2>4
<1>7. Idle \in ProcType(mode) /\ Idle.pc = "idle"
  BY <1>1, ModeIs DEF Idle, ProcType, Places
<1>8. z \in [Procs -> ProcType(mode)] /\ \A x \in Procs : z[x].pc = "idle"
  BY <1>1, <1>7
<1>9. RingTypes'
  <2>1. Slots' = Slots /\ Logs' = Logs /\ ProcType(mode)' = ProcType(mode)
    BY <1>1, TypesStay
  <2>2. write_idx' \in Nat /\ hold_idx' \in Nat
    BY <1>2, <1>3, <1>6
  <2> QED BY <1>1, <1>3, <1>5, <1>8, <2>1, <2>2 DEF RingTypes
<1>10. Lifecycle'
  <2>1. "idle" \notin Processing
    BY DEF Processing, Dispatching
  <2> QED BY <1>1, <1>8, <2>1 DEF Lifecycle
<1>11. ASSUME Recoverable PROVE TheRing' /\ TheKept'
  <2>1. TheRing /\ TheKept /\ mode.type = "ASYNC"
    BY <1>1, <1>11 DEF RingInv, Recoverable
  <2>2. Shape(mode, hold_idx, write_idx, proc_idx, read_idx, proc)
    BY <1>1, TheShape
  <2>3. read_idx <= write_idx /\ write_idx <= hold_idx /\ hold_idx < write_idx + L /\ hold_idx < read_idx + L
    <3>1. read_idx <= proc_idx /\ proc_idx <= write_idx /\ write_idx <= hold_idx /\ hold_idx < read_idx + mode.len
      BY <1>1, <2>1, SlotsCompared
    <3>2. mode.len = L
      BY DEF L
    <3> QED BY <1>3, <3>1, <3>2
  <2>4. Span(D, write_idx, hold_idx, L) /\ left = hold_idx - write_idx
    BY <1>3, <1>4, <2>3, Between
  <2>5. Slots = 0 .. mode.len - 1 /\ \A i : Pos(i, mode) = i % L
    BY <1>1, ModeIs DEF Pos, L
  <2>6. \A s \in 0 .. mode.len - 1 : (~ \E i \in write_idx .. hold_idx - 1 : Pos(i, mode) = s) => c[s] = buffer[s]
    BY <1>5, <2>4, <2>5 DEF Span
  <2>7. Ring(mode, hold_idx, hold_idx, read_idx, read_idx, c, z)
    BY <1>1, <1>8, <2>1, <2>2, <2>6, CrashStep DEF TheRing
  <2>8. hold_idx' = hold_idx /\ write_idx' = hold_idx
    BY <1>2, <1>3, <2>4
  <2>9. Kept(mode, hold_idx, read_idx, c, z, Given, ready)
    <3>1. ASSUME NEW l \in ready \ Given
          PROVE  \E i \in read_idx .. hold_idx - 1 : c[Pos(i, mode)].mark = "READY" /\ c[Pos(i, mode)].log = l
      <4>1. PICK i \in read_idx .. hold_idx - 1 : buffer[Pos(i, mode)].mark = "READY" /\ buffer[Pos(i, mode)].log = l
        BY <2>1 DEF TheKept, Kept
      <4>2. Pos(i, mode) \in Slots
        <5>1. i \in Nat
          BY <1>3
        <5> QED BY <1>1, <2>5, <5>1, ModeIs, Positions
      <4> QED BY <1>5, <4>1, <4>2
    <3>2. \A x \in Procs : z[x].pc # "proc_mark"
      BY <1>8
    <3> QED BY <3>1, <3>2 DEF Kept
  <2> QED BY <1>1, <2>7, <2>8, <2>9 DEF TheRing, TheKept
<1> QED BY <1>1, <1>9, <1>10, <1>11 DEF RingInv, Recoverable

LEMMA RingStarts ==
    ASSUME Init PROVE RingInv
<1> USE ProcsAre DEF At
<1> DEFINE o == 0
           none == {}
<1>1. /\ mode \in Modes /\ hold_idx = o /\ write_idx = o /\ proc_idx = o /\ read_idx = o /\ o = 0
      /\ buffer = [s \in Slots |-> Free] /\ channel_state = "NULL" /\ logger_state = "UNINIT"
      /\ proc = [p \in Procs |-> Idle] /\ ctl = "idle" /\ starts = o /\ issued = o
      /\ dispatched = <<>> /\ ready = none /\ none = {} /\ clean = TRUE /\ quiet = TRUE
  BY DEF Init
<1>2. /\ mode.len \in Nat /\ mode.len > 1 /\ mode.logs \in Nat /\ mode.starts \in Nat /\ mode.type \in {"ASYNC", "SYNC"}
  BY <1>1, LogRingAssumption
<1>3. Free \in [mark : {"INVALID", "HOLD", "READY"}, log : Logs] /\ Free.mark = "INVALID"
  BY DEF Free, Logs
<1>4. Idle \in ProcType(mode) /\ Idle.pc = "idle"
  BY <1>2 DEF Idle, ProcType, Places
<1>5. Given = none /\ Len(dispatched) = o /\ dispatched \in Seq(Logs)
  <2>1. Len(dispatched) = 0 /\ dispatched \in Seq(Logs)
    BY <1>1
  <2> QED BY <1>1, <2>1 DEF Given
<1>6. \A x \in Procs : proc[x].pc = "idle"
  BY <1>1, <1>4
<1> HIDE DEF o, none
<1>7. RingTypes
  <2>1. o \in 0 .. mode.logs /\ o \in 0 .. mode.starts /\ o \in Nat /\ none \subseteq Logs
    BY <1>1, <1>2
  <2> QED BY <1>1, <1>3, <1>4, <1>5, <2>1 DEF RingTypes
<1>8. Lifecycle
  <2>1. "idle" \notin Processing
    BY DEF Processing, Dispatching
  <2> QED BY <1>1, <1>6, <2>1 DEF Lifecycle
<1>9. TheRing
  <2>1. Unused(mode, o, o, buffer)
    BY <1>1, <1>3, <1>7, ModeIs DEF Unused
  <2>2. o \in Nat /\ o <= o /\ o < o + mode.len
    BY <1>1, <1>2
  <2> QED BY <1>1, <1>2, <1>6, <2>1, <2>2, AtRest DEF TheRing
<1>10. TheKept
  BY <1>1, <1>6 DEF TheKept, Kept
<1>11. TheWaiting
  <2>1. \A t \in Threads : proc[t].pc \notin Making
    BY <1>6 DEF Making
  <2>2. Numbered(issued, ready, proc)
    BY <1>1, <2>1 DEF Numbered
  <2>3. \A i \in o .. o - 1 : FALSE
    BY <1>1
  <2>4. Waiting(mode, o, o, buffer, proc, none, none)
    BY <2>3 DEF Waiting
  <2> QED BY <1>1, <1>5, <2>2, <2>4 DEF TheWaiting
<1>12. Sent
  <2>1. IsFiniteSet(none) /\ Cardinality(none) = o
    BY <1>1, FS_EmptySet
  <2>2. \A i \in 1 .. o : FALSE
    BY <1>1
  <2> QED BY <1>5, <2>1, <2>2 DEF Sent
<1> QED BY <1>7, <1>8, <1>9, <1>10, <1>11, <1>12 DEF RingInv

LEMMA RingStutters ==
    ASSUME RingInv, UNCHANGED vars PROVE RingInv'
<1>1. /\ mode' = mode /\ hold_idx' = hold_idx /\ write_idx' = write_idx /\ proc_idx' = proc_idx
      /\ read_idx' = read_idx /\ buffer' = buffer /\ channel_state' = channel_state
      /\ logger_state' = logger_state /\ proc' = proc /\ ctl' = ctl /\ starts' = starts
      /\ issued' = issued /\ dispatched' = dispatched /\ ready' = ready /\ clean' = clean /\ quiet' = quiet
  BY DEF vars
<1>2. RingTypes'
  BY <1>1, ControlIs, LifeTypes DEF RingInv, Indices, RingTypes
<1>3. clean => Lifecycle'
  BY <1>1 DEF RingInv, Lifecycle, At
<1> QED BY <1>1, <1>2, <1>3, StillHolds DEF Indices

LEMMA RingStays ==
    ASSUME RingInv, [Next]_vars PROVE RingInv'
<1>1. CASE UNCHANGED vars
  BY <1>1, RingStutters
<1>2. ASSUME clean, NEW t \in Threads, Log(t) PROVE RingInv'
  BY <1>2, LogStreamHolds, HoldLoadHolds, HoldFullHolds, HoldCasHolds, HoldMarkHolds, PushCheckHolds,
     PushMarkHolds, PushLoadHolds, PushTestHolds, PushCasHolds, PushDoneHolds DEF Log
<1>3. ASSUME clean, NEW x \in Procs, EnterProcChannel(x) PROVE RingInv'
  BY <1>3, ProcLoadHolds, ProcCasHolds, DispatchHolds, ProcMarkHolds, ReadLoadHolds, ReadCasHolds,
     HotUpdateLoggerHolds, HotLockedHolds, ProcLoopHolds DEF EnterProcChannel
<1>4. ASSUME clean, Control PROVE RingInv'
  BY <1>4, StartLoggerHolds, StartedHolds, StartTimeoutHolds, StartFailedHolds, StartJoinedHolds,
     StopLoggerHolds, StopChannelsHolds, CleanChannelsHolds, CrashHolds DEF Control
<1> QED BY <1>1, <1>2, <1>3, <1>4 DEF Next

\* The inductive invariant of the ring: its window of slots, who owns each of them,
\* and what waits in them.
THEOREM RingInvariant == Spec => []RingInv
<1>1. Init => RingInv
  BY RingStarts
<1>2. RingInv /\ [Next]_vars => RingInv'
  BY RingStays
<1> QED BY <1>1, <1>2, PTL DEF Spec

LEMMA RingImplies ==
    ASSUME RingInv PROVE RingIsSound /\ StopDrains
<1> USE DEF At
<1>1. RingTypes
  BY DEF RingInv
<1>2. TypeOK
  <2>1. mode \in Modes /\ {hold_idx, write_idx, proc_idx, read_idx} \subseteq Nat
    BY <1>1 DEF RingTypes
  <2>2. \A x \in Procs : proc[x].slot \in Slots /\ proc[x].at \in Nat /\ proc[x].log \in Logs
    BY <1>1, ModeIs DEF RingTypes, ProcType
  <2>3. Given \subseteq Logs
    BY <1>1 DEF RingTypes, Given
  <2> QED BY <1>1, <2>1, <2>2, <2>3 DEF RingTypes, TypeOK
<1>3. HeldSlotIsOwned
  BY ProcsAre DEF RingInv, TheRing, Ring, Held, Owns, Filling, HeldSlotIsOwned
<1>4. DispatchedOnce
  BY DEF RingInv, TheWaiting, Waiting, Sent, DispatchedOnce
<1>5. ThreadOrder
  BY DEF RingInv, Sent, ThreadOrder
<1>6. StopDrains
  <2> SUFFICES ASSUME clean, Recoverable, ctl = "join", mode.type = "ASYNC" => At(Async, "joinable")
               PROVE  ready \subseteq Given
    BY DEF StopDrains
  <2>1. RingTypes /\ Lifecycle /\ TheRing /\ TheKept /\ logger_state = "CLOSING"
    BY DEF RingInv, Lifecycle
  <2> QED BY <2>1, NobodyLogs, Drained
<1> QED BY <1>2, <1>3, <1>4, <1>5, <1>6 DEF RingIsSound

\* Any number of threads log, over any ring and through any number of starts: a
\* slot belongs to one thread while it is filled, and each log reaches the devices
\* once, complete, and in the order of its thread.
THEOREM RingSound == Spec => []RingIsSound
<1>1. RingInv => RingIsSound
  BY RingImplies
<1> QED BY <1>1, RingInvariant, PTL

\* A stop that finds no thread logging loses nothing that was ready.
THEOREM RingDrains == Spec => []StopDrains
<1>1. RingInv => StopDrains
  BY RingImplies
<1> QED BY <1>1, RingInvariant, PTL

(***************************************************************************)
(* fn_log: what a line holds                                               *)
(***************************************************************************)
\* What a thread keeps of the date, and what it prints.
Cached == [date : Int, begin : Int, at : Int]
Shown == [cache : Cached, date : Int, hour : Int]

LEMMA Divided ==
    ASSUME NEW a \in Int, NEW b \in Nat \ {0}
    PROVE  a \div b \in Int /\ a % b \in 0 .. b - 1 /\ (a \div b) * b + (a % b) = a
<1>1. a \div b \in Int /\ a % b \in 0 .. b - 1
  OBVIOUS
<1>2. (a \div b) * b + (a % b) = a
  OBVIOUS
<1> QED BY <1>1, <1>2

LEMMA RenewedIs ==
    ASSUME NEW t \in Int
    PROVE  /\ Renewed(t) \in Cached /\ Renewed(t).at = t
           /\ Renewed(t).date * Day + (t - Renewed(t).begin) = t + Offset(t)
           /\ t - Renewed(t).begin \in 0 .. Day - 1
<1> DEFINE local == t + Offset(t)
           q == local \div Day
           r == local % Day
<1>1. local \in Int
  BY LogTextAssumption DEF Offset
<1>2. q \in Int /\ r \in 0 .. Day - 1 /\ q * Day + r = local
  <2> HIDE DEF local
  <2> QED BY <1>1, Divided, LogTextAssumption
<1>3. Renewed(t) = [date |-> q, begin |-> t - r, at |-> t]
  BY DEF Renewed
<1> HIDE DEF q, r
<1>4. r \in Int /\ t - r \in Int /\ t - (t - r) = r
  BY <1>2, LogTextAssumption
<1> QED BY <1>2, <1>3, <1>4 DEF Cached

LEMMA PrintsIs ==
    ASSUME NEW times \in Seq(Int)
    PROVE  /\ Prints(times)[0].cache = NoDate
           /\ \A i \in 1 .. Len(times) : Prints(times)[i] = write_date_unsafe(Prints(times)[i - 1].cache, times[i])
           /\ \A i \in 0 .. Len(times) : Prints(times)[i] \in Shown
<1> DEFINE n == Len(times)
           base == [cache |-> NoDate, date |-> 0, hour |-> 0]
           W == [i \in 0 .. n |-> Shown]
           g == [i \in 1 .. n |-> [v \in Shown |-> write_date_unsafe(v.cache, times[i])]]
           Plain(f) == f = [i \in 0 .. n |-> IF i = 0 THEN base ELSE write_date_unsafe(f[i - 1].cache, times[i])]
           Loop(f) == f = [i \in 0 .. n |-> IF i = 0 THEN base ELSE g[i][f[i - 1]]]
           m == CHOOSE f : Plain(f)
<1>1. n \in Nat /\ \A i \in 1 .. n : times[i] \in Int
  BY LenProperties, ElementOfSeq
<1>2. \A v \in Shown, t \in Int : write_date_unsafe(v.cache, t) \in Shown
  <2> TAKE v \in Shown, t \in Int
  <2> DEFINE c == IF Expired(t - v.cache.begin) THEN Renewed(t) ELSE v.cache
  <2>1. c \in Cached
    BY RenewedIs DEF Shown
  <2>2. write_date_unsafe(v.cache, t) = [cache |-> c, date |-> c.date, hour |-> t - c.begin]
    BY DEF write_date_unsafe
  <2> HIDE DEF c
  <2> QED BY <2>1, <2>2 DEF Shown, Cached
<1>3. base \in W[0] /\ \A i \in 1 .. n : \A v \in W[i - 1] : g[i][v] \in W[i]
  <2>1. 0 \in 0 .. n /\ \A i \in 1 .. n : i - 1 \in 0 .. n /\ i \in 0 .. n
    BY <1>1
  <2>2. base \in Shown
    BY DEF Shown, Cached, NoDate
  <2>3. \A i \in 1 .. n : \A v \in Shown : g[i][v] \in Shown
    BY <1>1, <1>2
  <2> HIDE DEF g, n, base
  <2> QED BY <2>1, <2>2, <2>3
<1>4. ASSUME NEW f, \A i \in 0 .. n : f[i] \in W[i]
      PROVE  Plain(f) <=> Loop(f)
  <2>1. \A i \in 1 .. n : i - 1 \in 0 .. n
    BY <1>1
  <2>2. \A i \in 1 .. n : g[i][f[i - 1]] = write_date_unsafe(f[i - 1].cache, times[i])
    BY <1>4, <2>1
  <2>3. \A i \in 0 .. n : i = 0 \/ i \in 1 .. n
    BY <1>1
  <2> HIDE DEF g, W, n, base
  <2> QED BY <2>2, <2>3
<1>5. \E f : Loop(f) /\ \A i \in 0 .. n : f[i] \in W[i]
  <2> HIDE DEF g, W, n, base
  <2>1. \E f : IsLoop(f, n, base, g) /\ \A i \in 0 .. n : f[i] \in W[i]
    BY <1>1, <1>3, LoopExists, Zenon
  <2> QED BY <2>1 DEF IsLoop
<1>6. Plain(m)
  <2> HIDE DEF g, W, n, base, Plain, Loop
  <2> QED BY <1>4, <1>5
<1>7. \A i \in 0 .. n : m[i] = IF i = 0 THEN base ELSE write_date_unsafe(m[i - 1].cache, times[i])
  <2> HIDE DEF m, n, base
  <2> QED BY <1>6
<1>8. /\ m[0] = base
      /\ \A i \in 1 .. n : m[i] = write_date_unsafe(m[i - 1].cache, times[i])
  <2> HIDE DEF m, base
  <2>1. 0 \in 0 .. n /\ \A i \in 1 .. n : i \in 0 .. n /\ i # 0
    BY <1>1
  <2> QED BY <1>7, <2>1
<1>9. \A i \in 0 .. n : m[i] \in W[i]
  <2>1. m[0] \in W[0]
    <3> HIDE DEF m, W, base
    <3> QED BY <1>3, <1>8
  <2>2. ASSUME NEW i \in 1 .. n, m[i - 1] \in W[i - 1] PROVE m[i] \in W[i]
    <3> HIDE DEF m
    <3>1. i - 1 \in 0 .. n /\ i \in 0 .. n
      BY <1>1
    <3>2. m[i - 1] \in Shown /\ times[i] \in Int
      BY <1>1, <2>2, <3>1
    <3> QED BY <1>2, <1>8, <3>1, <3>2
  <2> HIDE DEF m, W
  <2> QED BY <1>1, <2>1, <2>2, LoopInvariant
<1>10. Prints(times) = m
  BY DEF Prints
<1> HIDE DEF m
<1> QED BY <1>8, <1>9, <1>10

\* write_date_unsafe: whatever the times, and however the local clock is changed
\* between them, a thread prints the local time of its clock at the moment it last
\* renewed its date, which was less than a day before or after.
THEOREM DatesAreLocalAlways ==
    \A times \in Seq(Int) : (times # <<>> => times[1] >= Day) => DatesAreLocal(times)
<1> SUFFICES ASSUME NEW times \in Seq(Int), times # <<>> => times[1] >= Day
             PROVE  DatesAreLocal(times)
  OBVIOUS
<1> DEFINE n == Len(times)
           p == Prints(times)
           Good(i) == /\ p[i].date * Day + p[i].hour = times[i] + Offset(p[i].cache.at)
                      /\ p[i].hour \in 0 .. Day - 1 /\ \E k \in 1 .. i : times[k] = p[i].cache.at
                      /\ times[i] - p[i].cache.at \in -Day .. Day
                      /\ p[i].date = p[i].cache.date /\ p[i].hour = times[i] - p[i].cache.begin
                      /\ p[i].cache.at - p[i].cache.begin \in 0 .. Day - 1
           K == {i \in Nat : i + 1 \in 1 .. n => Good(i + 1)}
<1>1. n \in Nat /\ \A i \in 1 .. n : times[i] \in Int
  BY LenProperties, ElementOfSeq
<1>2. /\ p[0].cache = NoDate
      /\ \A i \in 1 .. n : p[i] = write_date_unsafe(p[i - 1].cache, times[i])
      /\ \A i \in 0 .. n : p[i] \in Shown
  BY PrintsIs
<1>3. Day \in Nat /\ Day > 0
  BY LogTextAssumption
<1>4. \A i \in 0 .. n : p[i].cache \in Cached /\ p[i].cache.date \in Int /\ p[i].cache.begin \in Int /\ p[i].cache.at \in Int
  BY <1>2 DEF Shown, Cached
<1> HIDE DEF p
<1>5. ASSUME NEW i \in 1 .. n, Expired(times[i] - p[i - 1].cache.begin)
      PROVE  Good(i)
  <2> DEFINE t == times[i]
             c == Renewed(t)
  <2>1. p[i] = [cache |-> c, date |-> c.date, hour |-> t - c.begin]
    BY <1>2, <1>5 DEF write_date_unsafe
  <2>2. t \in Int /\ i \in Nat /\ i \in 1 .. i
    BY <1>1
  <2>3. c \in Cached /\ c.at = t /\ c.date * Day + (t - c.begin) = t + Offset(t) /\ t - c.begin \in 0 .. Day - 1
    BY <2>2, RenewedIs
  <2>4. t - t = 0 /\ 0 \in -Day .. Day
    BY <1>3, <2>2
  <2> HIDE DEF c
  <2> QED BY <2>1, <2>2, <2>3, <2>4
<1>6. 0 \in K
  <2> SUFFICES ASSUME 1 \in 1 .. n PROVE Good(1)
    OBVIOUS
  <2>1. times # <<>> /\ times[1] \in Int
    BY <1>1
  <2>2. times[1] - p[0].cache.begin >= Day
    BY <1>2, <2>1 DEF NoDate
  <2>3. Expired(times[1] - p[0].cache.begin)
    BY <2>2 DEF Expired
  <2>4. 1 - 1 = 0
    OBVIOUS
  <2> HIDE DEF Good
  <2> QED BY <1>5, <2>3, <2>4
<1>7. ASSUME NEW j \in Nat, j \in K PROVE j + 1 \in K
  <2> DEFINE i == j + 2
  <2> SUFFICES ASSUME i \in 1 .. n PROVE Good(i)
    <3>1. (j + 1) + 1 = i
      OBVIOUS
    <3> HIDE DEF i, Good
    <3> QED BY <3>1
  <2>1. i - 1 = j + 1 /\ i - 1 \in 1 .. n /\ i - 1 \in 0 .. n /\ i \in 0 .. n /\ i \in Nat /\ i - 1 \in Nat /\ \A k \in 1 .. i - 1 : k \in 1 .. i
    BY <1>1
  <2>2. Good(i - 1)
    <3> HIDE DEF Good, i
    <3> QED BY <1>7, <2>1
  <2> HIDE DEF i
  <2>3. CASE Expired(times[i] - p[i - 1].cache.begin)
    <3> HIDE DEF Good
    <3> QED BY <1>5, <2>3
  <2>4. CASE ~Expired(times[i] - p[i - 1].cache.begin)
    <3> DEFINE t == times[i]
               c == p[i - 1].cache
    <3>1. p[i] = [cache |-> c, date |-> c.date, hour |-> t - c.begin]
      BY <1>2, <2>4 DEF write_date_unsafe
    <3>2. t \in Int /\ times[i - 1] \in Int
      BY <1>1, <2>1
    <3>3. c.date \in Int /\ c.begin \in Int /\ c.at \in Int
      BY <1>4, <2>1
    <3>4. t - c.begin >= 0 /\ t - c.begin < Day
      BY <1>3, <2>4, <3>2, <3>3 DEF Expired
    <3> DEFINE d == c.date * Day
               o == Offset(c.at)
    <3>5. d \in Int /\ o \in Int
      BY <1>3, <3>3, LogTextAssumption DEF Offset
    <3>6. d + (times[i - 1] - c.begin) = times[i - 1] + o /\ c.at - c.begin \in 0 .. Day - 1 /\ \E k \in 1 .. i - 1 : times[k] = c.at
      BY <2>2
    <3> DEFINE b == c.begin
               a == c.at
               u == times[i - 1]
    <3>12. /\ t \in Int /\ u \in Int /\ a \in Int /\ b \in Int /\ d + (u - b) = u + o
          /\ a - b \in 0 .. Day - 1 /\ t - b >= 0 /\ t - b < Day
      BY <3>2, <3>3, <3>4, <3>6
    <3> HIDE DEF d, o, a, b, u, t
    <3>13. d + (t - b) = t + o
      BY <3>5, <3>12
    <3>14. t - b \in 0 .. Day - 1 /\ t - a \in -Day .. Day
      BY <1>3, <3>12
    <3>7. d + (t - c.begin) = t + o
      BY <3>13 DEF b
    <3>8. t - c.begin \in 0 .. Day - 1 /\ t - c.at \in -Day .. Day
      BY <3>14 DEF a, b
    <3>9. \E k \in 1 .. i : times[k] = c.at
      BY <2>1, <3>6
    <3> HIDE DEF c
    <3>10. c.date * Day + (t - c.begin) = t + Offset(c.at)
      BY <3>7 DEF d, o
    <3>11. c.at - c.begin \in 0 .. Day - 1
      BY <3>6
    <3> QED BY <3>1, <3>8, <3>9, <3>10, <3>11 DEF t
  <2> QED BY <2>3, <2>4
<1>8. Nat \subseteq K
  <2> HIDE DEF K
  <2> QED BY <1>6, <1>7, Induction
<1>9. \A i \in 1 .. n : Good(i)
  <2> TAKE i \in 1 .. n
  <2>1. i - 1 \in Nat /\ (i - 1) + 1 = i
    BY <1>1
  <2> HIDE DEF Good
  <2> QED BY <1>8, <2>1
<1>10. DOMAIN times = 1 .. n
  OBVIOUS
<1> HIDE DEF n
<1> QED BY <1>9, <1>10 DEF DatesAreLocal, p

Stream == [text : Seq(Int), len : Nat]
StreamedPiece == [op : {"text", "number", "format"}, s : Seq(Int)]

\* The pieces of a line: a format is the last one, and a number has the length that
\* the room for it is meant for.
Streamable(pieces) ==
    /\ pieces \in Seq(StreamedPiece)
    /\ \A k \in 1 .. Len(pieces) : /\ pieces[k].op = "format" => k = Len(pieces)
                                   /\ pieces[k].op = "number" => Len(pieces[k].s) <= Reserve - 2

LEMMA LesserIs ==
    ASSUME NEW a \in Int, NEW b \in Int
    PROVE  Min({a, b}) = IF a <= b THEN a ELSE b
<1> DEFINE m == IF a <= b THEN a ELSE b
<1>1. m \in {a, b} /\ \A y \in {a, b} : m <= y
  OBVIOUS
<1>2. \A z \in {a, b} : (\A y \in {a, b} : z <= y) => z = m
  BY <1>1
<1> HIDE DEF m
<1>3. Min({a, b}) = m
  BY <1>1, <1>2 DEF Min
<1> QED BY <1>3 DEF m

LEMMA GreaterIs ==
    ASSUME NEW a \in Int, NEW b \in Int
    PROVE  Max({a, b}) = IF a >= b THEN a ELSE b
<1> DEFINE m == IF a >= b THEN a ELSE b
<1>1. m \in {a, b} /\ \A y \in {a, b} : m >= y
  OBVIOUS
<1>2. \A z \in {a, b} : (\A y \in {a, b} : z >= y) => z = m
  BY <1>1
<1> HIDE DEF m
<1>3. Max({a, b}) = m
  BY <1>1, <1>2 DEF Max
<1> QED BY <1>3 DEF m

LEMMA CutIs ==
    ASSUME NEW s \in Seq(Int), NEW m \in 0 .. Len(s)
    PROVE  /\ SubSeq(s, 1, m) \in Seq(Int) /\ Len(SubSeq(s, 1, m)) = m
           /\ \A i \in 1 .. m : SubSeq(s, 1, m)[i] = s[i]
OBVIOUS

LEMMA PrefixIs ==
    ASSUME NEW s \in Seq(Int), NEW t \in Seq(Int)
    PROVE  IsPrefix(s, t) <=> Len(s) <= Len(t) /\ \A i \in 1 .. Len(s) : s[i] = t[i]
<1>1. Len(s) \in Nat /\ Len(t) \in Nat
  BY LenProperties
<1>2. SubSeq(s, 1, Len(s)) = s
  BY SubSeqFull
<1>3. ASSUME Len(s) <= Len(t)
      PROVE  s = SubSeq(t, 1, Len(s)) <=> \A i \in 1 .. Len(s) : s[i] = t[i]
  <2> DEFINE u == SubSeq(t, 1, Len(s))
  <2>1. u \in Seq(Int) /\ Len(u) = Len(s) /\ \A i \in 1 .. Len(s) : u[i] = t[i]
    BY <1>1, <1>3, CutIs
  <2> HIDE DEF u
  <2>2. (\A i \in 1 .. Len(s) : s[i] = t[i]) => s = u
    <3> SUFFICES ASSUME \A i \in 1 .. Len(s) : s[i] = t[i] PROVE s = u
      OBVIOUS
    <3>1. \A i \in 1 .. Len(s) : s[i] = u[i]
      BY <2>1
    <3> QED BY <2>1, <3>1, SeqEqual
  <2>3. s = u => \A i \in 1 .. Len(s) : s[i] = t[i]
    BY <2>1
  <2> QED BY <2>2, <2>3 DEF u
<1> QED BY <1>2, <1>3 DEF IsPrefix

LEMMA PutIs ==
    ASSUME NEW a \in Seq(Int), NEW s \in Seq(Int), NEW m \in 0 .. Len(s)
    PROVE  /\ a \o SubSeq(s, 1, m) \in Seq(Int) /\ Len(a \o SubSeq(s, 1, m)) = Len(a) + m
           /\ a \o s \in Seq(Int) /\ Len(a \o s) = Len(a) + Len(s)
           /\ IsPrefix(a \o SubSeq(s, 1, m), a \o s)
           /\ m = Len(s) => SubSeq(s, 1, m) = s
           /\ m = 0 => a \o SubSeq(s, 1, m) = a
<1> DEFINE c == SubSeq(s, 1, m)
<1>1. c \in Seq(Int) /\ Len(c) = m /\ \A i \in 1 .. m : c[i] = s[i]
  BY CutIs
<1>2. m = Len(s) => c = s
  BY SubSeqFull
<1>3. Len(a) \in Nat /\ Len(s) \in Nat /\ m \in Nat
  BY LenProperties
<1> HIDE DEF c
<1>4. /\ a \o c \in Seq(Int) /\ Len(a \o c) = Len(a) + m
      /\ \A i \in 1 .. Len(a) + m : (a \o c)[i] = IF i <= Len(a) THEN a[i] ELSE c[i - Len(a)]
  BY <1>1, ConcatProperties
<1>5. /\ a \o s \in Seq(Int) /\ Len(a \o s) = Len(a) + Len(s)
      /\ \A i \in 1 .. Len(a) + Len(s) : (a \o s)[i] = IF i <= Len(a) THEN a[i] ELSE s[i - Len(a)]
  BY ConcatProperties
<1>6. \A i \in 1 .. Len(a) + m : (a \o c)[i] = (a \o s)[i]
  <2> TAKE i \in 1 .. Len(a) + m
  <2>1. i \in 1 .. Len(a) + Len(s) /\ (~(i <= Len(a)) => i - Len(a) \in 1 .. m)
    BY <1>3
  <2> QED BY <1>1, <1>4, <1>5, <2>1
<1>7. IsPrefix(a \o c, a \o s)
  <2>1. Len(a) + m <= Len(a) + Len(s)
    BY <1>3
  <2> QED BY <1>4, <1>5, <1>6, <2>1, PrefixIs
<1>8. m = 0 => a \o c = a
  <2> SUFFICES ASSUME m = 0 PROVE a \o c = a
    OBVIOUS
  <2>1. Len(a \o c) = Len(a) /\ \A i \in 1 .. Len(a) : (a \o c)[i] = a[i]
    <3>1. Len(a) + m = Len(a) /\ \A i \in 1 .. Len(a) : i \in 1 .. Len(a) + m /\ i <= Len(a)
      BY <1>3
    <3> QED BY <1>4, <3>1
  <2> QED BY <1>4, <2>1, SeqEqual
<1> QED BY <1>2, <1>4, <1>5, <1>7, <1>8 DEF c

\* What a piece puts into the stream: the first m characters of it.
Puts(x, p, y, m) ==
    /\ y.text = x.text \o SubSeq(p.s, 1, m) /\ Len(y.text) = Len(x.text) + m /\ Len(y.text) <= LOG_SIZE
    /\ x.len <= y.len /\ Len(y.text) <= y.len
    /\ p.op # "format" => y.len = Len(y.text)
    /\ p.op = "number" => m = Len(p.s) \/ m = 0
    /\ p.op = "number" /\ m > 0 => x.len + Reserve <= LOG_SIZE
    /\ p.op = "text" => m = Len(p.s) \/ Len(y.text) = LOG_SIZE
    /\ p.op = "format" => y.len = Len(y.text) \/ Len(y.text) >= LOG_SIZE - 1

LEMMA PutsOf ==
    ASSUME NEW x \in Stream, NEW p \in StreamedPiece, NEW y, NEW m \in 0 .. Len(p.s), NEW z \in Nat,
           y = [text |-> x.text \o SubSeq(p.s, 1, m), len |-> z],
           x.len = Len(x.text), Len(x.text) + m <= LOG_SIZE, Len(x.text) + m <= z,
           p.op # "format" => z = Len(x.text) + m,
           p.op = "number" => m = Len(p.s) \/ m = 0,
           p.op = "number" /\ m > 0 => x.len + Reserve <= LOG_SIZE,
           p.op = "text" => m = Len(p.s) \/ Len(x.text) + m = LOG_SIZE,
           p.op = "format" => z = Len(x.text) + m \/ Len(x.text) + m >= LOG_SIZE - 1
    PROVE  y \in Stream /\ \E k \in 0 .. Len(p.s) : Puts(x, p, y, k)
<1> DEFINE t == x.text \o SubSeq(p.s, 1, m)
           e == Len(x.text)
<1>1. x.text \in Seq(Int) /\ p.s \in Seq(Int) /\ e \in Nat
  BY LenProperties DEF Stream, StreamedPiece
<1>2. t \in Seq(Int) /\ Len(t) = e + m
  BY <1>1, PutIs
<1>3. y = [text |-> t, len |-> z]
  OBVIOUS
<1> HIDE DEF t
<1>4. y.text = t /\ y.len = z /\ y \in Stream
  <2>1. y.text = t /\ y.len = z
    <3>1. [text |-> t, len |-> z].text = t /\ [text |-> t, len |-> z].len = z
      OBVIOUS
    <3> QED BY <1>3, <3>1, Zenon
  <2>2. [text |-> t, len |-> z] \in Stream
    BY <1>2 DEF Stream
  <2> QED BY <1>3, <2>1, <2>2, Zenon
<1>5. m \in Nat /\ e <= z
  BY <1>1, LenProperties
<1>6. Puts(x, p, y, m)
  <2>1. y.text = x.text \o SubSeq(p.s, 1, m)
    BY <1>4 DEF t
  <2>2. Len(y.text) = e + m /\ y.len = z
    BY <1>2, <1>4
  <2>3. x.len <= y.len
    BY <1>5, <2>2
  <2> QED BY <2>1, <2>2, <2>3, Zenon DEF Puts
<1> QED BY <1>4, <1>6

LEMMA PieceStep ==
    ASSUME NEW x \in Stream, NEW p \in StreamedPiece, x.len = Len(x.text), x.len <= LOG_SIZE,
           p.op = "number" => Len(p.s) <= Reserve - 2
    PROVE  /\ Piece1(x, p) \in Stream
           /\ \E k \in 0 .. Len(p.s) : Puts(x, p, Piece1(x, p), k)
<1> DEFINE y == Piece1(x, p)
           a == x.text
           s == p.s
           e == Len(a)
           l == Len(s)
           S == LOG_SIZE
<1> SUFFICES y \in Stream /\ \E k \in 0 .. l : Puts(x, p, y, k)
  OBVIOUS
<1>1. a \in Seq(Int) /\ s \in Seq(Int) /\ e \in Nat /\ l \in Nat /\ x.len = e /\ e <= S
  BY LenProperties DEF Stream, StreamedPiece
<1>2. S \in Nat /\ S >= 2 /\ Reserve \in Nat /\ Reserve > 0
  BY LogTextAssumption
<1>3. \A m \in 0 .. l : m = l => SubSeq(s, 1, m) = s
  BY <1>1, PutIs
<1>4. \A m \in 0 .. l : m = 0 => a \o SubSeq(s, 1, m) = a
  BY <1>1, PutIs
<1>5. x = [text |-> a, len |-> e]
  BY <1>1 DEF Stream
<1>6. \A m \in 0 .. l, z \in Nat :
        /\ y = [text |-> a \o SubSeq(s, 1, m), len |-> z]
        /\ e + m <= S /\ e + m <= z
        /\ p.op # "format" => z = e + m
        /\ p.op = "number" => m = l \/ m = 0
        /\ p.op = "number" /\ m > 0 => x.len + Reserve <= S
        /\ p.op = "text" => m = l \/ e + m = S
        /\ p.op = "format" => z = e + m \/ e + m >= S - 1
        => y \in Stream /\ \E k \in 0 .. l : Puts(x, p, y, k)
  <2> HIDE DEF y
  <2> QED BY <1>1, PutsOf
<1>7. l = 0 <=> s = <<>>
  BY <1>1
<1>8. /\ p.op = "text" => y = write_buffer(x, s)
      /\ p.op = "number" => y = write_number(x, s)
      /\ p.op = "format" => y = LOG_FORMAT(x, s)
  BY DEF Piece1
<1>9. p.op \in {"text", "number", "format"}
  BY DEF StreamedPiece
<1> HIDE DEF y, a, s, e, l, S
\* nothing is put
<1>10. ASSUME y = x, p.op = "text" => l = 0 \/ e = S, p.op # "format"
       PROVE  y \in Stream /\ \E k \in 0 .. l : Puts(x, p, y, k)
  <2> DEFINE m == 0
  <2>1. m \in 0 .. l /\ m = 0 /\ e + m = e
    BY <1>1
  <2> HIDE DEF m
  <2>2. y = [text |-> a \o SubSeq(s, 1, m), len |-> e]
    BY <1>4, <1>5, <1>10, <2>1
  <2>3. ~(m > 0)
    BY <2>1
  <2>4. e + m <= S /\ e + m <= e /\ e = e + m
    BY <1>1, <2>1
  <2>5. p.op = "text" => m = l \/ e + m = S
    BY <1>10, <2>1
  <2> QED BY <1>1, <1>6, <1>10, <2>1, <2>2, <2>3, <2>4, <2>5, Zenon
<1>11. CASE p.op = "text"
  <2>1. y = IF s # <<>> /\ e < S THEN Put1(x, SubSeq(s, 1, Min({l, S - e}))) ELSE x
    BY <1>1, <1>8, <1>11 DEF write_buffer, l, S
  <2>2. CASE s # <<>> /\ e < S
    <3> DEFINE m == Min({l, S - e})
               c == SubSeq(s, 1, m)
    <3>1. l \in Int /\ S - e \in Int
      BY <1>1, <1>2
    <3>2. m = (IF l <= S - e THEN l ELSE S - e)
      BY <3>1, LesserIs
    <3> HIDE DEF m
    <3>3. m \in 0 .. l /\ e + m <= S /\ (m = l \/ e + m = S) /\ e + m \in Nat /\ e + m <= e + m
      BY <1>1, <1>2, <2>2, <3>2
    <3>4. Len(c) = m
      BY <1>1, <3>3, CutIs DEF l
    <3>5. y = Put1(x, c)
      BY <2>1, <2>2 DEF m
    <3>6. y = [text |-> a \o c, len |-> e + m]
      BY <1>5, <3>4, <3>5 DEF Put1
    <3> QED BY <1>6, <1>11, <3>3, <3>6
  <2>3. CASE ~(s # <<>> /\ e < S)
    <3>1. l = 0 \/ e = S
      BY <1>1, <1>2, <1>7, <2>3
    <3> QED BY <1>10, <1>11, <2>1, <2>3, <3>1
  <2> QED BY <2>2, <2>3
<1>12. CASE p.op = "number"
  <2>1. y = IF e + Reserve <= S THEN Put1(x, s) ELSE x
    BY <1>1, <1>8, <1>12 DEF write_number, HasRoom, S
  <2>2. CASE e + Reserve <= S
    <3> DEFINE m == l
               c == SubSeq(s, 1, m)
    <3>1. l <= Reserve - 2
      BY <1>12 DEF l, s
    <3>2. m \in 0 .. l /\ m = l /\ e + m <= S /\ e + m \in Nat /\ e + m <= e + m
      BY <1>1, <1>2, <2>2, <3>1
    <3> HIDE DEF m
    <3>3. c = s
      BY <1>3, <3>2
    <3>4. y = [text |-> a \o c, len |-> e + m]
      BY <1>5, <2>1, <2>2, <3>2, <3>3 DEF Put1, l
    <3>5. x.len + Reserve <= S
      BY <1>1, <2>2
    <3> HIDE DEF c
    <3>6. y = [text |-> a \o SubSeq(s, 1, m), len |-> e + m]
      BY <3>4 DEF c
    <3> QED BY <1>6, <1>12, <3>2, <3>5, <3>6
  <2>3. CASE ~(e + Reserve <= S)
    BY <1>10, <1>12, <2>1, <2>3
  <2> QED BY <2>2, <2>3
<1>13. CASE p.op = "format"
  <2> DEFINE m == Min({l, Max({0, S - e - 1})})
             c == SubSeq(s, 1, m)
             r == Max({0, S - e - 1})
  <2>1. r = IF 0 >= S - e - 1 THEN 0 ELSE S - e - 1
    <3> DEFINE b == S - e - 1
               o == 0
    <3>1. b \in Int /\ o \in Int
      BY <1>1, <1>2
    <3> HIDE DEF b, o
    <3>2. Max({o, b}) = IF o >= b THEN o ELSE b
      BY <3>1, GreaterIs
    <3> QED BY <3>2 DEF o, b
  <2>2. r \in Nat
    BY <1>1, <1>2, <2>1
  <2> HIDE DEF r
  <2>3. m = IF l <= r THEN l ELSE r
    <3>1. Min({l, r}) = IF l <= r THEN l ELSE r
      BY <1>1, <2>2, LesserIs
    <3> QED BY <3>1 DEF r
  <2> HIDE DEF m
  <2>4. m \in 0 .. l /\ e + m <= S /\ e + m <= e + l /\ (m = l \/ e + m >= S - 1) /\ e + l \in Nat
    BY <1>1, <1>2, <2>1, <2>2, <2>3
  <2>5. y = [text |-> a \o c, len |-> e + l]
    BY <1>1, <1>8, <1>13 DEF LOG_FORMAT, m, r, a, l, S
  <2>6. m = l => e + l = e + m
    OBVIOUS
  <2> QED BY <1>6, <1>13, <2>4, <2>5, <2>6
<1> QED BY <1>9, <1>11, <1>12, <1>13

\* The streams before the last piece is put.
Before(i, n) == {x \in Stream : i < n => x.len = Len(x.text) /\ x.len <= LOG_SIZE}

LEMMA StreamsAre ==
    ASSUME NEW pieces, Streamable(pieces)
    PROVE  /\ Streams(pieces)[0] = [text |-> <<>>, len |-> 0]
           /\ \A i \in 1 .. Len(pieces) : Streams(pieces)[i] = Piece1(Streams(pieces)[i - 1], pieces[i])
           /\ \A i \in 0 .. Len(pieces) : Streams(pieces)[i] \in Before(i, Len(pieces))
<1> DEFINE n == Len(pieces)
           base == [text |-> <<>>, len |-> 0]
           W == [i \in 0 .. n |-> Before(i, n)]
           g == [i \in 1 .. n |-> [v \in Before(i - 1, n) |-> Piece1(v, pieces[i])]]
           Plain(f) == f = [i \in 0 .. n |-> IF i = 0 THEN base ELSE Piece1(f[i - 1], pieces[i])]
           Loop(f) == f = [i \in 0 .. n |-> IF i = 0 THEN base ELSE g[i][f[i - 1]]]
           m == CHOOSE f : Plain(f)
<1>1. n \in Nat /\ \A i \in 1 .. n : pieces[i] \in StreamedPiece
  BY LenProperties, ElementOfSeq DEF Streamable
<1>2. \A i \in 1 .. n : \A v \in Before(i - 1, n) : Piece1(v, pieces[i]) \in Before(i, n)
  <2> TAKE i \in 1 .. n
  <2> TAKE v \in Before(i - 1, n)
  <2> DEFINE p == pieces[i]
             y == Piece1(v, p)
  <2>1. v \in Stream /\ v.len = Len(v.text) /\ v.len <= LOG_SIZE
    <3>1. i - 1 < n
      BY <1>1
    <3> QED BY <3>1 DEF Before
  <2>2. p \in StreamedPiece /\ (p.op = "number" => Len(p.s) <= Reserve - 2) /\ (p.op = "format" => i = n)
    BY <1>1 DEF Streamable
  <2> HIDE DEF p
  <2>3. y \in Stream /\ \E k \in 0 .. Len(p.s) : Puts(v, p, y, k)
    BY <2>1, <2>2, PieceStep
  <2> HIDE DEF y
  <2>4. i < n => p.op # "format"
    BY <1>1, <2>2
  <2>5. i < n => y.len = Len(y.text) /\ Len(y.text) <= LOG_SIZE
    BY <2>3, <2>4, Zenon DEF Puts
  <2>6. i < n => y.len = Len(y.text) /\ y.len <= LOG_SIZE
    BY <2>5
  <2>7. y \in Before(i, n)
    BY <2>3, <2>6 DEF Before
  <2> QED BY <2>7 DEF y, p
<1>3. base \in W[0] /\ \A i \in 1 .. n : \A v \in W[i - 1] : g[i][v] \in W[i]
  <2>1. 0 \in 0 .. n /\ \A i \in 1 .. n : i - 1 \in 0 .. n /\ i \in 0 .. n
    BY <1>1
  <2>2. base \in Before(0, n)
    <3> DEFINE e == <<>>
               o == 0
    <3>1. e \in Seq(Int) /\ Len(e) = o /\ o <= LOG_SIZE /\ o \in Nat
      BY LogTextAssumption
    <3> HIDE DEF e, o
    <3>2. [text |-> e, len |-> o] \in Stream
      BY <3>1 DEF Stream
    <3>3. [text |-> e, len |-> o].len = o /\ [text |-> e, len |-> o].text = e
      OBVIOUS
    <3>4. [text |-> e, len |-> o] \in Before(o, n)
      BY <3>1, <3>2, <3>3 DEF Before
    <3> QED BY <3>4 DEF e, o
  <2>3. \A i \in 1 .. n : \A v \in Before(i - 1, n) : g[i][v] \in Before(i, n)
    BY <1>2
  <2>4. W[0] = Before(0, n) /\ \A i \in 1 .. n : W[i - 1] = Before(i - 1, n) /\ W[i] = Before(i, n)
    BY <2>1
  <2> HIDE DEF g, n, base, W
  <2> QED BY <2>2, <2>3, <2>4
<1>4. ASSUME NEW f, \A i \in 0 .. n : f[i] \in W[i]
      PROVE  Plain(f) <=> Loop(f)
  <2>1. \A i \in 1 .. n : i - 1 \in 0 .. n
    BY <1>1
  <2>2. \A i \in 1 .. n : g[i][f[i - 1]] = Piece1(f[i - 1], pieces[i])
    BY <1>4, <2>1
  <2>3. \A i \in 0 .. n : i = 0 \/ i \in 1 .. n
    BY <1>1
  <2> HIDE DEF g, W, n, base
  <2> QED BY <2>2, <2>3
<1>5. \E f : Loop(f) /\ \A i \in 0 .. n : f[i] \in W[i]
  <2> HIDE DEF g, W, n, base
  <2>1. \E f : IsLoop(f, n, base, g) /\ \A i \in 0 .. n : f[i] \in W[i]
    BY <1>1, <1>3, LoopExists, Zenon
  <2> QED BY <2>1 DEF IsLoop
<1>6. Plain(m)
  <2> HIDE DEF g, W, n, base, Plain, Loop
  <2> QED BY <1>4, <1>5
<1>7. \A i \in 0 .. n : m[i] = IF i = 0 THEN base ELSE Piece1(m[i - 1], pieces[i])
  <2> HIDE DEF m, n, base
  <2> QED BY <1>6
<1>8. /\ m[0] = base
      /\ \A i \in 1 .. n : m[i] = Piece1(m[i - 1], pieces[i])
  <2> HIDE DEF m, base
  <2>1. 0 \in 0 .. n /\ \A i \in 1 .. n : i \in 0 .. n /\ i # 0
    BY <1>1
  <2> QED BY <1>7, <2>1
<1>9. \A i \in 0 .. n : m[i] \in W[i]
  <2>1. m[0] \in W[0]
    <3> HIDE DEF m, W, base
    <3> QED BY <1>3, <1>8
  <2>2. ASSUME NEW i \in 1 .. n, m[i - 1] \in W[i - 1] PROVE m[i] \in W[i]
    <3> HIDE DEF m
    <3>1. i - 1 \in 0 .. n /\ i \in 0 .. n
      BY <1>1
    <3>2. m[i - 1] \in Before(i - 1, n)
      BY <2>2, <3>1
    <3> QED BY <1>2, <1>8, <3>1, <3>2
  <2> HIDE DEF m, W
  <2> QED BY <1>1, <2>1, <2>2, LoopInvariant
<1>10. Streams(pieces) = m
  BY DEF Streams
<1> HIDE DEF m
<1> QED BY <1>8, <1>9, <1>10

LEMMA WholesAre ==
    ASSUME NEW pieces, Streamable(pieces)
    PROVE  /\ Wholes(pieces)[0] = <<>>
           /\ \A i \in 1 .. Len(pieces) :
                 Wholes(pieces)[i] = IF i \in Took(pieces) THEN Wholes(pieces)[i - 1] \o pieces[i].s ELSE Wholes(pieces)[i - 1]
           /\ \A i \in 0 .. Len(pieces) : Wholes(pieces)[i] \in Seq(Int)
<1> DEFINE n == Len(pieces)
           K == Took(pieces)
           base == <<>>
           W == [i \in 0 .. n |-> Seq(Int)]
           Next1(i, v) == IF i \in K THEN v \o pieces[i].s ELSE v
           g == [i \in 1 .. n |-> [v \in Seq(Int) |-> Next1(i, v)]]
           Plain(f) == f = [i \in 0 .. n |-> IF i = 0 THEN base ELSE Next1(i, f[i - 1])]
           Loop(f) == f = [i \in 0 .. n |-> IF i = 0 THEN base ELSE g[i][f[i - 1]]]
           m == CHOOSE f : Plain(f)
<1>1. n \in Nat /\ \A i \in 1 .. n : pieces[i].s \in Seq(Int)
  <2>1. n \in Nat /\ \A i \in 1 .. n : pieces[i] \in StreamedPiece
    BY LenProperties, ElementOfSeq DEF Streamable
  <2>2. \A p \in StreamedPiece : p.s \in Seq(Int)
    BY DEF StreamedPiece
  <2> QED BY <2>1, <2>2
<1> HIDE DEF K
<1>2. \A i \in 1 .. n : \A v \in Seq(Int) : Next1(i, v) \in Seq(Int)
  BY <1>1, ConcatProperties
<1>10. Wholes(pieces) = m
  BY DEF Wholes, K
<1> HIDE DEF Next1
<1>3. base \in W[0] /\ \A i \in 1 .. n : \A v \in W[i - 1] : g[i][v] \in W[i]
  <2>1. 0 \in 0 .. n /\ \A i \in 1 .. n : i - 1 \in 0 .. n /\ i \in 0 .. n
    BY <1>1
  <2>2. base \in Seq(Int)
    OBVIOUS
  <2>3. \A i \in 1 .. n : \A v \in Seq(Int) : g[i][v] \in Seq(Int)
    BY <1>2
  <2> HIDE DEF g, n, base
  <2> QED BY <2>1, <2>2, <2>3
<1>4. ASSUME NEW f, \A i \in 0 .. n : f[i] \in W[i]
      PROVE  Plain(f) <=> Loop(f)
  <2>1. \A i \in 1 .. n : i - 1 \in 0 .. n
    BY <1>1
  <2>2. \A i \in 1 .. n : g[i][f[i - 1]] = Next1(i, f[i - 1])
    BY <1>4, <2>1
  <2>3. \A i \in 0 .. n : i = 0 \/ i \in 1 .. n
    BY <1>1
  <2> HIDE DEF g, W, n, base
  <2> QED BY <2>2, <2>3
<1>5. \E f : Loop(f) /\ \A i \in 0 .. n : f[i] \in W[i]
  <2> HIDE DEF g, W, n, base
  <2>1. \E f : IsLoop(f, n, base, g) /\ \A i \in 0 .. n : f[i] \in W[i]
    BY <1>1, <1>3, LoopExists, Zenon
  <2> QED BY <2>1 DEF IsLoop
<1>6. Plain(m)
  <2> HIDE DEF g, W, n, base, Plain, Loop
  <2> QED BY <1>4, <1>5
<1>7. \A i \in 0 .. n : m[i] = IF i = 0 THEN base ELSE Next1(i, m[i - 1])
  <2> HIDE DEF m, n, base
  <2> QED BY <1>6
<1>8. /\ m[0] = base
      /\ \A i \in 1 .. n : m[i] = Next1(i, m[i - 1])
  <2> HIDE DEF m, base
  <2>1. 0 \in 0 .. n /\ \A i \in 1 .. n : i \in 0 .. n /\ i # 0
    BY <1>1
  <2> QED BY <1>7, <2>1
<1>9. \A i \in 0 .. n : m[i] \in W[i]
  <2>1. m[0] \in W[0]
    <3> HIDE DEF m, W, base
    <3> QED BY <1>3, <1>8
  <2>2. ASSUME NEW i \in 1 .. n, m[i - 1] \in W[i - 1] PROVE m[i] \in W[i]
    <3> HIDE DEF m
    <3>1. i - 1 \in 0 .. n /\ i \in 0 .. n
      BY <1>1
    <3>2. m[i - 1] \in Seq(Int)
      BY <2>2, <3>1
    <3> QED BY <1>2, <1>8, <3>1, <3>2
  <2> HIDE DEF m, W
  <2> QED BY <1>1, <2>1, <2>2, LoopInvariant
<1> HIDE DEF m
<1> QED BY <1>8, <1>9, <1>10 DEF Next1, K

\* LogStream, LOG_FORMAT and PushChannel: for any pieces nothing is written past the
\* buffer, the line is what was streamed, cut at the end of the buffer, and a number
\* is in it whole or not at all.
THEOREM LinesAlwaysHold == \A pieces : Streamable(pieces) => LineHolds(pieces)
<1> SUFFICES ASSUME NEW pieces, Streamable(pieces) PROVE LineHolds(pieces)
  OBVIOUS
<1> DEFINE n == Len(pieces)
           x == Streams(pieces)
           w == Wholes(pieces)
           K == Took(pieces)
           S == LOG_SIZE
<1>1. n \in Nat /\ DOMAIN pieces = 1 .. n /\ \A i \in 1 .. n : pieces[i] \in StreamedPiece
  BY LenProperties, ElementOfSeq DEF Streamable
<1>2. S \in Nat /\ S >= 2 /\ Reserve \in Nat /\ Reserve > 0
  BY LogTextAssumption
<1>3. /\ x[0] = [text |-> <<>>, len |-> 0]
      /\ \A i \in 1 .. n : x[i] = Piece1(x[i - 1], pieces[i])
      /\ \A i \in 0 .. n : x[i] \in Before(i, n)
  BY StreamsAre
<1>4. /\ w[0] = <<>>
      /\ \A i \in 1 .. n : w[i] = IF i \in K THEN w[i - 1] \o pieces[i].s ELSE w[i - 1]
      /\ \A i \in 0 .. n : w[i] \in Seq(Int)
  BY WholesAre
<1>5. \A i \in 1 .. n : i \in K <=> Len(x[i].text) > Len(x[i - 1].text)
  BY <1>1 DEF Took
<1>6. K \subseteq 1 .. n
  BY <1>1 DEF Took
<1>7. \A i \in 1 .. n : /\ pieces[i].op = "format" => i = n
                        /\ pieces[i].op = "number" => Len(pieces[i].s) <= Reserve - 2
  BY DEF Streamable
<1>8. \A v \in Stream : v.text \in Seq(Int) /\ v.len \in Nat /\ Len(v.text) \in Nat
  BY LenProperties DEF Stream
<1>9. \A p \in StreamedPiece : p.s \in Seq(Int) /\ p.op \in {"text", "number", "format"} /\ Len(p.s) \in Nat
  BY LenProperties DEF StreamedPiece
<1> HIDE DEF x, w, K, n, S
<1>10. /\ \A i \in 0 .. n : x[i] \in Stream
       /\ \A i \in 1 .. n : x[i - 1].len = Len(x[i - 1].text) /\ x[i - 1].len <= S
  <2>1. \A i \in 1 .. n : i - 1 \in 0 .. n /\ i - 1 < n
    BY <1>1
  <2> QED BY <1>3, <2>1 DEF Before, S
<1>11. \A i \in 1 .. n : \E m \in 0 .. Len(pieces[i].s) : Puts(x[i - 1], pieces[i], x[i], m)
  <2> TAKE i \in 1 .. n
  <2>1. i - 1 \in 0 .. n
    BY <1>1
  <2> DEFINE v == x[i - 1]
             p == pieces[i]
  <2>2. v \in Stream /\ p \in StreamedPiece /\ v.len = Len(v.text) /\ v.len <= LOG_SIZE
    BY <1>1, <1>10, <2>1 DEF S
  <2>3. p.op = "number" => Len(p.s) <= Reserve - 2
    BY <1>7
  <2>4. x[i] = Piece1(v, p)
    BY <1>3
  <2> HIDE DEF v, p
  <2>5. \E k \in 0 .. Len(p.s) : Puts(v, p, x[i], k)
    BY <2>2, <2>3, <2>4, PieceStep
  <2> QED BY <2>5 DEF v, p
\* the text is the beginning of what was streamed, and all of it while there is room
<1> DEFINE Good(i) == /\ IsPrefix(x[i].text, w[i])
                      /\ i < n /\ Len(x[i].text) < S => x[i].text = w[i]
<1>12. Good(0)
  <2> DEFINE e == <<>>
  <2>1. e \in Seq(Int) /\ Len(e) = Len(e) /\ \A i \in 1 .. Len(e) : e[i] = e[i]
    OBVIOUS
  <2>2. IsPrefix(e, e)
    <3> HIDE DEF e
    <3>1. Len(e) \in Nat /\ Len(e) <= Len(e)
      BY <2>1, LenProperties
    <3> QED BY <2>1, <3>1, PrefixIs
  <2>3. x[0].text = e /\ w[0] = e
    BY <1>3, <1>4
  <2> HIDE DEF e
  <2> QED BY <2>2, <2>3
<1>13. ASSUME NEW i \in 1 .. n, Good(i - 1) PROVE Good(i)
  <2> DEFINE a == x[i - 1].text
             y == x[i]
             p == pieces[i]
             s == p.s
             u == w[i - 1]
  <2>1. i - 1 \in 0 .. n /\ i \in 0 .. n /\ i - 1 < n
    BY <1>1
  <2>2. a \in Seq(Int) /\ Len(a) \in Nat /\ Len(a) <= S /\ s \in Seq(Int) /\ Len(s) \in Nat /\ u \in Seq(Int)
    BY <1>1, <1>4, <1>8, <1>9, <1>10, <2>1
  <2>3. PICK m \in 0 .. Len(s) : Puts(x[i - 1], p, y, m)
    BY <1>11
  <2>4. y.text = a \o SubSeq(s, 1, m) /\ Len(y.text) = Len(a) + m /\ Len(y.text) <= S
    BY <2>3 DEF Puts, S
  <2>5. IsPrefix(a, u) /\ (Len(a) < S => a = u)
    BY <1>13, <2>1
  <2>6. i \in K <=> m > 0
    <3>1. i \in K <=> Len(y.text) > Len(a)
      BY <1>5
    <3> HIDE DEF a, y
    <3> QED BY <2>2, <2>4, <3>1
  <2>7. w[i] = IF i \in K THEN u \o s ELSE u
    BY <1>4
  <2>8. /\ p.op = "number" => m = Len(s) \/ m = 0
        /\ p.op = "text" => m = Len(s) \/ Len(y.text) = S
        /\ p.op = "format" => i = n
        /\ p.op \in {"text", "number", "format"}
    BY <1>1, <1>7, <1>9, <2>3 DEF Puts, S
  <2>9. i < n => p.op # "format"
    BY <1>1, <2>8
  <2> HIDE DEF a, y, p, s, u
  <2>10. /\ m = Len(s) => SubSeq(s, 1, m) = s
         /\ m = 0 => a \o SubSeq(s, 1, m) = a
         /\ IsPrefix(a \o SubSeq(s, 1, m), a \o s)
    BY <2>2, PutIs
  <2>11. CASE m = 0
    <3>1. y.text = a /\ w[i] = u
      BY <2>4, <2>6, <2>7, <2>10, <2>11
    <3> QED BY <2>5, <3>1 DEF y
  <2>12. CASE m # 0
    <3>1. m > 0 /\ Len(a) < S
      BY <1>2, <2>2, <2>4, <2>12
    <3>2. w[i] = a \o s
      BY <2>5, <2>6, <2>7, <3>1
    <3>3. IsPrefix(y.text, w[i])
      BY <2>4, <2>10, <3>2
    <3>4. ASSUME i < n, Len(y.text) < S PROVE y.text = w[i]
      <4>1. m = Len(s)
        BY <1>2, <2>2, <2>4, <2>8, <2>9, <2>12, <3>4
      <4> QED BY <2>4, <2>10, <3>2, <4>1
    <3> QED BY <3>3, <3>4 DEF y
  <2> QED BY <2>11, <2>12
<1>14. \A i \in 0 .. n : Good(i)
  <2> HIDE DEF Good
  <2> DEFINE T == {i \in Nat : i <= n => Good(i)}
  <2>2. 0 \in T
    BY <1>12
  <2>3. ASSUME NEW k \in Nat, k \in T PROVE k + 1 \in T
    <3>1. k + 1 <= n => k + 1 \in 1 .. n /\ (k + 1) - 1 = k /\ k <= n
      BY <1>1
    <3>2. k + 1 <= n => Good((k + 1) - 1)
      BY <2>3, <3>1
    <3>3. k + 1 <= n => Good(k + 1)
      BY <1>13, <3>1, <3>2
    <3> QED BY <3>3
  <2>4. Nat \subseteq T
    <3> HIDE DEF T
    <3> QED BY <2>2, <2>3, Induction
  <2> QED BY <1>1, <2>4
\* the length never decreases
<1>15. \A k \in 1 .. n : x[k - 1].len <= x[k].len /\ x[k].len \in Nat /\ x[k - 1].len \in Nat
  <2> TAKE k \in 1 .. n
  <2>1. k - 1 \in 0 .. n /\ k \in 0 .. n
    BY <1>1
  <2> QED BY <1>8, <1>10, <1>11, <2>1 DEF Puts
<1>16. ASSUME NEW k \in 1 .. n PROVE x[k].len <= x[n].len
  <2> DEFINE T == {d \in Nat : k + d <= n => x[k].len <= x[k + d].len}
  <2>1. 0 \in T
    <3>1. k + 0 = k /\ x[k].len <= x[k].len
      BY <1>1, <1>15
    <3> QED BY <3>1
  <2>2. ASSUME NEW d \in Nat, d \in T PROVE d + 1 \in T
    <3> SUFFICES ASSUME k + (d + 1) <= n PROVE x[k].len <= x[k + (d + 1)].len
      OBVIOUS
    <3> DEFINE j == k + (d + 1)
    <3>1. j \in 1 .. n /\ j - 1 = k + d /\ k + d <= n
      BY <1>1
    <3> HIDE DEF j
    <3>2. x[j - 1].len <= x[j].len /\ x[j].len \in Nat /\ x[j - 1].len \in Nat /\ x[k].len \in Nat
      BY <1>15, <3>1
    <3>3. x[k].len <= x[j - 1].len
      BY <2>2, <3>1
    <3>4. x[k].len <= x[j].len
      BY <3>2, <3>3
    <3> QED BY <3>4 DEF j
  <2>3. Nat \subseteq T
    <3> HIDE DEF T
    <3> QED BY <2>1, <2>2, Induction
  <2>4. n - k \in Nat /\ k + (n - k) = n
    BY <1>1
  <2> QED BY <2>3, <2>4
<1> HIDE DEF Good
<1> DEFINE t == x[n].text
           e == Len(t)
           z == x[n].len
<1>17. t \in Seq(Int) /\ e \in Nat /\ z \in Nat /\ e <= S /\ e <= z /\ (z = e \/ e >= S - 1)
  <2>1. n \in 0 .. n
    BY <1>1
  <2>2. t \in Seq(Int) /\ e \in Nat /\ z \in Nat
    BY <1>8, <1>10, <2>1
  <2>3. CASE n = 0
    <3> DEFINE l == <<>>
               o == 0
    <3>1. l \in Seq(Int) /\ Len(l) = o /\ o = 0
      OBVIOUS
    <3>2. x[n] = [text |-> l, len |-> o]
      BY <1>3, <2>3
    <3> HIDE DEF l, o
    <3>3. t = l /\ z = o
      <4>1. [text |-> l, len |-> o].text = l /\ [text |-> l, len |-> o].len = o
        OBVIOUS
      <4> QED BY <3>2, <4>1, Zenon
    <3> HIDE DEF t, z
    <3>4. e = 0 /\ z = 0
      BY <3>1, <3>3
    <3> HIDE DEF e
    <3> QED BY <1>2, <2>2, <3>4 DEF e, t, z
  <2>4. CASE n # 0
    <3> DEFINE p == pieces[n]
    <3>1. n \in 1 .. n
      BY <1>1, <2>4
    <3>2. p.op \in {"text", "number", "format"}
      BY <1>1, <1>9, <3>1
    <3>3. \E m \in 0 .. Len(p.s) : Puts(x[n - 1], p, x[n], m)
      BY <1>11, <3>1
    <3>4. e <= S /\ e <= z /\ (z = e \/ e >= S - 1)
      BY <3>2, <3>3 DEF Puts, S
    <3> QED BY <2>2, <3>4
  <2> QED BY <2>3, <2>4
<1> HIDE DEF t, e, z
<1> DEFINE j == Min({z, S - 2})
           line == PushedLine(x[n])
           front == SubSeq(t, 1, j)
<1>18. j = IF z <= S - 2 THEN z ELSE S - 2
  <2>1. z \in Int /\ S - 2 \in Int
    BY <1>2, <1>17
  <2> QED BY <2>1, LesserIs
<1> HIDE DEF j
<1>19. j \in 0 .. e /\ j \in Nat /\ j <= S - 2
  BY <1>2, <1>17, <1>18
<1>20. front \in Seq(Int) /\ Len(front) = j /\ \A i \in 1 .. j : front[i] = t[i]
  BY <1>17, <1>19, CutIs DEF e
<1>21. line = Append(front, 10)
  <2>1. line = front \o <<10>>
    BY DEF PushedLine, j, z, S, t
  <2> HIDE DEF front, line
  <2>2. front \o <<10>> = Append(front, 10)
    BY <1>20
  <2> QED BY <2>1, <2>2
<1> HIDE DEF front, line
<1>22. /\ line \in Seq(Int) /\ Len(line) = j + 1 /\ line[j + 1] = 10
       /\ \A i \in 1 .. j : line[i] = front[i]
  <2> DEFINE c == 10
  <2>1. c \in Int /\ line = Append(front, c)
    BY <1>21
  <2> HIDE DEF c
  <2>2. /\ Append(front, c) \in Seq(Int) /\ Len(Append(front, c)) = Len(front) + 1
        /\ \A i \in 1 .. Len(front) : Append(front, c)[i] = front[i]
        /\ Append(front, c)[Len(front) + 1] = c
    BY <1>20, <2>1, AppendProperties
  <2>3. line[j + 1] = c
    BY <1>20, <2>1, <2>2
  <2> QED BY <1>20, <2>1, <2>2, <2>3 DEF c
<1>23. Last(line) = 10
  BY <1>22 DEF Last
<1>24. Front(line) = front
  <2> DEFINE u == SubSeq(line, 1, j)
  <2>1. (j + 1) - 1 = j /\ j \in 0 .. Len(line)
    BY <1>19, <1>22
  <2>2. Front(line) = u
    BY <1>22, <2>1 DEF Front
  <2>3. u \in Seq(Int) /\ Len(u) = j /\ \A i \in 1 .. j : u[i] = line[i]
    BY <1>22, <2>1, CutIs
  <2> HIDE DEF u
  <2>4. u = front
    <3>1. Len(u) = Len(front) /\ \A i \in 1 .. Len(u) : u[i] = front[i]
      BY <1>20, <1>22, <2>3
    <3> QED BY <1>20, <2>3, <3>1, SeqEqual
  <2> QED BY <2>2, <2>4
<1>25. IsPrefix(Front(line), w[n])
  <2>1. n \in 0 .. n
    BY <1>1
  <2> DEFINE h == w[n]
  <2>2. h \in Seq(Int) /\ IsPrefix(t, h)
    BY <1>4, <1>14, <2>1 DEF Good, t
  <2> HIDE DEF h
  <2>3. e <= Len(h) /\ Len(h) \in Nat /\ \A i \in 1 .. e : t[i] = h[i]
    BY <1>17, <2>2, PrefixIs, LenProperties DEF e
  <2>4. j <= Len(h) /\ \A i \in 1 .. j : i \in 1 .. e
    BY <1>17, <1>19, <2>3
  <2>5. IsPrefix(front, h)
    BY <1>20, <2>2, <2>3, <2>4, PrefixIs
  <2> QED BY <1>24, <2>5 DEF h
<1>26. ASSUME NEW k \in K, pieces[k].op = "number" PROVE Len(x[k].text) < Len(line)
  <2> DEFINE v == x[k - 1]
             y == x[k]
             p == pieces[k]
             q == Len(y.text)
             o == Len(v.text)
             r == v.len
  <2>1. k \in 1 .. n /\ k - 1 \in 0 .. n /\ k \in 0 .. n
    BY <1>1, <1>6
  <2>2. q \in Nat /\ o \in Nat /\ r \in Nat /\ q > o /\ r = o
    BY <1>5, <1>8, <1>10, <2>1
  <2>3. Len(p.s) <= Reserve - 2 /\ Len(p.s) \in Nat
    BY <1>1, <1>7, <1>9, <1>26, <2>1
  <2> DEFINE l == Len(p.s)
  <2>4. PICK m \in 0 .. l : Puts(v, p, y, m)
    BY <1>11, <2>1
  <2>5. q = o + m /\ (m = l \/ m = 0) /\ (m > 0 => r + Reserve <= S) /\ y.len = q
    BY <1>26, <2>4 DEF Puts, S
  <2>6. q <= z
    BY <1>16, <2>1, <2>5 DEF z
  <2> HIDE DEF v, y, p, q, o, r, l
  <2>7. l <= Reserve - 2 /\ l \in Nat
    BY <2>3 DEF l
  <2>8. q <= S - 2
    BY <1>2, <2>2, <2>5, <2>7
  <2>9. q < j + 1
    BY <1>2, <1>17, <1>18, <2>2, <2>6, <2>8
  <2> QED BY <1>22, <2>9 DEF q, y
<1>27. ASSUME NEW k \in DOMAIN pieces \ K, pieces[k].op = "text", pieces[k].s # <<>>
       PROVE  Len(x[k].text) = S
  <2> DEFINE p == pieces[k]
             l == Len(p.s)
             v == x[k - 1]
             y == x[k]
  <2>1. k \in 1 .. n /\ k - 1 \in 0 .. n /\ k \in 0 .. n /\ k \notin K
    BY <1>1
  <2>2. p.s \in Seq(Int) /\ l \in Nat /\ l # 0
    BY <1>1, <1>9, <1>27, <2>1
  <2>3. PICK m \in 0 .. l : Puts(v, p, y, m)
    BY <1>11, <2>1
  <2>4. Len(y.text) = Len(v.text) + m /\ (m = l \/ Len(y.text) = S)
    BY <1>27, <2>3 DEF Puts, S
  <2>5. Len(y.text) \in Nat /\ Len(v.text) \in Nat /\ ~(Len(y.text) > Len(v.text))
    BY <1>5, <1>8, <1>10, <2>1
  <2> HIDE DEF p, l, v, y
  <2>6. m # l
    BY <2>2, <2>4, <2>5
  <2> QED BY <2>4, <2>6 DEF y
<1>28. e <= S /\ Len(line) <= S - 1
  BY <1>2, <1>17, <1>19, <1>22
<1> QED BY <1>23, <1>25, <1>26, <1>27, <1>28 DEF LineHolds, line, x, w, n, K, S, e, t
=============================================================================

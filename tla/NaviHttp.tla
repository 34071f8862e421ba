------------------------------- MODULE NaviHttp -------------------------------
(***************************************************************************)
(* The navi_http application (apps/navi_http.cpp) on lidig_http_server: it    *)
(* serves files, and keeps a list of names in memory (root_) and in a file     *)
(* (data.json) that its clients extend.  Each request has its own lidig_file,  *)
(* read or written by libuv's thread pool; requests complete in any order,     *)
(* and the connection that asked may be gone by then.  The two lists of root_  *)
(* are treated alike: one of them is modelled.  File models how lidig_file     *)
(* reads; here a file is read or written in one step.                          *)
(***************************************************************************)
EXTENDS TcpServer, Sequences, SequencesExt

CONSTANTS
    Items,       \* names a client may post
    First,       \* the name root_ begins with
    MaxRequests  \* bound: requests of a connection

ASSUME NaviHttpAssumption == MaxRequests \in Nat /\ First \notin Items

VARIABLES
    root,        \* root_: the names in memory
    data,        \* data.json: [there, names, ok]; ok is FALSE once it is no JSON any more
    jobs,        \* files being read or written: [op, s, id, names]
    asked,       \* connection -> requests received
    answers,     \* connection -> the requests answered, in the order of the answers
    orphans,     \* lidig_file objects that nobody closes or deletes
    blind, overlap, piped  \* ghost: data.json was written by a process that had not read
                 \* it; two writes of it were in flight; a connection asked while a file was read for it

naviVars == <<root, data, jobs, asked, answers, orphans, blind, overlap, piped>>

NaviInit ==
    /\ root = <<First>>
    /\ data \in [there : {TRUE}, names : {<<>>} \cup {<<First, n>> : n \in Items}, ok : {TRUE}]
                    \cup {[there |-> FALSE, names |-> <<>>, ok |-> TRUE]}
    /\ jobs = {} /\ asked = [s \in Sessions |-> 0] /\ answers = [s \in Sessions |-> <<>>]
    /\ orphans = 0 /\ blind = FALSE /\ overlap = FALSE /\ piped = FALSE

-----------------------------------------------------------------------------
\* Mutant: names are appended without looking for them.
Merged_Again(names) == root \o names

\* The names that root_ does not have yet are appended to it.
Merged(names) ==
    LET m[i \in 0 .. Len(names)] ==
            IF i = 0 THEN root
            ELSE IF Contains(m[i - 1], names[i]) THEN m[i - 1] ELSE Append(m[i - 1], names[i])
    IN m[Len(names)]

\* send_response on the connection: headers and body go out in one write.
Answer(s, id, x) ==
    /\ sess' = [sess EXCEPT ![s] = x]
    /\ answers' = [answers EXCEPT ![s] = Append(@, id)]

Reads(s) == {j \in jobs : j.op \in {"list", "file"} /\ j.s = s}
Writes == {j \in jobs : j.op = "write"}

\* Mutant: a file that cannot be read is answered, and read nevertheless.
readfile_Anyway(s, id, op, there) ==
    /\ jobs' = jobs \cup {[op |-> op, s |-> s, id |-> id, names |-> <<>>]}
    /\ IF there THEN UNCHANGED <<sess, answers>> ELSE Answer(s, id, Written(sess[s]))

\* A request for a file: one that is there is read, for one that is not the
\* answer is 404 and the connection is closed.
readfile(s, id, op, there) ==
    IF there THEN /\ jobs' = jobs \cup {[op |-> op, s |-> s, id |-> id, names |-> <<>>]}
                  /\ UNCHANGED <<sess, answers>>
    ELSE Answer(s, id, Closing(Written(sess[s]))) /\ UNCHANGED jobs

\* Mutant: only the posted names are written, not the list they extend.
Rewrite_Posted(s, id, names) ==
    jobs' = jobs \cup {[op |-> "write", s |-> s, id |-> id, names |-> names]}

\* data.json is written from its beginning on, with all of root_, and is not truncated.
Rewrite(s, id, names) ==
    jobs' = jobs \cup {[op |-> "write", s |-> s, id |-> id, names |-> root']}

\* navi_http::on_packet with the path /post: the names of a body that is a JSON
\* object are merged, the answer is sent, and data.json rewritten if it can be
\* opened.  The lidig_file is never closed or deleted.
on_packet_post(s, id, names, json) ==
    /\ root' = IF json THEN Merged(names) ELSE root
    /\ Answer(s, id, Written(sess[s]))
    /\ IF data.there THEN Rewrite(s, id, names) ELSE UNCHANGED jobs
    /\ orphans' = orphans + 1
    /\ blind' = (blind \/ ~(ToSet(data.names) \subseteq ToSet(root')))
    /\ overlap' = (overlap \/ Writes # {})
    /\ UNCHANGED data

\* navi_http::on_packet on the other paths; without one the answer is 200 and
\* the connection is closed.
on_packet_get(s, id, path) ==
    /\ CASE path = "/dictList" -> readfile(s, id, "list", data.there)
         [] path = "/file" -> readfile(s, id, "file", TRUE)
         [] path = "/missing" -> readfile(s, id, "file", FALSE)
         [] OTHER -> Answer(s, id, Closing(Written(sess[s]))) /\ UNCHANGED jobs
    /\ UNCHANGED <<root, data, orphans, blind, overlap>>

\* A request has arrived on a connection that is being read.
on_packet(s) ==
    /\ sess[s].handle = "open" /\ sess[s].writes < MaxWrites /\ asked[s] < MaxRequests
    /\ asked' = [asked EXCEPT ![s] = @ + 1]
    /\ piped' = (piped \/ Reads(s) # {})
    /\ \/ \E path \in {"", "/dictList", "/file", "/missing"} : on_packet_get(s, asked'[s], path)
       \/ \E n \in Items, json \in BOOLEAN : on_packet_post(s, asked'[s], <<n>>, json)
    /\ UNCHANGED <<kind, listener, misuse>>

\* test_file::on_read: what was read of data.json, if it is JSON, is merged into
\* root_, and sent to the connection that asked for it.  An empty file, and one
\* that can no longer be read, is closed without on_read.
file_on_read(j, nread) ==
    /\ jobs' = jobs \ {j}
    /\ root' = IF nread /\ j.op = "list" /\ data.ok THEN Merged(data.names) ELSE root
    /\ IF ~nread THEN UNCHANGED <<sess, answers, misuse>>
       ELSE IF sess[j.s].obj = "live" THEN Answer(j.s, j.id, Written(sess[j.s])) /\ UNCHANGED misuse
       ELSE misuse' = "answer to a deleted connection" /\ UNCHANGED <<sess, answers>>
    /\ UNCHANGED <<kind, listener, data, asked, orphans, blind, overlap, piped>>

\* A write of data.json is done: a shorter list leaves the end of a longer one.
on_write(j) ==
    /\ jobs' = jobs \ {j}
    /\ data' = IF Len(j.names) >= Len(data.names) THEN [data EXCEPT !.names = j.names, !.ok = TRUE]
               ELSE [data EXCEPT !.ok = FALSE]
    /\ UNCHANGED <<srvVars, root, asked, answers, orphans, blind, overlap, piped>>

NaviDone == \E j \in jobs : \/ j.op = "write" /\ on_write(j)
                            \/ /\ j.op # "write"
                               /\ sess[j.s].writes < MaxWrites
                               /\ \E nread \in BOOLEAN : file_on_read(j, nread)

NaviNext ==
    /\ misuse = ""
    /\ \/ SrvStep /\ UNCHANGED naviVars
       \/ \E s \in Sessions : on_packet(s)
       \/ NaviDone

NaviSpec == SrvInit({"http"}) /\ NaviInit /\ [][NaviNext]_<<srvVars, naviVars>>

-----------------------------------------------------------------------------
(* Properties *)

\* root_ is a list without duplicates, whatever is posted, read back and merged in
\* whatever order.
NoDuplicates == Cardinality(ToSet(root)) = Len(root)

\* data.json stays JSON, and what it holds is what root_ held, unless it was
\* written without having been read, or by two posts at once: only then can a
\* shorter list be written over a longer one.
DataIntact == ~blind /\ ~overlap => data.ok /\ (orphans > 0 => ToSet(data.names) \subseteq ToSet(root))

\* Once the last of several posts, never two at once, was written, what they
\* added is in data.json: it holds all of root_.
PostsAreSaved ==
    ~blind /\ ~overlap /\ orphans > 0 /\ Writes = {} /\ data.there => ToSet(data.names) = ToSet(root)

\* No request is answered twice, and answers come in the order of the requests
\* unless the client asked again while a file was being read for it.
AnsweredOnce ==
    \A s \in Sessions :
        /\ Cardinality(ToSet(answers[s])) = Len(answers[s])
        /\ ~piped => \A i \in 2 .. Len(answers[s]) : answers[s][i - 1] < answers[s][i]
        /\ ToSet(answers[s]) \subseteq 1 .. asked[s]
        /\ Cardinality(ToSet(answers[s]) \cup {j.id : j \in Reads(s)}) = Len(answers[s]) + Cardinality(Reads(s))

\* navi_http with requests that overlap: every request is answered once and in order,
\* and the list on disk follows the one in memory.
NaviIsSound == AnsweredOnce /\ NoDuplicates /\ DataIntact /\ PostsAreSaved
=============================================================================

------------------------------- MODULE Stream -------------------------------
(***************************************************************************)
(* lidig_stream (base/lidig_stream.cpp): writes, reads and close on one    *)
(* libuv stream handle.  All handlers run on the loop thread.  The handle  *)
(* belongs to libuv, which is modelled as the code uses it: a queued write *)
(* completes or is cancelled by uv_close, and close_cb comes after every   *)
(* cancelled request.  Data read is handed to on_read, which the           *)
(* components above define; only what changes the stream is here.          *)
(***************************************************************************)
EXTENDS Integers

CONSTANT Write      \* identities of the async_write calls of a behaviour

VARIABLES
  handle,     \* handle_: "raw" (never initialised), "init", "connecting",
              \* "open", "closing", "closed"
  is_alive_,
  reading,    \* uv_read_start is in effect
  wstate,     \* each call: "new", "queued" in libuv, "done", "rejected",
              \* "lost" (uv_write refused it: leaked, never answered)
  acks,       \* history: on_write callbacks received for each call
  crashed     \* uv_close was given a handle that was never initialised

streamVars == <<handle, is_alive_, reading, wstate, acks, crashed>>

HandleState == {"raw", "init", "connecting", "open", "closing", "closed"}
WriteState == {"new", "queued", "done", "rejected", "lost"}

StreamTypeOK ==
  /\ handle \in HandleState
  /\ is_alive_ \in BOOLEAN
  /\ reading \in BOOLEAN
  /\ wstate \in [Write -> WriteState]
  /\ acks \in [Write -> Nat]
  /\ crashed \in BOOLEAN

StreamInit ==
  /\ handle = "raw"
  /\ is_alive_ = FALSE
  /\ reading = FALSE
  /\ wstate = [w \in Write |-> "new"]
  /\ acks = [w \in Write |-> 0]
  /\ crashed = FALSE

uv_is_closing == handle \in {"closing", "closed"}

\* on_write is called for w, which ends as s.
Answer(w, s) ==
  /\ wstate' = [wstate EXCEPT ![w] = s]
  /\ acks' = [acks EXCEPT ![w] = @ + 1]

\* uv_write: refused, with no callback, unless the handle is open.
uv_write(w) ==
  /\ wstate' = [wstate EXCEPT ![w] = IF handle = "open" THEN "queued" ELSE "lost"]
  /\ UNCHANGED acks

\* Mutated form of async_write: the liveness test is missing.
async_write_Unchecked(w, null) ==
  /\ wstate[w] = "new"
  /\ IF null THEN Answer(w, "rejected") ELSE uv_write(w)
  /\ UNCHANGED <<handle, is_alive_, reading, crashed>>

async_write(w, null) ==
  /\ wstate[w] = "new"
  /\ IF ~is_alive_ \/ null THEN Answer(w, "rejected") ELSE uv_write(w)
  /\ UNCHANGED <<handle, is_alive_, reading, crashed>>

\* libuv completes a queued write, or cancels it once the handle is closing.
write_cb(w) ==
  /\ wstate[w] = "queued"
  /\ Answer(w, "done")
  /\ UNCHANGED <<handle, is_alive_, reading, crashed>>

\* Mutated form of close: it returns early when the stream is not alive.
close_OnlyAlive ==
  /\ IF ~is_alive_
     THEN UNCHANGED <<handle, is_alive_, reading, crashed>>
     ELSE is_alive_' = FALSE /\ reading' = FALSE /\ handle' = "closing" /\ UNCHANGED crashed
  /\ UNCHANGED <<wstate, acks>>

\* Mutated form of close: the stream stays alive until close_cb.
close_StaysAlive ==
  /\ IF uv_is_closing \/ handle = "raw"
     THEN /\ crashed' = (crashed \/ handle = "raw")
          /\ UNCHANGED <<handle, reading, is_alive_>>
     ELSE handle' = "closing" /\ reading' = FALSE /\ UNCHANGED <<is_alive_, crashed>>
  /\ UNCHANGED <<wstate, acks>>

\* lidig_stream::close.  uv_close on a zeroed handle has no loop to queue on.
close ==
  /\ IF uv_is_closing
     THEN UNCHANGED <<handle, is_alive_, reading, crashed>>
     ELSE /\ is_alive_' = FALSE
          /\ reading' = FALSE
          /\ handle' = IF handle = "raw" THEN handle ELSE "closing"
          /\ crashed' = (handle = "raw")
  /\ UNCHANGED <<wstate, acks>>

\* The read callback with nread < 0: set_not_alive, then close.
read_error ==
  /\ reading
  /\ handle = "open"
  /\ close

\* async_read_start on a handle that has just been connected or accepted.
async_read_start ==
  /\ is_alive_' = TRUE
  /\ reading' = TRUE

\* close_cb may run: libuv has answered every queued write.
Drained == \A w \in Write : wstate[w] # "queued"

close_cb ==
  /\ handle = "closing"
  /\ Drained
  /\ handle' = "closed"
  /\ UNCHANGED <<is_alive_, reading, wstate, acks, crashed>>

-----------------------------------------------------------------------------
\* The alive flag is never stale: async_write reaches uv_write only on an open
\* handle that is being read (so that a broken connection is noticed).
AliveMeansOpen == is_alive_ => handle = "open" /\ reading

\* Every async_write is answered by on_write exactly once, or still queued in
\* libuv; none is refused behind the caller's back or answered twice.
WritesAnsweredOnce ==
  \A w \in Write :
    /\ wstate[w] # "lost"
    /\ acks[w] = IF wstate[w] \in {"done", "rejected"} THEN 1 ELSE 0
=============================================================================

-------------------------- MODULE TcpClientProofs ---------------------------
(***************************************************************************)
(* Invariance and refinement proofs for TcpClient, for every set of writes *)
(* and every number of connections.                                        *)
(***************************************************************************)
EXTENDS TcpClient, TLAPS

\* How the request in flight, the handle and the notifications go together.
Lifecycle ==
  /\ req = "resolving" => handle \in {"raw", "closed"} /\ told = {}
  /\ req = "connecting" => handle \in {"connecting", "closing"} /\ told = {}
  /\ handle = "connecting" => req = "connecting"
  /\ handle = "init" => told = {} /\ req = "none"
  /\ handle = "open" => "closed" \notin told /\ req = "none"
  /\ handle = "closing" => "closed" \notin told
  /\ "up" \notin told \/ "failed" \notin told

\* The inductive invariant: writes are queued only in an open or closing handle.
IInv ==
  /\ TypeOK
  /\ AliveMeansOpen
  /\ reading => handle = "open"
  /\ WritesAnsweredOnce
  /\ handle \notin {"open", "closing"} => Drained
  /\ Lifecycle

-----------------------------------------------------------------------------
\* The initial state satisfies the inductive invariant.
LEMMA InitInv == Init => IInv
<1> SUFFICES ASSUME Init PROVE IInv
  OBVIOUS
<1>1. TypeOK
  <2>1. connects \in 0..MaxConnects
    BY MaxConnectsAssumption DEF Init
  <2> QED BY <2>1 DEF Init, StreamInit, TypeOK, StreamTypeOK, HandleState, WriteState
<1>2. WritesAnsweredOnce /\ Drained
  BY DEF Init, StreamInit, WritesAnsweredOnce, Drained
<1> QED BY <1>1, <1>2 DEF Init, StreamInit, IInv, AliveMeansOpen, Lifecycle

\* Every call of the user and every callback of libuv preserves it.
LEMMA NextInv == IInv /\ [Next]_vars => IInv'
<1> SUFFICES ASSUME IInv, [Next]_vars PROVE IInv'
  OBVIOUS
<1> USE DEF IInv
<1>1. CASE connect
  <2>1. TypeOK'
    <3>1. connects' \in 0..MaxConnects
      BY <1>1, MaxConnectsAssumption DEF TypeOK, connect
    <3> QED BY <1>1, <3>1 DEF TypeOK, StreamTypeOK, HandleState, connect, TcpConnect
  <2>2. AliveMeansOpen' /\ (reading => handle = "open")'
    BY <1>1 DEF TypeOK, StreamTypeOK, AliveMeansOpen, Lifecycle, connect, TcpConnect
  <2>3. WritesAnsweredOnce' /\ (handle \notin {"open", "closing"} => Drained)'
    BY <1>1 DEF TypeOK, StreamTypeOK, AliveMeansOpen, Lifecycle, WritesAnsweredOnce, Drained, connect, TcpConnect
  <2>4. Lifecycle'
    BY <1>1 DEF TypeOK, StreamTypeOK, Lifecycle, AliveMeansOpen, connect, TcpConnect
  <2> QED BY <2>1, <2>2, <2>3, <2>4
<1>2. CASE resolved_cb_fail
  <2>1. TypeOK'
    BY <1>2 DEF TypeOK, StreamTypeOK, HandleState, WriteState, resolved_cb_fail, streamVars, notify
  <2>2. AliveMeansOpen' /\ (reading => handle = "open")'
    BY <1>2 DEF TypeOK, StreamTypeOK, AliveMeansOpen, Lifecycle, resolved_cb_fail, streamVars, notify
  <2>3. WritesAnsweredOnce' /\ (handle \notin {"open", "closing"} => Drained)'
    BY <1>2 DEF TypeOK, StreamTypeOK, AliveMeansOpen, Lifecycle, WritesAnsweredOnce, Drained, resolved_cb_fail, streamVars, notify
  <2>4. Lifecycle'
    BY <1>2 DEF TypeOK, StreamTypeOK, Lifecycle, AliveMeansOpen, resolved_cb_fail, streamVars, notify
  <2> QED BY <2>1, <2>2, <2>3, <2>4
<1>3. CASE resolved_cb_ok
  <2>1. TypeOK'
    BY <1>3 DEF TypeOK, StreamTypeOK, HandleState, WriteState, resolved_cb_ok
  <2>2. AliveMeansOpen' /\ (reading => handle = "open")'
    BY <1>3 DEF TypeOK, StreamTypeOK, AliveMeansOpen, Lifecycle, resolved_cb_ok
  <2>3. WritesAnsweredOnce' /\ (handle \notin {"open", "closing"} => Drained)'
    BY <1>3 DEF TypeOK, StreamTypeOK, AliveMeansOpen, Lifecycle, WritesAnsweredOnce, Drained, resolved_cb_ok
  <2>4. Lifecycle'
    BY <1>3 DEF TypeOK, StreamTypeOK, Lifecycle, AliveMeansOpen, resolved_cb_ok
  <2> QED BY <2>1, <2>2, <2>3, <2>4
<1>4. CASE connect_cb_fail
  <2>1. TypeOK'
    BY <1>4 DEF TypeOK, StreamTypeOK, HandleState, WriteState, connect_cb_fail, close, uv_is_closing, notify
  <2>2. AliveMeansOpen' /\ (reading => handle = "open")'
    BY <1>4 DEF TypeOK, StreamTypeOK, AliveMeansOpen, Lifecycle, connect_cb_fail, close, uv_is_closing, notify
  <2>3. WritesAnsweredOnce' /\ (handle \notin {"open", "closing"} => Drained)'
    BY <1>4 DEF TypeOK, StreamTypeOK, AliveMeansOpen, Lifecycle, WritesAnsweredOnce, Drained, connect_cb_fail, close, uv_is_closing, notify
  <2>4. Lifecycle'
    BY <1>4 DEF TypeOK, StreamTypeOK, Lifecycle, AliveMeansOpen, connect_cb_fail, close, uv_is_closing, notify
  <2> QED BY <2>1, <2>2, <2>3, <2>4
<1>5. CASE connect_cb_ok
  <2>1. TypeOK'
    BY <1>5 DEF TypeOK, StreamTypeOK, HandleState, WriteState, connect_cb_ok, async_read_start, notify
  <2>2. AliveMeansOpen' /\ (reading => handle = "open")'
    BY <1>5 DEF TypeOK, StreamTypeOK, AliveMeansOpen, Lifecycle, connect_cb_ok, async_read_start, notify
  <2>3. WritesAnsweredOnce' /\ (handle \notin {"open", "closing"} => Drained)'
    BY <1>5 DEF TypeOK, StreamTypeOK, AliveMeansOpen, Lifecycle, WritesAnsweredOnce, Drained, connect_cb_ok, async_read_start, notify
  <2>4. Lifecycle'
    BY <1>5 DEF TypeOK, StreamTypeOK, Lifecycle, AliveMeansOpen, connect_cb_ok, async_read_start, notify
  <2> QED BY <2>1, <2>2, <2>3, <2>4
<1>6. CASE UserWrite
  <2>1. TypeOK'
    BY <1>6 DEF TypeOK, StreamTypeOK, HandleState, WriteState, UserWrite, async_write, Answer, uv_write, clientVars
  <2>2. AliveMeansOpen' /\ (reading => handle = "open")'
    BY <1>6 DEF TypeOK, StreamTypeOK, AliveMeansOpen, Lifecycle, UserWrite, async_write, Answer, uv_write, clientVars
  <2>3. WritesAnsweredOnce' /\ (handle \notin {"open", "closing"} => Drained)'
    BY <1>6 DEF TypeOK, StreamTypeOK, AliveMeansOpen, Lifecycle, WritesAnsweredOnce, Drained, UserWrite, async_write, Answer, uv_write, clientVars
  <2>4. Lifecycle'
    BY <1>6 DEF TypeOK, StreamTypeOK, Lifecycle, AliveMeansOpen, UserWrite, async_write, Answer, uv_write, clientVars
  <2> QED BY <2>1, <2>2, <2>3, <2>4
<1>7. CASE UserClose
  <2>1. TypeOK'
    BY <1>7 DEF TypeOK, StreamTypeOK, HandleState, WriteState, UserClose, close, uv_is_closing
  <2>2. AliveMeansOpen' /\ (reading => handle = "open")'
    BY <1>7 DEF TypeOK, StreamTypeOK, AliveMeansOpen, Lifecycle, UserClose, close, uv_is_closing
  <2>3. WritesAnsweredOnce' /\ (handle \notin {"open", "closing"} => Drained)'
    BY <1>7 DEF TypeOK, StreamTypeOK, AliveMeansOpen, Lifecycle, WritesAnsweredOnce, Drained, UserClose, close, uv_is_closing
  <2>4. Lifecycle'
    <3>1. CASE handle \in {"raw", "closing", "closed"}
      BY <1>7, <3>1 DEF Lifecycle, UserClose, close, uv_is_closing
    <3>2. CASE handle \in {"init", "connecting", "open"}
      <4>1. handle' = "closing" /\ req' = req /\ told' = told
        BY <1>7, <3>2 DEF UserClose, close, uv_is_closing
      <4> QED BY <3>2, <4>1 DEF Lifecycle
    <3> QED BY <3>1, <3>2 DEF TypeOK, StreamTypeOK, HandleState
  <2> QED BY <2>1, <2>2, <2>3, <2>4
<1>8. CASE WriteDone
  <2>1. TypeOK'
    BY <1>8 DEF TypeOK, StreamTypeOK, HandleState, WriteState, WriteDone, write_cb, Answer, clientVars
  <2>2. AliveMeansOpen' /\ (reading => handle = "open")'
    BY <1>8 DEF TypeOK, StreamTypeOK, AliveMeansOpen, Lifecycle, WriteDone, write_cb, Answer, clientVars
  <2>3. WritesAnsweredOnce' /\ (handle \notin {"open", "closing"} => Drained)'
    BY <1>8 DEF TypeOK, StreamTypeOK, AliveMeansOpen, Lifecycle, WritesAnsweredOnce, Drained, WriteDone, write_cb, Answer, clientVars
  <2>4. Lifecycle'
    BY <1>8 DEF TypeOK, StreamTypeOK, Lifecycle, AliveMeansOpen, WriteDone, write_cb, Answer, clientVars
  <2> QED BY <2>1, <2>2, <2>3, <2>4
<1>9. CASE ReadError
  <2>1. TypeOK'
    BY <1>9 DEF TypeOK, StreamTypeOK, HandleState, WriteState, ReadError, read_error, close, uv_is_closing, clientVars
  <2>2. AliveMeansOpen' /\ (reading => handle = "open")'
    BY <1>9 DEF TypeOK, StreamTypeOK, AliveMeansOpen, Lifecycle, ReadError, read_error, close, uv_is_closing, clientVars
  <2>3. WritesAnsweredOnce' /\ (handle \notin {"open", "closing"} => Drained)'
    BY <1>9 DEF TypeOK, StreamTypeOK, AliveMeansOpen, Lifecycle, WritesAnsweredOnce, Drained, ReadError, read_error, close, uv_is_closing, clientVars
  <2>4. Lifecycle'
    BY <1>9 DEF TypeOK, StreamTypeOK, Lifecycle, AliveMeansOpen, ReadError, read_error, close, uv_is_closing, clientVars
  <2> QED BY <2>1, <2>2, <2>3, <2>4
<1>10. CASE CloseDone
  <2>1. TypeOK'
    BY <1>10 DEF TypeOK, StreamTypeOK, HandleState, WriteState, CloseDone, close_cb, notify
  <2>2. AliveMeansOpen' /\ (reading => handle = "open")'
    BY <1>10 DEF TypeOK, StreamTypeOK, AliveMeansOpen, Lifecycle, CloseDone, close_cb, notify
  <2>3. WritesAnsweredOnce' /\ (handle \notin {"open", "closing"} => Drained)'
    BY <1>10 DEF TypeOK, StreamTypeOK, AliveMeansOpen, Lifecycle, WritesAnsweredOnce, Drained, CloseDone, close_cb, notify
  <2>4. Lifecycle'
    BY <1>10 DEF TypeOK, StreamTypeOK, Lifecycle, AliveMeansOpen, CloseDone, close_cb, notify
  <2> QED BY <2>1, <2>2, <2>3, <2>4
<1>11. CASE UNCHANGED vars
  BY <1>11 DEF vars, streamVars, clientVars, TypeOK, StreamTypeOK, AliveMeansOpen,
     WritesAnsweredOnce, Drained, Lifecycle
<1> QED BY <1>1, <1>2, <1>3, <1>4, <1>5, <1>6, <1>7, <1>8, <1>9, <1>10, <1>11 DEF Next

\* The inductive invariant holds throughout.
LEMMA Invariance == Spec => []IInv
BY InitInv, NextInv, PTL DEF Spec

\* Type correctness of the client, for any set of writes and any number of
\* connections.
THEOREM TypeCorrect == Spec => []TypeOK
BY Invariance, PTL DEF IInv

\* is_alive_ is never stale: async_write hands a write to libuv only on an open
\* handle.
THEOREM AliveIsNeverStale == Spec => []AliveMeansOpen
BY Invariance, PTL DEF IInv

\* Every async_write is answered by on_write exactly once, or still queued.
THEOREM WritesAnswered == Spec => []WritesAnsweredOnce
BY Invariance, PTL DEF IInv

\* After on_close libuv holds nothing of the client.
THEOREM CloseIsFinal == Spec => []QuietAfterClose
<1>1. IInv => QuietAfterClose
  BY DEF IInv, QuietAfterClose, Lifecycle, AliveMeansOpen, TypeOK, StreamTypeOK, HandleState
<1> QED BY <1>1, Invariance, PTL

\* A connection whose close() took effect is never reported up by connect_cb.
THEOREM ClosedNeverUp == Spec => NeverUpAfterClose
<1> DEFINE Hung == hung_up => handle \in {"closing", "closed"} /\ req # "resolving"
<1>1. Init => Hung
  BY DEF Init
<1>2. IInv /\ Hung /\ [Next]_vars => Hung'
  <2> SUFFICES ASSUME IInv, Hung, [Next]_vars PROVE Hung'
    OBVIOUS
  <2> QED BY DEF IInv, TypeOK, StreamTypeOK, Lifecycle, vars, streamVars, clientVars, Next,
        connect, TcpConnect, resolved_cb_fail, resolved_cb_ok, connect_cb_fail, connect_cb_ok,
        UserWrite, UserClose, WriteDone, ReadError, CloseDone, async_write, write_cb,
        read_error, close, close_cb, uv_is_closing
<1>3. Hung /\ [Next]_vars => [("up" \in told' /\ "up" \notin told) => ~hung_up]_vars
  <2> SUFFICES ASSUME Hung, Next, "up" \in told', "up" \notin told PROVE ~hung_up
    OBVIOUS
  <2>1. connect_cb_ok
    BY DEF Next, connect, resolved_cb_fail, resolved_cb_ok, connect_cb_fail, UserWrite,
       UserClose, WriteDone, ReadError, CloseDone, clientVars, notify
  <2> QED BY <2>1 DEF connect_cb_ok
<1> QED BY <1>1, <1>2, <1>3, Invariance, PTL DEF Spec, NeverUpAfterClose

-----------------------------------------------------------------------------
\* Shorthands of the refinement: the writes the abstract channel sees.
Out == {w \in Write : wstate[w] = "queued"}

\* The initial state of the client is one of the abstract channel.
LEMMA RefineInit == Init => C!Init
BY DEF Init, StreamInit, C!Init, Phase

\* Every step of the client is a step of the abstract channel, or changes
\* nothing that the channel shows.
LEMMA RefineNext == IInv /\ [Next]_vars => [C!Next]_(C!vars)
<1> SUFFICES ASSUME IInv, [Next]_vars PROVE [C!Next]_(C!vars)
  OBVIOUS
<1> USE DEF IInv
<1>t. handle \in HandleState /\ req \in {"none", "resolving", "connecting"}
      /\ wstate \in [Write -> WriteState]
  BY DEF TypeOK, StreamTypeOK
<1>1. CASE connect
  <2>1. Phase = "idle" /\ Phase' \in {"idle", "opening"}
    BY <1>1 DEF connect, TcpConnect, Phase
  <2> QED BY <1>1, <2>1 DEF connect, C!Next, C!Open
<1>2. CASE resolved_cb_fail
  <2>1. Phase = "opening" /\ Phase' = "idle" /\ told = {} /\ Drained
    BY <1>2 DEF resolved_cb_fail, streamVars, Phase, Lifecycle
  <2> QED BY <1>2, <2>1 DEF resolved_cb_fail, streamVars, notify, C!Next, C!Ended, Drained
<1>3. CASE resolved_cb_ok
  <2>1. Phase = "opening" /\ Phase' \in {"idle", "opening"} /\ told = {}
    BY <1>3 DEF resolved_cb_ok, Phase, Lifecycle
  <2> QED BY <1>3, <2>1 DEF resolved_cb_ok, C!Next, C!Dropped, C!vars
<1>4. CASE connect_cb_fail
  <2>1. Phase \in {"opening", "down"} /\ Phase' = "down" /\ told = {}
    BY <1>4 DEF connect_cb_fail, close, uv_is_closing, Phase, Lifecycle
  <2>2. told' = {"failed"} /\ wstate' = wstate
    BY <1>4, <2>1 DEF connect_cb_fail, close, notify
  <2> QED BY <2>1, <2>2 DEF C!Next, C!Failed
<1>5. CASE connect_cb_ok
  <2>1. Phase = "opening" /\ Phase' = "up" /\ told = {}
    BY <1>5 DEF connect_cb_ok, Phase, Lifecycle
  <2>2. told' = {"up"} /\ wstate' = wstate
    BY <1>5, <2>1 DEF connect_cb_ok, notify
  <2> QED BY <2>1, <2>2 DEF C!Next, C!Up
<1>6. CASE UserWrite
  <2>1. PICK w \in Write, null \in BOOLEAN : async_write(w, null)
    BY <1>6 DEF UserWrite
  <2>2. Phase' = Phase /\ told' = told
    BY <1>6, <2>1 DEF UserWrite, async_write, clientVars, Phase
  <2>3. CASE wstate'[w] = "queued"
    <3>1. handle = "open"
      BY <1>t, <2>1, <2>3 DEF async_write, Answer, uv_write
    <3>2. Phase = "up"
      BY <3>1 DEF Phase
    <3>3. Out' = Out \cup {w}
      BY <1>t, <2>1, <2>3 DEF async_write, Answer, uv_write, Out
    <3> QED BY <2>2, <3>2, <3>3 DEF Out, C!Next, C!Submit
  <2>4. CASE wstate'[w] # "queued"
    <3>1. Out' = Out
      BY <1>t, <2>1, <2>4 DEF async_write, Answer, uv_write, Out
    <3> QED BY <2>2, <3>1 DEF Out, C!vars
  <2> QED BY <2>3, <2>4
<1>7. CASE UserClose
  <2>1. told' = told /\ wstate' = wstate
    BY <1>7 DEF UserClose, close
  <2>2. CASE handle \in {"init", "connecting", "open"}
    <3>1. handle' = "closing"
      BY <1>7, <2>2 DEF UserClose, close, uv_is_closing
    <3>2. Phase \in {"opening", "up"} /\ Phase' = "down"
      BY <2>2, <3>1 DEF Phase
    <3> QED BY <2>1, <3>2 DEF C!Next, C!Down
  <2>3. CASE handle \in {"raw", "closing", "closed"}
    <3>1. Phase' = Phase
      BY <1>7, <2>3 DEF UserClose, close, uv_is_closing, Phase
    <3> QED BY <2>1, <3>1 DEF C!vars
  <2> QED BY <1>t, <2>2, <2>3 DEF HandleState
<1>8. CASE WriteDone
  <2>1. PICK w \in Write : write_cb(w)
    BY <1>8 DEF WriteDone
  <2>2. Phase' = Phase /\ told' = told
    BY <1>8, <2>1 DEF WriteDone, write_cb, clientVars, Phase
  <2>3. Out' = Out \ {w}
    BY <1>t, <2>1 DEF write_cb, Answer, Out
  <2> QED BY <2>2, <2>3 DEF Out, C!Next, C!Complete
<1>9. CASE ReadError
  <2>1. handle = "open" /\ handle' = "closing" /\ told' = told /\ wstate' = wstate
    BY <1>9 DEF ReadError, read_error, close, uv_is_closing, clientVars
  <2>2. Phase = "up" /\ Phase' = "down"
    BY <2>1 DEF Phase
  <2> QED BY <2>1, <2>2 DEF C!Next, C!Down
<1>10. CASE CloseDone
  <2>1. Phase = "down" /\ Phase' = "idle" /\ "closed" \notin told /\ Drained
    BY <1>t, <1>10 DEF CloseDone, close_cb, Phase, Lifecycle
  <2>2. told' = told \cup {"closed"} /\ wstate' = wstate
    BY <1>10 DEF CloseDone, close_cb, notify
  <2> QED BY <2>1, <2>2 DEF C!Next, C!Ended, Drained
<1>11. CASE UNCHANGED vars
  BY <1>11 DEF vars, streamVars, clientVars, C!vars, Phase
<1> QED BY <1>1, <1>2, <1>3, <1>4, <1>5, <1>6, <1>7, <1>8, <1>9, <1>10, <1>11 DEF Next

\* lidig_tcp_client implements the abstract channel.
THEOREM Refinement == Spec => ImplementsChannel
BY RefineInit, RefineNext, Invariance, PTL DEF Spec, C!Spec, ImplementsChannel

\* lidig_tcp_client is sound for any writes and any number of connections.
THEOREM ClientSound == Spec => []ClientIsSound
BY TypeCorrect, AliveIsNeverStale, WritesAnswered, CloseIsFinal, PTL DEF ClientIsSound
=============================================================================

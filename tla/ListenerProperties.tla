------------------------- MODULE ListenerProperties -------------------------
(***************************************************************************)
(* What the listener and the connections promise.                          *)
(***************************************************************************)
EXTENDS Listener

Replies == [to : Nat, code : {"ok", "InternalError", "proxied"}]

\* Every variable has its type.
TypeOK ==
  /\ mode \in Modes
  /\ process \in {"running", "crashed", "returned"}
  /\ phase \in [Clients -> Phases]
  /\ hungup \in [Clients -> BOOLEAN]
  /\ sent \in [Clients -> Seq(Kinds)]
  /\ current \in [Clients -> Nat]
  /\ response \in [Clients -> {"none", "ok", "InternalError"}]
  /\ upstream \in [Clients -> Seq(Nat)]
  /\ answer \in [Clients -> Nat]
  /\ received \in [Clients -> Seq(Replies)]
  /\ cancelled \in [Clients -> BOOLEAN]
  /\ deadline \in [Clients -> BOOLEAN]
  /\ signalled \in BOOLEAN
  /\ listening \in BOOLEAN
  /\ loop \in {"accept", "wait", "returned"}
  /\ wg \in Nat
  /\ gauge \in Nat

\* Connections whose goroutine has been started and has not ended.
Alive == {c \in Clients : phase[c] \notin {"none", "dialing", "gone"}}

-----------------------------------------------------------------------------
(* Replies. *)

\* The k-th reply a client gets answers its k-th request, in every mode: also
\* when the service's replies are sent, when requests are pipelined, and when
\* the service has not answered a request in time.
RepliesInOrder ==
  \A c \in Clients : \A k \in DOMAIN received[c] : received[c][k].to = k

\* A client that is still there misses at most the reply to the last request
\* that was read: whatever ends the connection, everything before it has been
\* answered, so there is one request at most whose effect is unknown.
OneUnanswered ==
  \A c \in Clients : ~hungup[c] =>
    current[c] \in {Len(received[c]), Len(received[c]) + 1}

\* Nothing is read from a connection after an InternalError has been answered
\* (handler.go:73), nor, with diff-proxy, after one that was not sent.
InternalErrorIsLast ==
  [][\A c \in Clients :
       current'[c] # current[c] => response[c] # "InternalError"]_vars

-----------------------------------------------------------------------------
(* The end of connections and of the process. *)

\* When Run has returned, and main closes the pool and prints the metrics, no
\* connection's goroutine is left, and the metric is back to zero.
NothingOutlivesRun ==
  process = "returned" => Alive = {} /\ gauge = 0

\* After the signal the process ends.
ShutdownCompletes == signalled ~> process # "running"

\* The connection of a client that has gone is released.
GoneIsReleased ==
  \A c \in Clients : hungup[c] /\ c \in Alive ~> c \notin Alive \/ process # "running"
=============================================================================

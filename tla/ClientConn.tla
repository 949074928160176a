----------------------------- MODULE ClientConn -----------------------------
(***************************************************************************)
(* The life of client connections (internal/clientconn/conn.go): for each, *)
(* a goroutine that reads a request, lets the handler and, depending on    *)
(* the mode, the proxied service answer it, and writes the reply; a second *)
(* goroutine that makes reads and writes fail once the connection's        *)
(* context is cancelled.  The command handlers are those of Commands; here *)
(* only the way a handler ends matters.                                    *)
(***************************************************************************)
EXTENDS Integers, Sequences, FiniteSets

CONSTANTS Clients,
          Modes,        \* the modes of operation to look at, of AllModes
          Kinds,        \* the kinds of requests that clients send, of AllKinds
          ConnTimeout,  \* whether connections have a deadline (TestConnTimeout)
          MaxRequests   \* requests a client sends at most; bounds `sent'

AllModes == {"normal", "proxy", "diff-normal", "diff-proxy"}

AllKinds == {"good",       \* the handler returns a reply
             "internal",   \* the handler returns an error without a code
             "panicking",  \* the handler panics
             "malformed",  \* wire.ReadMessage returns an error
             "oneway"}     \* moreToCome: a MongoDB service sends no reply

ASSUME ModesAssumption == Modes \subseteq AllModes
ASSUME KindsAssumption == Kinds \subseteq AllKinds
ASSUME ConnTimeoutAssumption == ConnTimeout \in BOOLEAN
ASSUME MaxRequestsAssumption == MaxRequests \in Nat

VARIABLES mode,       \* the mode the process runs in
          process,    \* "running", "crashed", or "returned": Listener.Run is over
          phase,      \* phase[c]: where the goroutine of connection c is
          hungup,     \* hungup[c]: the client has closed its side
          sent,       \* sent[c]: the kinds of the requests the client has sent
          current,    \* current[c]: how many of them have been read
          response,   \* response[c]: what the handler has made of the current one
          upstream,   \* upstream[c]: requests the proxied service has to answer
          answer,     \* answer[c]: the request its last answer is for, or 0
          received,   \* received[c]: the replies the client has got
          cancelled,  \* cancelled[c]: runCtx is done
          deadline    \* deadline[c]: netConn's deadline has passed

connVars == <<mode, process, phase, hungup, sent, current, response, upstream,
              answer, received, cancelled, deadline>>

Phases == {"none", "dialing", "starting", "reading", "handling", "proxying",
           "awaiting", "responding", "ending", "closing", "gone"}

\* The phases of conn.run's loop.
Running == {"reading", "handling", "proxying", "awaiting", "responding"}

Handles == mode # "proxy"       \* requests are handled
Proxies == mode # "normal"      \* requests are proxied
ProxyReplies == mode \in {"proxy", "diff-proxy"}  \* the service's reply is sent

ConnInit ==
  /\ mode \in Modes
  /\ process = "running"
  /\ phase = [c \in Clients |-> "none"]
  /\ hungup = [c \in Clients |-> FALSE]
  /\ sent = [c \in Clients |-> <<>>]
  /\ current = [c \in Clients |-> 0]
  /\ response = [c \in Clients |-> "none"]
  /\ upstream = [c \in Clients |-> <<>>]
  /\ answer = [c \in Clients |-> 0]
  /\ received = [c \in Clients |-> <<>>]
  /\ cancelled = [c \in Clients |-> FALSE]
  /\ deadline = [c \in Clients |-> FALSE]

Up == process = "running"

Enter(c, p) == phase' = [phase EXCEPT ![c] = p]

Kind(c) == sent[c][current[c]]

-----------------------------------------------------------------------------
(* The client. *)

\* It sends a request, without waiting for the replies to the last ones.
Send(c) ==
  /\ Up /\ phase[c] \notin {"none", "closing", "gone"}
  /\ ~hungup[c] /\ Len(sent[c]) < MaxRequests
  /\ \E k \in Kinds : sent' = [sent EXCEPT ![c] = Append(@, k)]
  /\ UNCHANGED <<mode, process, phase, hungup, current, response, upstream,
                 answer, received, cancelled, deadline>>

\* It disconnects.
HangUp(c) ==
  /\ Up /\ phase[c] \notin {"none", "gone"} /\ ~hungup[c]
  /\ hungup' = [hungup EXCEPT ![c] = TRUE]
  /\ UNCHANGED <<mode, process, phase, sent, current, response, upstream,
                 answer, received, cancelled, deadline>>

-----------------------------------------------------------------------------
(* conn.run *)

\* newConn: in the modes that proxy, dial the service, which may fail.
NewConn(c) ==
  /\ Up /\ phase[c] = "starting"
  /\ Enter(c, "reading") \/ (Proxies /\ Enter(c, "ending"))
  /\ UNCHANGED <<mode, process, hungup, sent, current, response, upstream,
                 answer, received, cancelled, deadline>>

\* ReadMessage returns the next request.  Also after the deadline: the bufio
\* reader may hold requests that arrived before it.
ReadMessage(c) ==
  /\ Up /\ phase[c] = "reading" /\ current[c] < Len(sent[c])
  /\ current' = [current EXCEPT ![c] = @ + 1]
  /\ response' = [response EXCEPT ![c] = "none"]
  /\ Enter(c, CASE sent[c][current[c] + 1] = "malformed" -> "ending"
                [] Handles                               -> "handling"
                [] OTHER                                 -> "proxying")
  /\ UNCHANGED <<mode, process, hungup, sent, upstream, answer, received,
                 cancelled, deadline>>

\* Mistakes: the deadline is not noticed; the end of the stream is not.
ReadFailsAtEOFOnly(c) ==
  /\ Up /\ phase[c] = "reading"
  /\ hungup[c] /\ current[c] = Len(sent[c])
  /\ Enter(c, "ending")
  /\ UNCHANGED <<mode, process, hungup, sent, current, response, upstream,
                 answer, received, cancelled, deadline>>
ReadFailsAtDeadlineOnly(c) ==
  /\ Up /\ phase[c] = "reading" /\ deadline[c]
  /\ Enter(c, "ending")
  /\ UNCHANGED <<mode, process, hungup, sent, current, response, upstream,
                 answer, received, cancelled, deadline>>

\* ReadMessage fails: the client has gone, or the deadline has passed.
ReadFails(c) ==
  /\ Up /\ phase[c] = "reading"
  /\ deadline[c] \/ (hungup[c] /\ current[c] = Len(sent[c]))
  /\ Enter(c, "ending")
  /\ UNCHANGED <<mode, process, hungup, sent, current, response, upstream,
                 answer, received, cancelled, deadline>>

\* Handler.Handle returns.  When its context is cancelled, HANA's statements
\* are, and the handler returns their error.
Handle(c) ==
  /\ Up /\ phase[c] = "handling" /\ Kind(c) # "panicking"
  /\ \E r \in {"ok", "InternalError"} :
       /\ r = "ok" => Kind(c) # "internal"
       /\ r = "InternalError" => Kind(c) = "internal" \/ cancelled[c]
       /\ response' = [response EXCEPT ![c] = r]
  /\ Enter(c, IF Proxies THEN "proxying" ELSE "responding")
  /\ UNCHANGED <<mode, process, hungup, sent, current, upstream, answer,
                 received, cancelled, deadline>>

\* Handler.Handle panics.  The deferred function of run recovers and logs with
\* DPanicf; zap.NewDevelopmentConfig makes that panic again, in a goroutine
\* where nothing recovers.
HandlePanics(c) ==
  /\ Up /\ phase[c] = "handling" /\ Kind(c) = "panicking"
  /\ process' = "crashed"
  /\ UNCHANGED <<mode, phase, hungup, sent, current, response, upstream,
                 answer, received, cancelled, deadline>>

\* proxy.Handle sends the request on.
ProxySend(c) ==
  /\ Up /\ phase[c] = "proxying"
  /\ upstream' = [upstream EXCEPT ![c] =
       IF Kind(c) = "oneway" THEN @ ELSE Append(@, current[c])]
  /\ Enter(c, "awaiting")
  /\ UNCHANGED <<mode, process, hungup, sent, current, response, answer,
                 received, cancelled, deadline>>

\* proxy.Handle reads the service's next answer.
ProxyReceive(c) ==
  /\ Up /\ phase[c] = "awaiting" /\ upstream[c] # <<>>
  /\ answer' = [answer EXCEPT ![c] = Head(upstream[c])]
  /\ upstream' = [upstream EXCEPT ![c] = Tail(@)]
  /\ Enter(c, "responding")
  /\ UNCHANGED <<mode, process, hungup, sent, current, response, received,
                 cancelled, deadline>>

\* Mistakes: the proxied service's silence is ignored; no deadline is set.
ProxyFailsSoftly(c) ==
  /\ Up /\ phase[c] = "awaiting" /\ ConnTimeout
  /\ Enter(c, "reading")
  /\ UNCHANGED <<mode, process, hungup, sent, current, response, upstream,
                 answer, received, cancelled, deadline>>
ProxyFailsNever(c) == FALSE /\ UNCHANGED connVars

\* proxy.Handle returns an error: the deadline of the context has passed, if it
\* has one.
ProxyFails(c) ==
  /\ Up /\ phase[c] = "awaiting" /\ ConnTimeout
  /\ Enter(c, "ending")
  /\ UNCHANGED <<mode, process, hungup, sent, current, response, upstream,
                 answer, received, cancelled, deadline>>

\* proxy.Handle returns an error: the service has closed its side, or answers
\* what wire.ReadMessage cannot read.
ProxyBreaks(c) ==
  /\ Up /\ phase[c] \in {"proxying", "awaiting"}
  /\ Enter(c, "ending")
  /\ UNCHANGED <<mode, process, hungup, sent, current, response, upstream,
                 answer, received, cancelled, deadline>>

\* The reply that is sent.
ReplyOf(c) ==
  IF ProxyReplies THEN [to |-> answer[c], code |-> "proxied"]
                  ELSE [to |-> current[c], code |-> response[c]]

\* Mistakes: closeConn is ignored; an error of Flush is.
RespondWithoutClosing(c) ==
  /\ Up /\ phase[c] = "responding"
  /\ received' = [received EXCEPT ![c] =
       IF hungup[c] THEN @ ELSE Append(@, ReplyOf(c))]
  /\ Enter(c, "reading")
  /\ UNCHANGED <<mode, process, hungup, sent, current, response, upstream,
                 answer, cancelled, deadline>>
RespondFailsSoftly(c) ==
  /\ Up /\ phase[c] = "responding" /\ (deadline[c] \/ hungup[c])
  /\ Enter(c, "reading")
  /\ UNCHANGED <<mode, process, hungup, sent, current, response, upstream,
                 answer, received, cancelled, deadline>>

\* WriteMessage and Flush; what is written after the client has gone is lost.
\* closeConn ends the connection after the reply to an InternalError.
Respond(c) ==
  /\ Up /\ phase[c] = "responding"
  /\ received' = [received EXCEPT ![c] =
       IF hungup[c] THEN @ ELSE Append(@, ReplyOf(c))]
  /\ Enter(c, IF response[c] = "InternalError" THEN "ending" ELSE "reading")
  /\ UNCHANGED <<mode, process, hungup, sent, current, response, upstream,
                 answer, cancelled, deadline>>

\* Writing the reply fails.
RespondFails(c) ==
  /\ Up /\ phase[c] = "responding" /\ (deadline[c] \/ hungup[c])
  /\ Enter(c, "ending")
  /\ UNCHANGED <<mode, process, hungup, sent, current, response, upstream,
                 answer, received, cancelled, deadline>>

\* The goroutine that waits for runCtx or for the end of run.
SetDeadline(c) ==
  /\ Up /\ cancelled[c] /\ phase[c] \in Running /\ ~deadline[c]
  /\ deadline' = [deadline EXCEPT ![c] = TRUE]
  /\ UNCHANGED <<mode, process, phase, hungup, sent, current, response,
                 upstream, answer, received, cancelled>>
=============================================================================

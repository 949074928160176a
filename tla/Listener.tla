------------------------------ MODULE Listener ------------------------------
(***************************************************************************)
(* The listener (internal/clientconn/listener.go) and the process around   *)
(* it (cmd/SAPHANACompatibilityLayer/main.go): connections are accepted,   *)
(* each runs as in ClientConn, and after SIGTERM or SIGINT the listener    *)
(* waits for all of them before the pool of HANA connections is closed.    *)
(***************************************************************************)
EXTENDS ClientConn

VARIABLES signalled,  \* main's context is done
          listening,  \* the listening socket is open
          loop,       \* Listener.Run: "accept", "wait", "returned"
          wg,         \* the WaitGroup's counter
          gauge       \* the metric ConnectedClients

listenerVars == <<signalled, listening, loop, wg, gauge>>
vars == <<connVars, listenerVars>>

Init ==
  /\ ConnInit
  /\ signalled = FALSE
  /\ listening = TRUE
  /\ loop = "accept"
  /\ wg = 0
  /\ gauge = 0

\* A client connects: the kernel queues the connection.
Dial(c) ==
  /\ Up /\ phase[c] = "none" /\ listening
  /\ Enter(c, "dialing")
  /\ UNCHANGED <<mode, process, hungup, sent, current, response, upstream,
                 answer, received, cancelled, deadline, listenerVars>>

\* Mistakes: the connection is not added to the WaitGroup; the metric is not
\* incremented.
AcceptUnawaited(c) ==
  /\ Up /\ loop = "accept" /\ listening /\ phase[c] = "dialing"
  /\ gauge' = gauge + 1
  /\ Enter(c, "starting")
  /\ UNCHANGED <<mode, process, hungup, sent, current, response, upstream, answer,
                 received, cancelled, deadline, signalled, listening, loop, wg>>
AcceptUncounted(c) ==
  /\ Up /\ loop = "accept" /\ listening /\ phase[c] = "dialing"
  /\ wg' = wg + 1
  /\ Enter(c, "starting")
  /\ UNCHANGED <<mode, process, hungup, sent, current, response, upstream, answer,
                 received, cancelled, deadline, signalled, listening, loop, gauge>>

\* Accept returns a connection, and its goroutine is started.
Accept(c) ==
  /\ Up /\ loop = "accept" /\ listening /\ phase[c] = "dialing"
  /\ wg' = wg + 1
  /\ gauge' = gauge + 1
  /\ Enter(c, "starting")
  /\ UNCHANGED <<mode, process, hungup, sent, current, response, upstream,
                 answer, received, cancelled, deadline, signalled, listening, loop>>

\* SIGTERM or SIGINT.
Signal ==
  /\ Up /\ ~signalled
  /\ signalled' = TRUE
  /\ UNCHANGED <<connVars, listening, loop, wg, gauge>>

\* The goroutine that closes the listener; connections not yet accepted are
\* reset.
CloseListener ==
  /\ Up /\ signalled /\ listening
  /\ listening' = FALSE
  /\ phase' = [c \in Clients |-> IF phase[c] = "dialing" THEN "gone" ELSE phase[c]]
  /\ UNCHANGED <<mode, process, hungup, sent, current, response, upstream,
                 answer, received, cancelled, deadline, signalled, loop, wg, gauge>>

\* Accept fails because the listener is closed; the loop ends.
AcceptFails ==
  /\ Up /\ loop = "accept" /\ ~listening
  /\ loop' = "wait"
  /\ UNCHANGED <<connVars, signalled, listening, wg, gauge>>

\* runCtx is cancelled: three seconds after the signal, or at the connection's
\* own deadline.
CancelRun(c) ==
  /\ Up /\ phase[c] \in Running /\ ~cancelled[c]
  /\ signalled \/ ConnTimeout
  /\ cancelled' = [cancelled EXCEPT ![c] = TRUE]
  /\ UNCHANGED <<mode, process, phase, hungup, sent, current, response,
                 upstream, answer, received, deadline, listenerVars>>

\* The goroutine's deferred function: the connection is closed, the metric
\* decremented, ...
Release(c) ==
  /\ Up /\ phase[c] = "ending"
  /\ Enter(c, "closing")
  /\ gauge' = gauge - 1
  /\ UNCHANGED <<mode, process, hungup, sent, current, response, upstream,
                 answer, received, cancelled, deadline, signalled, listening,
                 loop, wg>>

\* ... and the WaitGroup told.
Done(c) ==
  /\ Up /\ phase[c] = "closing"
  /\ Enter(c, "gone")
  /\ wg' = wg - 1
  /\ UNCHANGED <<mode, process, hungup, sent, current, response, upstream,
                 answer, received, cancelled, deadline, signalled, listening,
                 loop, gauge>>

\* wg.Wait returns and so does Run; main gathers the metrics and its deferred
\* call closes the pool.
Return ==
  /\ Up /\ loop = "wait" /\ wg = 0
  /\ loop' = "returned"
  /\ process' = "returned"
  /\ UNCHANGED <<mode, phase, hungup, sent, current, response, upstream, answer,
                 received, cancelled, deadline, signalled, listening, wg, gauge>>

\* What connection c's goroutine does by itself.
Serve(c) ==
  \/ NewConn(c) /\ UNCHANGED listenerVars
  \/ ReadMessage(c) /\ UNCHANGED listenerVars
  \/ ReadFails(c) /\ UNCHANGED listenerVars
  \/ Handle(c) /\ UNCHANGED listenerVars
  \/ HandlePanics(c) /\ UNCHANGED listenerVars
  \/ ProxySend(c) /\ UNCHANGED listenerVars
  \/ ProxyReceive(c) /\ UNCHANGED listenerVars
  \/ ProxyFails(c) /\ UNCHANGED listenerVars
  \/ Respond(c) /\ UNCHANGED listenerVars
  \/ RespondFails(c) /\ UNCHANGED listenerVars
  \/ Release(c)
  \/ Done(c)

Interrupt(c) == SetDeadline(c) /\ UNCHANGED listenerVars

\* What its client and the proxied service do to it.
Client(c) ==
  \/ Send(c) /\ UNCHANGED listenerVars
  \/ HangUp(c) /\ UNCHANGED listenerVars
  \/ ProxyBreaks(c) /\ UNCHANGED listenerVars

Stop == CloseListener \/ AcceptFails \/ Return

Next ==
  \/ Signal
  \/ Stop
  \/ \E c \in Clients : \/ Dial(c) \/ Accept(c) \/ CancelRun(c)
                        \/ Serve(c) \/ Interrupt(c) \/ Client(c)

Spec == Init /\ [][Next]_vars

\* Goroutines go on, timers fire, HANA answers a statement or its cancellation,
\* and the proxied service answers what it has to answer.  Nothing makes a
\* client connect, send or hang up, and nothing sends the signal.
Fairness ==
  /\ WF_vars(Stop)
  /\ \A c \in Clients : /\ WF_vars(Accept(c)) /\ WF_vars(Serve(c))
                         /\ WF_vars(CancelRun(c)) /\ WF_vars(Interrupt(c))

FairSpec == Spec /\ Fairness
=============================================================================

--------------------------- MODULE ListenerProofs ---------------------------
(***************************************************************************)
(* Proofs about the listener and its connections, for every number of      *)
(* clients, every mode of operation and every sequence of requests.        *)
(***************************************************************************)
EXTENDS ListenerProperties, FiniteSetTheorems, SequenceTheorems, TLAPS

-----------------------------------------------------------------------------
(* The inductive invariant. *)

\* TypeOK without the two counters: that they never go below zero is a matter
\* of what they count.
Typed ==
  /\ mode \in Modes
  /\ process \in {"running", "crashed", "returned"}
  /\ phase \in [Clients -> Phases]
  /\ hungup \in [Clients -> BOOLEAN]
  /\ sent \in [Clients -> Seq(Kinds)]
  /\ current \in [Clients -> Nat]
  /\ response \in [Clients -> {"none", "ok", "InternalError"}]
  /\ upstream \in [Clients -> Seq(Nat)]
  /\ answer \in [Clients -> Nat]
  /\ received \in [Clients -> Seq(Replies)]
  /\ cancelled \in [Clients -> BOOLEAN]
  /\ deadline \in [Clients -> BOOLEAN]
  /\ signalled \in BOOLEAN
  /\ listening \in BOOLEAN
  /\ loop \in {"accept", "wait", "returned"}

\* A connection on which no request is being served, or on which one is.
Waiting(c) == phase[c] \in {"none", "dialing", "starting", "reading"}
Serving(c) == phase[c] \in {"handling", "proxying", "awaiting", "responding"}

\* Every request that has been read has been answered, but for the one that is
\* being served or was when the connection ended.
Answered(c) ==
  /\ \A k \in 1..Len(received[c]) : received[c][k].to = k
  /\ ~hungup[c] =>
       /\ Waiting(c) => current[c] = Len(received[c])
       /\ Serving(c) => current[c] = Len(received[c]) + 1
       /\ current[c] \in {Len(received[c]), Len(received[c]) + 1}

\* The proxied service has at most the current request to answer, and its
\* answer is to that one.
InStep(c) ==
  /\ Waiting(c) \/ phase[c] \in {"handling", "proxying"} => upstream[c] = <<>>
  /\ phase[c] = "awaiting" => upstream[c] = <<>> \/ upstream[c] = <<current[c]>>
  /\ phase[c] = "responding" /\ Proxies => answer[c] = current[c]
  /\ phase[c] = "responding" => upstream[c] = <<>>

\* What the handler has made of the current request.
Judged(c) ==
  /\ Waiting(c) => response[c] # "InternalError"
  /\ Handles /\ phase[c] \in {"proxying", "awaiting", "responding"}
       => response[c] # "none"

ConnOK(c) == Answered(c) /\ InStep(c) /\ Judged(c)

\* The connections whose goroutine has not yet decremented the metric.
Counted == {c \in Clients : phase[c] \notin {"none", "dialing", "closing", "gone"}}

\* The WaitGroup counts the goroutines, the metric those that have not begun to
\* release their connection; when Run has returned there are none.
Accounted ==
  /\ IsFiniteSet(Alive)
  /\ wg = Cardinality(Alive)
  /\ gauge = Cardinality(Counted)
  /\ process = "returned" => Alive = {}

IInv == Typed /\ (\A c \in Clients : ConnOK(c)) /\ Accounted

-----------------------------------------------------------------------------
(* Counting. *)

\* Counted is a finite part of Alive, and both can be counted.
LEMMA CountedFinite ==
  ASSUME Accounted
  PROVE  /\ Counted \subseteq Alive /\ IsFiniteSet(Counted)
         /\ Cardinality(Alive) \in Nat /\ Cardinality(Counted) \in Nat
<1>1. Counted \subseteq Alive
  BY DEF Counted, Alive
<1>2. IsFiniteSet(Alive) /\ IsFiniteSet(Counted)
  BY <1>1, FS_Subset DEF Accounted
<1> QED
  BY <1>1, <1>2, FS_CardinalityType

\* A step after which the same goroutines run, and none has changed the metric.
LEMMA SameGoroutines ==
  ASSUME Accounted, Alive' = Alive, Counted' = Counted, wg' = wg, gauge' = gauge,
         process' # "returned" \/ process' = process
  PROVE  Accounted'
BY DEF Accounted

\* The phases of a running goroutine that has not begun to release.
Active == Phases \ {"none", "dialing", "closing", "gone"}

\* The same for a step from one of a goroutine's phases to another.
LEMMA PhaseStep ==
  ASSUME Typed, Accounted, NEW c \in Clients, NEW p \in Active,
         phase[c] \in Active, Enter(c, p), wg' = wg, gauge' = gauge,
         process' = process
  PROVE  Accounted'
<1>1. \A d \in Clients : phase'[d] = IF d = c THEN p ELSE phase[d]
  BY DEF Typed, Enter
<1>2. Alive' = Alive /\ Counted' = Counted
  BY <1>1 DEF Alive, Counted, Active
<1> QED
  BY <1>2, SameGoroutines

\* The same for a step that changes no phase.
LEMMA SamePhases ==
  ASSUME Accounted, phase' = phase, wg' = wg, gauge' = gauge,
         process' # "returned" \/ process' = process
  PROVE  Accounted'
<1>1. Alive' = Alive /\ Counted' = Counted
  BY DEF Alive, Counted
<1> QED
  BY <1>1, SameGoroutines

-----------------------------------------------------------------------------
(* Connections. *)

\* What a step of connection c leaves alone.
Others(c) ==
  /\ mode' = mode
  /\ \A d \in Clients \ {c} :
       /\ phase'[d] = phase[d] /\ hungup'[d] = hungup[d]
       /\ current'[d] = current[d] /\ response'[d] = response[d]
       /\ upstream'[d] = upstream[d] /\ answer'[d] = answer[d]
       /\ received'[d] = received[d]

\* The other connections stay as they were.
LEMMA OthersStep ==
  ASSUME NEW c \in Clients, \A d \in Clients : ConnOK(d), Others(c), ConnOK(c)'
  PROVE  \A d \in Clients : ConnOK(d)'
BY DEF Others, ConnOK, Answered, InStep, Judged, Waiting, Serving, Handles, Proxies

\* The client sends a request.
LEMMA SendStep ==
  ASSUME IInv, NEW c \in Clients, Send(c), UNCHANGED listenerVars
  PROVE  IInv'
<1>1. Typed'
  BY DEF IInv, Typed, Send, listenerVars
<1>2. \A d \in Clients : ConnOK(d)'
  BY DEF IInv, Send, ConnOK, Answered, InStep, Judged, Waiting, Serving, Handles,
     Proxies
<1>3. Accounted'
  BY SamePhases DEF IInv, Send, listenerVars
<1> QED
  BY <1>1, <1>2, <1>3 DEF IInv

\* The client disconnects.
LEMMA HangUpStep ==
  ASSUME IInv, NEW c \in Clients, HangUp(c), UNCHANGED listenerVars
  PROVE  IInv'
<1>1. Typed'
  BY DEF IInv, Typed, HangUp, listenerVars
<1>2. \A d \in Clients : hungup'[d] = (hungup[d] \/ d = c)
  BY DEF IInv, Typed, HangUp
<1>3. \A d \in Clients : ConnOK(d)'
  BY <1>2 DEF IInv, HangUp, ConnOK, Answered, InStep, Judged, Waiting, Serving,
     Handles, Proxies
<1>4. Accounted'
  BY SamePhases DEF IInv, HangUp, listenerVars
<1> QED
  BY <1>1, <1>3, <1>4 DEF IInv

\* newConn returns, or the service cannot be dialed.
LEMMA NewConnStep ==
  ASSUME IInv, NEW c \in Clients, NewConn(c), UNCHANGED listenerVars
  PROVE  IInv'
<1>1. PICK p \in {"reading", "ending"} : Enter(c, p)
  BY DEF NewConn
<1>2. Typed'
  BY <1>1 DEF IInv, Typed, NewConn, listenerVars, Enter, Phases
<1>3. phase'[c] = p /\ Others(c)
  BY <1>1 DEF IInv, Typed, NewConn, Others, Enter
<1>4. ConnOK(c)'
  BY <1>3 DEF IInv, NewConn, ConnOK, Answered, InStep, Judged, Waiting, Serving,
     Handles, Proxies
<1>5. Accounted'
  BY <1>1, PhaseStep DEF IInv, NewConn, listenerVars, Active, Phases
<1> QED
  BY <1>2, <1>3, <1>4, <1>5, OthersStep DEF IInv

\* A request is read.
LEMMA ReadMessageStep ==
  ASSUME IInv, NEW c \in Clients, ReadMessage(c), UNCHANGED listenerVars
  PROVE  IInv'
<1>1. PICK p \in {"ending", "handling", "proxying"} :
        Enter(c, p) /\ (p = "proxying" => ~Handles)
  BY DEF ReadMessage
<1>2. Typed'
  BY <1>1 DEF IInv, Typed, ReadMessage, listenerVars, Enter, Phases
<1>3. /\ phase'[c] = p /\ Others(c)
      /\ current'[c] = current[c] + 1 /\ response'[c] = "none"
  BY <1>1 DEF IInv, Typed, ReadMessage, Others, Enter
<1>4. ConnOK(c)'
  BY <1>1, <1>3 DEF IInv, ReadMessage, ConnOK, Answered, InStep, Judged, Waiting,
     Serving, Handles, Proxies
<1>5. Accounted'
  BY <1>1, PhaseStep DEF IInv, ReadMessage, listenerVars, Active, Phases
<1> QED
  BY <1>2, <1>3, <1>4, <1>5, OthersStep DEF IInv

\* A connection ends: nothing more is claimed of it than it already satisfies.
LEMMA EndingStep ==
  ASSUME IInv, NEW c \in Clients, phase[c] \in Active, Enter(c, "ending"),
         UNCHANGED <<mode, process, hungup, sent, current, response, upstream,
                     answer, received, cancelled, deadline>>,
         UNCHANGED listenerVars
  PROVE  IInv'
<1>1. Typed'
  BY DEF IInv, Typed, listenerVars, Enter, Phases
<1>2. phase'[c] = "ending" /\ Others(c)
  BY DEF IInv, Typed, Others, Enter
<1>3. ConnOK(c)'
  BY <1>2 DEF IInv, ConnOK, Answered, InStep, Judged, Waiting, Serving, Handles,
     Proxies
<1>4. Accounted'
  BY PhaseStep DEF IInv, listenerVars, Active, Phases
<1> QED
  BY <1>1, <1>2, <1>3, <1>4, OthersStep DEF IInv

\* The handler returns.
LEMMA HandleStep ==
  ASSUME IInv, NEW c \in Clients, Handle(c), UNCHANGED listenerVars
  PROVE  IInv'
<1>1. PICK r \in {"ok", "InternalError"} : response' = [response EXCEPT ![c] = r]
  BY DEF Handle
<1>2. PICK p \in {"proxying", "responding"} :
        Enter(c, p) /\ (p = "responding" => ~Proxies)
  BY DEF Handle
<1>3. Typed'
  BY <1>1, <1>2 DEF IInv, Typed, Handle, listenerVars, Enter, Phases
<1>4. phase'[c] = p /\ response'[c] = r /\ Others(c)
  BY <1>1, <1>2 DEF IInv, Typed, Handle, Others, Enter
<1>5. ConnOK(c)'
  BY <1>2, <1>4 DEF IInv, Handle, ConnOK, Answered, InStep, Judged, Waiting,
     Serving, Handles, Proxies
<1>6. Accounted'
  BY <1>2, PhaseStep DEF IInv, Handle, listenerVars, Active, Phases
<1> QED
  BY <1>3, <1>4, <1>5, <1>6, OthersStep DEF IInv

\* The handler panics, and the process with it.
LEMMA HandlePanicsStep ==
  ASSUME IInv, NEW c \in Clients, HandlePanics(c), UNCHANGED listenerVars
  PROVE  IInv'
<1>1. Typed'
  BY DEF IInv, Typed, HandlePanics, listenerVars
<1>2. \A d \in Clients : ConnOK(d)'
  BY DEF IInv, HandlePanics, ConnOK, Answered, InStep, Judged, Waiting, Serving,
     Handles, Proxies
<1>3. Accounted'
  BY SamePhases DEF IInv, HandlePanics, listenerVars
<1> QED
  BY <1>1, <1>2, <1>3 DEF IInv

\* The request is sent on: the service has just this one to answer.
LEMMA ProxySendStep ==
  ASSUME IInv, NEW c \in Clients, ProxySend(c), UNCHANGED listenerVars
  PROVE  IInv'
<1>1. upstream[c] = <<>> /\ current[c] \in Nat /\ upstream \in [Clients -> Seq(Nat)]
  BY DEF IInv, Typed, ConnOK, InStep, ProxySend
<1>2. /\ upstream' \in [Clients -> Seq(Nat)]
      /\ upstream'[c] = <<>> \/ upstream'[c] = <<current[c]>>
      /\ \A d \in Clients \ {c} : upstream'[d] = upstream[d]
  BY <1>1 DEF ProxySend
<1>3. Typed'
  BY <1>2 DEF IInv, Typed, ProxySend, listenerVars, Enter, Phases
<1>4. phase'[c] = "awaiting" /\ Others(c)
  BY <1>2 DEF IInv, Typed, ProxySend, Others, Enter
<1>5. ConnOK(c)'
  BY <1>2, <1>4 DEF IInv, ProxySend, ConnOK, Answered, InStep, Judged, Waiting,
     Serving, Handles, Proxies
<1>6. Accounted'
  BY PhaseStep DEF IInv, ProxySend, listenerVars, Active, Phases
<1> QED
  BY <1>3, <1>4, <1>5, <1>6, OthersStep DEF IInv

\* The service's answer is read: it is to the current request.
LEMMA ProxyReceiveStep ==
  ASSUME IInv, NEW c \in Clients, ProxyReceive(c), UNCHANGED listenerVars
  PROVE  IInv'
<1>1. /\ upstream[c] = <<current[c]>> /\ current[c] \in Nat
      /\ upstream \in [Clients -> Seq(Nat)] /\ answer \in [Clients -> Nat]
  BY DEF IInv, Typed, ConnOK, InStep, ProxyReceive
<1>2. /\ upstream' \in [Clients -> Seq(Nat)] /\ upstream'[c] = <<>>
      /\ \A d \in Clients \ {c} : upstream'[d] = upstream[d]
  BY <1>1 DEF ProxyReceive
<1>3. /\ answer' \in [Clients -> Nat] /\ answer'[c] = current[c]
      /\ \A d \in Clients \ {c} : answer'[d] = answer[d]
  BY <1>1 DEF ProxyReceive
<1>4. Typed'
  BY <1>2, <1>3 DEF IInv, Typed, ProxyReceive, listenerVars, Enter, Phases
<1>5. phase'[c] = "responding" /\ Others(c)
  BY <1>2, <1>3 DEF IInv, Typed, ProxyReceive, Others, Enter
<1>6. ConnOK(c)'
  BY <1>2, <1>3, <1>5 DEF IInv, ProxyReceive, ConnOK, Answered, InStep, Judged,
     Waiting, Serving, Handles, Proxies
<1>7. Accounted'
  BY PhaseStep DEF IInv, ProxyReceive, listenerVars, Active, Phases
<1> QED
  BY <1>4, <1>5, <1>6, <1>7, OthersStep DEF IInv

\* The reply is written: it is the next the client gets, unless the client has
\* gone.
LEMMA RespondStep ==
  ASSUME IInv, NEW c \in Clients, Respond(c), UNCHANGED listenerVars
  PROVE  IInv'
<1> DEFINE r == ReplyOf(c)
<1>1. PICK p \in {"ending", "reading"} :
        Enter(c, p) /\ (p = "reading" => response[c] # "InternalError")
  BY DEF Respond
<1>2. r \in Replies /\ r.to = current[c]
  <2>1. /\ answer[c] \in Nat /\ current[c] \in Nat /\ mode \in AllModes
        /\ response[c] \in {"none", "ok", "InternalError"}
    BY ModesAssumption DEF IInv, Typed
  <2>2. Proxies => answer[c] = current[c]
    BY DEF IInv, ConnOK, InStep, Respond
  <2>3. Handles => response[c] # "none"
    BY DEF IInv, ConnOK, Judged, Respond
  <2>4. CASE ProxyReplies
    BY <2>1, <2>2, <2>4 DEF ReplyOf, Replies, ProxyReplies, Proxies
  <2>5. CASE ~ProxyReplies
    BY <2>1, <2>3, <2>5 DEF ReplyOf, Replies, ProxyReplies, Handles
  <2> QED
    BY <2>4, <2>5
<1>3. /\ received \in [Clients -> Seq(Replies)] /\ received[c] \in Seq(Replies)
      /\ received' = [received EXCEPT ![c] = IF hungup[c] THEN @ ELSE Append(@, r)]
  BY DEF IInv, Typed, Respond
<1>4. /\ received' \in [Clients -> Seq(Replies)]
      /\ received'[c] = IF hungup[c] THEN received[c] ELSE Append(received[c], r)
      /\ \A d \in Clients \ {c} : received'[d] = received[d]
  BY <1>2, <1>3
<1>5. Typed'
  BY <1>1, <1>4 DEF IInv, Typed, Respond, listenerVars, Enter, Phases
<1>6. phase'[c] = p /\ Others(c)
  BY <1>1, <1>4 DEF IInv, Typed, Respond, Others, Enter
<1>7. InStep(c)' /\ Judged(c)'
  BY <1>1, <1>6 DEF IInv, Respond, ConnOK, InStep, Judged, Waiting, Handles, Proxies
<1>8. Answered(c)'
  <2>1. Answered(c) /\ phase[c] = "responding" /\ UNCHANGED <<current, hungup>>
    BY DEF IInv, ConnOK, Respond
  <2>2. CASE hungup[c]
    BY <2>1, <2>2, <1>4 DEF Answered
  <2>3. CASE ~hungup[c]
    <3>1. received'[c] = Append(received[c], r) /\ current[c] = Len(received[c]) + 1
      BY <2>1, <2>3, <1>4 DEF Answered, Serving
    <3>2. /\ Len(received'[c]) = Len(received[c]) + 1
          /\ received'[c][Len(received[c]) + 1] = r
          /\ \A k \in 1..Len(received[c]) : received'[c][k] = received[c][k]
      BY <3>1, <1>2, <1>3
    <3> QED
      BY <2>1, <1>2, <1>3, <1>6, <3>1, <3>2 DEF Answered, Waiting, Serving
  <2> QED
    BY <2>2, <2>3
<1>9. Accounted'
  BY <1>1, PhaseStep DEF IInv, Respond, listenerVars, Active, Phases
<1> QED
  BY <1>5, <1>6, <1>7, <1>8, <1>9, OthersStep DEF IInv, ConnOK

\* runCtx is done, or the deadline is set.
LEMMA CancelStep ==
  ASSUME IInv, NEW c \in Clients,
         CancelRun(c) \/ (SetDeadline(c) /\ UNCHANGED listenerVars)
  PROVE  IInv'
<1>1. Typed'
  BY DEF IInv, Typed, CancelRun, SetDeadline, listenerVars
<1>2. \A d \in Clients : ConnOK(d)'
  BY DEF IInv, CancelRun, SetDeadline, ConnOK, Answered, InStep, Judged, Waiting,
     Serving, Handles, Proxies
<1>3. Accounted'
  BY SamePhases DEF IInv, CancelRun, SetDeadline, listenerVars
<1> QED
  BY <1>1, <1>2, <1>3 DEF IInv

-----------------------------------------------------------------------------
(* The listener. *)

\* A step of the listener on connection c that only moves it to phase p, where
\* nothing more is claimed of it.
LEMMA MoveStep ==
  ASSUME IInv, NEW c \in Clients,
         NEW p \in {"dialing", "starting", "closing", "gone"}, Enter(c, p),
         p \in {"dialing", "starting"} => Waiting(c),
         UNCHANGED <<mode, process, hungup, sent, current, response, upstream,
                     answer, received, cancelled, deadline>>,
         UNCHANGED <<signalled, listening, loop>>
  PROVE  Typed' /\ \A d \in Clients : ConnOK(d)'
<1>1. Typed'
  BY DEF IInv, Typed, Enter, Phases
<1>2. phase'[c] = p /\ Others(c)
  BY DEF IInv, Typed, Others, Enter
<1>3. ConnOK(c)'
  BY <1>2 DEF IInv, ConnOK, Answered, InStep, Judged, Waiting, Serving, Handles,
     Proxies
<1> QED
  BY <1>1, <1>2, <1>3, OthersStep DEF IInv

\* A connection is queued.
LEMMA DialStep ==
  ASSUME IInv, NEW c \in Clients, Dial(c)
  PROVE  IInv'
<1>1. Typed' /\ \A d \in Clients : ConnOK(d)'
  BY MoveStep DEF Dial, listenerVars, Waiting
<1>2. \A d \in Clients : phase'[d] = IF d = c THEN "dialing" ELSE phase[d]
  BY DEF IInv, Typed, Dial, Enter
<1>3. Alive' = Alive /\ Counted' = Counted
  BY <1>2 DEF Dial, Alive, Counted
<1>4. Accounted'
  BY <1>3, SameGoroutines DEF IInv, Dial, listenerVars
<1> QED
  BY <1>1, <1>4 DEF IInv

\* A connection is accepted: one goroutine more, counted twice.
LEMMA AcceptStep ==
  ASSUME IInv, NEW c \in Clients, Accept(c)
  PROVE  IInv'
<1>1. Typed' /\ \A d \in Clients : ConnOK(d)'
  BY MoveStep DEF Accept, Waiting
<1>2. \A d \in Clients : phase'[d] = IF d = c THEN "starting" ELSE phase[d]
  BY DEF IInv, Typed, Accept, Enter
<1>3. /\ Alive' = Alive \cup {c} /\ c \notin Alive
      /\ Counted' = Counted \cup {c} /\ c \notin Counted
  BY <1>2 DEF Accept, Alive, Counted
<1>4. IsFiniteSet(Alive) /\ IsFiniteSet(Counted)
  BY CountedFinite DEF IInv, Accounted
<1>5. /\ IsFiniteSet(Alive') /\ Cardinality(Alive') = Cardinality(Alive) + 1
      /\ Cardinality(Counted') = Cardinality(Counted) + 1
  BY <1>3, <1>4, FS_AddElement
<1>6. Accounted'
  BY <1>5 DEF IInv, Accounted, Accept, Up
<1> QED
  BY <1>1, <1>6 DEF IInv

\* A connection is closed, and the metric decremented.
LEMMA ReleaseStep ==
  ASSUME IInv, NEW c \in Clients, Release(c)
  PROVE  IInv'
<1>1. Typed' /\ \A d \in Clients : ConnOK(d)'
  BY MoveStep DEF Release
<1>2. \A d \in Clients : phase'[d] = IF d = c THEN "closing" ELSE phase[d]
  BY DEF IInv, Typed, Release, Enter
<1>3. Alive' = Alive /\ Counted' = Counted \ {c} /\ c \in Counted
  BY <1>2 DEF Release, Alive, Counted
<1>4. Cardinality(Counted') = Cardinality(Counted) - 1
  BY <1>3, CountedFinite, FS_RemoveElement DEF IInv
<1>5. Accounted'
  BY <1>3, <1>4 DEF IInv, Accounted, Release
<1> QED
  BY <1>1, <1>5 DEF IInv

\* A goroutine ends.
LEMMA DoneStep ==
  ASSUME IInv, NEW c \in Clients, Done(c)
  PROVE  IInv'
<1>1. Typed' /\ \A d \in Clients : ConnOK(d)'
  BY MoveStep DEF Done
<1>2. \A d \in Clients : phase'[d] = IF d = c THEN "gone" ELSE phase[d]
  BY DEF IInv, Typed, Done, Enter
<1>3. Alive' = Alive \ {c} /\ c \in Alive /\ Counted' = Counted
  BY <1>2 DEF Done, Alive, Counted
<1>4. IsFiniteSet(Alive') /\ Cardinality(Alive') = Cardinality(Alive) - 1
  BY <1>3, FS_RemoveElement DEF IInv, Accounted
<1>5. Accounted'
  BY <1>3, <1>4 DEF IInv, Accounted, Done, Up
<1> QED
  BY <1>1, <1>5 DEF IInv

\* The signal, and Accept's error.
LEMMA SignalStep ==
  ASSUME IInv, Signal \/ AcceptFails
  PROVE  IInv'
<1>1. Typed'
  BY DEF IInv, Typed, Signal, AcceptFails, connVars
<1>2. \A d \in Clients : ConnOK(d)'
  BY DEF IInv, Signal, AcceptFails, connVars, ConnOK, Answered, InStep, Judged,
     Waiting, Serving, Handles, Proxies
<1>3. Accounted'
  BY SamePhases DEF IInv, Signal, AcceptFails, connVars
<1> QED
  BY <1>1, <1>2, <1>3 DEF IInv

\* The listener is closed: no goroutine had been started for what it resets.
LEMMA CloseListenerStep ==
  ASSUME IInv, CloseListener
  PROVE  IInv'
<1>1. /\ phase' \in [Clients -> Phases]
      /\ \A d \in Clients :
           phase'[d] = IF phase[d] = "dialing" THEN "gone" ELSE phase[d]
  BY DEF IInv, Typed, CloseListener, Phases
<1>2. Typed'
  BY <1>1 DEF IInv, Typed, CloseListener
<1>3. \A d \in Clients : ConnOK(d)'
  BY <1>1 DEF IInv, CloseListener, ConnOK, Answered, InStep, Judged, Waiting,
     Serving, Handles, Proxies
<1>4. Alive' = Alive /\ Counted' = Counted
  BY <1>1 DEF Alive, Counted
<1>5. Accounted'
  BY <1>4, SameGoroutines DEF IInv, CloseListener
<1> QED
  BY <1>2, <1>3, <1>5 DEF IInv

\* Run returns when the WaitGroup is at zero, so when no goroutine is left.
LEMMA ReturnStep ==
  ASSUME IInv, Return
  PROVE  IInv'
<1>1. Typed'
  BY DEF IInv, Typed, Return
<1>2. \A d \in Clients : ConnOK(d)'
  BY DEF IInv, Return, ConnOK, Answered, InStep, Judged, Waiting, Serving, Handles,
     Proxies
<1>3. Alive = {}
  BY FS_EmptySet DEF IInv, Accounted, Return
<1>4. Alive' = Alive /\ Counted' = Counted
  BY DEF Return, Alive, Counted
<1>5. Accounted'
  BY <1>3, <1>4 DEF IInv, Accounted, Return
<1> QED
  BY <1>1, <1>2, <1>5 DEF IInv

-----------------------------------------------------------------------------
(* The invariant holds. *)

\* In the initial states there is no connection.
LEMMA InitInv == Init => IInv
<1> SUFFICES ASSUME Init PROVE IInv
  OBVIOUS
<1>0. \A S : <<>> \in Seq(S)
  BY EmptySeq
<1>1. Typed
  BY <1>0 DEF Init, ConnInit, Typed, Phases
<1>2. \A c \in Clients : ConnOK(c)
  BY DEF Init, ConnInit, ConnOK, Answered, InStep, Judged, Waiting, Serving
<1>3. Alive = {} /\ Counted = {}
  BY DEF Init, ConnInit, Alive, Counted
<1>4. Accounted
  BY <1>3, FS_EmptySet DEF Init, ConnInit, Accounted
<1> QED
  BY <1>1, <1>2, <1>4 DEF IInv

\* A step of a connection's goroutine.
LEMMA ServeStep ==
  ASSUME IInv, NEW c \in Clients, Serve(c)
  PROVE  IInv'
<1>1. ASSUME \/ ReadFails(c) \/ ProxyFails(c) \/ RespondFails(c),
             UNCHANGED listenerVars
      PROVE  IInv'
  BY <1>1, EndingStep DEF ReadFails, ProxyFails, RespondFails, Active, Phases
<1> QED
  BY <1>1, NewConnStep, ReadMessageStep, HandleStep, HandlePanicsStep,
     ProxySendStep, ProxyReceiveStep, RespondStep, ReleaseStep, DoneStep DEF Serve

\* What the client and the proxied service do.
LEMMA ClientStep ==
  ASSUME IInv, NEW c \in Clients, Client(c)
  PROVE  IInv'
<1>1. CASE ProxyBreaks(c) /\ UNCHANGED listenerVars
  BY <1>1, EndingStep DEF ProxyBreaks, Active, Phases
<1> QED
  BY <1>1, SendStep, HangUpStep DEF Client

\* Every step keeps the invariant.
LEMMA NextInv ==
  ASSUME IInv, [Next]_vars
  PROVE  IInv'
<1>1. CASE Signal \/ Stop
  BY <1>1, SignalStep, CloseListenerStep, ReturnStep DEF Stop
<1>2. ASSUME NEW c \in Clients,
             \/ Dial(c) \/ Accept(c) \/ CancelRun(c)
             \/ Serve(c) \/ Interrupt(c) \/ Client(c)
      PROVE  IInv'
  BY <1>2, DialStep, AcceptStep, CancelStep, ServeStep, ClientStep DEF Interrupt
<1>3. CASE UNCHANGED vars
  BY <1>3 DEF IInv, Typed, ConnOK, Answered, InStep, Judged, Waiting, Serving,
     Handles, Proxies, Accounted, Alive, Counted, vars, connVars, listenerVars
<1> QED
  BY <1>1, <1>2, <1>3 DEF Next

\* The invariant holds in every reachable state.
LEMMA AlwaysInv == Spec => []IInv
<1>1. Init => IInv
  BY InitInv
<1>2. IInv /\ [Next]_vars => IInv'
  BY NextInv
<1> QED
  BY <1>1, <1>2, PTL DEF Spec

-----------------------------------------------------------------------------
(* What follows from it. *)

\* Every variable keeps its type, whatever clients and the proxied service do:
\* in particular neither the WaitGroup nor the metric ever goes below zero,
\* where WaitGroup.Done would panic.
THEOREM TypeCorrect == Spec => []TypeOK
<1>1. IInv => TypeOK
  <2> SUFFICES ASSUME IInv PROVE TypeOK
    OBVIOUS
  <2>1. wg \in Nat /\ gauge \in Nat
    BY CountedFinite DEF IInv, Accounted
  <2> QED
    BY <2>1 DEF IInv, Typed, TypeOK
<1> QED
  BY <1>1, AlwaysInv, PTL

\* In every mode the k-th reply a client gets answers its k-th request, however
\* many it has sent ahead and whatever the proxied service leaves unanswered.
THEOREM RepliesStayInOrder == Spec => []RepliesInOrder
<1>1. IInv => RepliesInOrder
  BY DEF IInv, Typed, ConnOK, Answered, RepliesInOrder
<1> QED
  BY <1>1, AlwaysInv, PTL

\* A client that has not hung up misses at most one reply, to the last request
\* that was read from it.
THEOREM OneStaysUnanswered == Spec => []OneUnanswered
<1>1. IInv => OneUnanswered
  BY DEF IInv, ConnOK, Answered, OneUnanswered
<1> QED
  BY <1>1, AlwaysInv, PTL

\* When Run has returned and main closes the pool, no connection's goroutine is
\* left that could still use it, and the metric is back to zero.
THEOREM NothingIsLeft == Spec => []NothingOutlivesRun
<1>1. IInv => NothingOutlivesRun
  <2> SUFFICES ASSUME IInv, process = "returned" PROVE Alive = {} /\ gauge = 0
    BY DEF NothingOutlivesRun
  <2>1. Alive = {} /\ Counted = {}
    BY CountedFinite DEF IInv, Accounted
  <2> QED
    BY <2>1, FS_EmptySet DEF IInv, Accounted
<1> QED
  BY <1>1, AlwaysInv, PTL

\* No request is read from a connection after the reply to an InternalError.
THEOREM NothingAfterInternalError == Spec => InternalErrorIsLast
<1>1. ASSUME IInv, [Next]_vars, NEW c \in Clients, current'[c] # current[c]
      PROVE  response[c] # "InternalError"
  <2>1. ASSUME NEW d \in Clients, ReadMessage(d) PROVE response[c] # "InternalError"
    <3>1. d = c
      BY <1>1, <2>1 DEF IInv, Typed, ReadMessage
    <3> QED
      BY <1>1, <2>1, <3>1 DEF IInv, ConnOK, Judged, Waiting, ReadMessage
  <2>2. \/ current' = current
        \/ \E d \in Clients : ReadMessage(d)
    BY <1>1 DEF Next, vars, connVars, Signal, Stop, CloseListener, AcceptFails, Return,
       Dial, Accept, CancelRun, Serve, Interrupt, Client, NewConn, ReadFails, Handle,
       HandlePanics, ProxySend, ProxyReceive, ProxyFails, Respond, RespondFails,
       Release, Done, SetDeadline, Send, HangUp, ProxyBreaks
  <2> QED
    BY <1>1, <2>1, <2>2
<1>2. IInv /\ [Next]_vars =>
        [\A c \in Clients :
           current'[c] # current[c] => response[c] # "InternalError"]_vars
  BY <1>1
<1> QED
  BY <1>2, AlwaysInv, PTL DEF Spec, InternalErrorIsLast
=============================================================================

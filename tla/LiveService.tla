---------------------------- MODULE LiveService ----------------------------
(***************************************************************************)
(* Live events and the life of the process.  Clients hold event streams of *)
(* two kinds, /xapi/stream and the admin page's stream, each a             *)
(* handler of the listener.  A notification makes every handler fetch the  *)
(* statement in a transaction of its own and then write an event.  SIGTERM *)
(* closes the HTTP servers, which waits for requests and streams, then     *)
(* stops the listener, ends the pool and exits, or exits at the deadline.  *)
(***************************************************************************)
EXTENDS Listener

CONSTANTS Streams,       \* connection attempts of clients
          Kind, Ip,      \* of each: "xapi" or "admin", and the client's address
          Events,        \* statements whose insertion is notified
          Requests,      \* other HTTP requests
          MaxGlobal,     \* sseMaxConnections
          MaxPerIp       \* of each kind

ASSUME StreamsAssumption ==
    /\ Handlers = Streams
    /\ Kind \in [Streams -> {"xapi", "admin"}]
    /\ MaxGlobal \in Nat
    /\ MaxPerIp \in [{"xapi", "admin"} -> Nat]
    /\ None \notin {0, 1}

VARIABLES
    stream,       \* "new", "open", "gone" (refused, or its client left) or "ended"
    globalCount,
    perIpCount,   \* for each kind
    notified,     \* the events notified
    fetch,        \* buildStatementEvent under way: <<stream, event, source>>
    got,          \* how often a stream wrote an event: 0, 1, or 2 for more
    phase,        \* of the process, see below
    inFlight,     \* the requests being served
    exit          \* the exit code, or None

streamVars == <<stream, globalCount, perIpCount>>
eventVars == <<notified, fetch, got>>
processVars == <<phase, inFlight, exit>>
vars == <<listenerVars, streamVars, eventVars, processVars>>

(* "starting" up to serve(); "closing": server.close() on both servers;
   "stopping": listener.stop(); "ending": pool.end(). *)
Phase == {"starting", "serving", "closing", "stopping", "ending", "exited"}
ShuttingDown == phase \in {"closing", "stopping", "ending"}
Running == phase # "exited"

OpenStreams == {s \in Streams : stream[s] = "open"}

-----------------------------------------------------------------------------
(* Streams. *)
Slot(s) == <<Kind[s], Ip[s]>>

Full(s) ==
    \/ Kind[s] = "xapi" /\ globalCount >= MaxGlobal
    \/ perIpCount[Slot(s)] >= MaxPerIp[Kind[s]]

Connect(s) ==
    /\ phase = "serving"
    /\ stream[s] = "new"
    /\ \/ /\ Full(s)
          /\ stream' = [stream EXCEPT ![s] = "gone"]
          /\ UNCHANGED <<listenerVars, globalCount, perIpCount>>
       \/ /\ ~Full(s)
          /\ stream' = [stream EXCEPT ![s] = "open"]
          /\ globalCount' = IF Kind[s] = "xapi" THEN globalCount + 1 ELSE globalCount
          /\ perIpCount' = [perIpCount EXCEPT ![Slot(s)] = @ + 1]
          /\ on(s)
    /\ UNCHANGED <<eventVars, processVars>>

\* Mutant: the entry of the address is written only while connections remain.
Released_keptAtLast(s) ==
    IF perIpCount[Slot(s)] > 1 THEN [perIpCount EXCEPT ![Slot(s)] = @ - 1] ELSE perIpCount

Released(s) == [perIpCount EXCEPT ![Slot(s)] = @ - 1]

(* onAbort: the client leaves. *)
Disconnect(s) ==
    /\ Running
    /\ stream[s] = "open"
    /\ stream' = [stream EXCEPT ![s] = "gone"]
    /\ globalCount' = IF Kind[s] = "xapi" THEN globalCount - 1 ELSE globalCount
    /\ perIpCount' = Released(s)
    /\ off(s)
    /\ UNCHANGED <<eventVars, processVars>>

(* The loop of the producer ends with the signal; that of the admin page goes on
   as long as its client stays. *)
LeavesOnShutdown(s) == Kind[s] = "xapi"

(* The loop ends, and with it the response; onAbort does not run. *)
StreamEnds(s) ==
    /\ ShuttingDown
    /\ stream[s] = "open" /\ LeavesOnShutdown(s)
    /\ stream' = [stream EXCEPT ![s] = "ended"]
    /\ UNCHANGED <<listenerVars, globalCount, perIpCount, eventVars, processVars>>

-----------------------------------------------------------------------------
(* Events. *)

(* The trigger's NOTIFY commits: every source that delivers calls every
   handler; without one the notification is lost. *)
Notify(n) ==
    /\ Running
    /\ n \notin notified
    /\ notified' = notified \cup {n}
    /\ fetch' = fetch \cup handlers \X {n} \X listening
    /\ UNCHANGED <<listenerVars, streamVars, got, processVars>>

(* A fetch ends and writes its event, in whatever order; or finds nothing, is
   filtered out, or fails.  Nothing reaches a stream that is no longer open. *)
FetchEnds(s, n, c) ==
    /\ Running
    /\ <<s, n, c>> \in fetch
    /\ fetch' = fetch \ {<<s, n, c>>}
    /\ \/ UNCHANGED got
       \/ /\ stream[s] = "open" /\ got[s][n] < 2
          /\ got' = [got EXCEPT ![s][n] = @ + 1]
    /\ UNCHANGED <<listenerVars, streamVars, notified, processVars>>

-----------------------------------------------------------------------------
(* The process. *)
Serve ==
    /\ phase = "starting"
    /\ Sourced("opening") = {}      \* start() is awaited, whatever it led to
    /\ phase' = "serving"
    /\ UNCHANGED <<listenerVars, streamVars, eventVars, inFlight, exit>>

RequestBegins(r) ==
    /\ phase = "serving"
    /\ r \notin inFlight
    /\ inFlight' = inFlight \cup {r}
    /\ UNCHANGED <<listenerVars, streamVars, eventVars, phase, exit>>

RequestEnds(r) ==
    /\ Running
    /\ r \in inFlight
    /\ inFlight' = inFlight \ {r}
    /\ UNCHANGED <<listenerVars, streamVars, eventVars, phase, exit>>

Sigterm ==
    /\ phase = "serving"
    /\ phase' = "closing"
    /\ UNCHANGED <<listenerVars, streamVars, eventVars, inFlight, exit>>

\* Mutant: the close callbacks are not awaited.
Drained_notAwaited == TRUE

Drained == OpenStreams = {} /\ inFlight = {}

ServersClosed ==
    /\ phase = "closing"
    /\ Drained
    /\ phase' = "stopping"
    /\ stop
    /\ UNCHANGED <<streamVars, eventVars, inFlight, exit>>

ListenerStopped ==
    /\ phase = "stopping"
    /\ StopEnds
    /\ phase' = "ending"
    /\ UNCHANGED <<streamVars, eventVars, inFlight, exit>>

(* pool.end() waits for the clients that are checked out. *)
PoolEnded ==
    /\ phase = "ending"
    /\ fetch = {}
    /\ phase' = "exited"
    /\ exit' = 0
    /\ UNCHANGED <<listenerVars, streamVars, eventVars, inFlight>>

ServerStep ==
    \/ Serve \/ ServersClosed \/ ListenerStopped \/ PoolEnded
    \/ \E s \in Streams : StreamEnds(s)
    \/ \E r \in Requests : RequestEnds(r)
    \/ \E s \in Streams, n \in Events, c \in Sources : FetchEnds(s, n, c)

(* A step of the server can be taken. *)
Busy ==
    \/ phase = "closing" /\ Drained
    \/ phase = "stopping"
    \/ phase = "ending" /\ fetch = {}
    \/ \E s \in OpenStreams : LeavesOnShutdown(s)
    \/ inFlight # {}
    \/ fetch # {}

\* Mutant: the deadline is set once the servers have closed.
Deadline_afterClose ==
    /\ phase \in {"stopping", "ending"}
    /\ ~Busy
    /\ phase' = "exited"
    /\ exit' = 1
    /\ UNCHANGED <<listenerVars, streamVars, eventVars, inFlight>>

(* The deadline is long: it passes when the server has nothing left to do. *)
Deadline ==
    /\ ShuttingDown
    /\ ~Busy
    /\ phase' = "exited"
    /\ exit' = 1
    /\ UNCHANGED <<listenerVars, streamVars, eventVars, inFlight>>

-----------------------------------------------------------------------------
Init ==
    /\ ListenerInit
    /\ stream = [s \in Streams |-> "new"]
    /\ globalCount = 0
    /\ perIpCount = [x \in {Slot(s) : s \in Streams} |-> 0]
    /\ notified = {}
    /\ fetch = {}
    /\ got = [s \in Streams |-> [n \in Events |-> 0]]
    /\ phase = "starting"
    /\ inFlight = {}
    /\ exit = None

ListenerActs ==
    /\ Running
    /\ ListenerStep
    /\ UNCHANGED <<streamVars, eventVars, processVars>>

ListenerFails ==
    /\ Running
    /\ ListenerFault
    /\ UNCHANGED <<streamVars, eventVars, processVars>>

Exited == ~Running /\ UNCHANGED vars

Next ==
    \/ ServerStep
    \/ ListenerActs
    \/ ListenerFails
    \/ Sigterm
    \/ Deadline
    \/ Exited
    \/ \E s \in Streams : Connect(s) \/ Disconnect(s)
    \/ \E n \in Events : Notify(n)
    \/ \E r \in Requests : RequestBegins(r)

Spec == Init /\ [][Next]_vars

(* Handlers and fetches come to an end, the timer fires, a connection attempt
   succeeds or fails, and the deadline passes.  Clients owe nothing. *)
FairSpec == Spec /\ WF_vars(ServerStep) /\ WF_vars(ListenerActs) /\ WF_vars(Deadline)

-----------------------------------------------------------------------------
TypeOK ==
    /\ ListenerTypeOK
    /\ stream \in [Streams -> {"new", "open", "gone", "ended"}]
    /\ globalCount \in Nat
    /\ perIpCount \in [{Slot(s) : s \in Streams} -> Nat]
    /\ notified \subseteq Events
    /\ fetch \subseteq Streams \X notified \X Sources
    /\ got \in [Streams -> [Events -> 0 .. 2]]
    /\ phase \in Phase
    /\ inFlight \subseteq Requests
    /\ exit \in {None, 0, 1}
    /\ (exit = None) = Running
    /\ \A s \in OpenStreams : ~stopped => s \in handlers

HasClient == current # None /\ source[current] = "open"

(* While the process serves, no stream waits on a listener that has forgotten
   it: a PgListener has a live client or is about to get one, and a live client
   has been asked to LISTEN, whichever of connect, on, off, errors and ends came
   in between; a LocalListener has a subscription or one on its way. *)
EveryStreamIsServed ==
    Running /\ ~stopped =>
        IF backend = "pg"
        THEN /\ HasClient \/ timer \/ Sourced("opening") # {}
             /\ HasClient /\ handlers # {} => current \in listening \cup asked
        ELSE handlers # {} => listening \cup Sourced("opening") # {}

(* A stream gets each event once, although clients are replaced without being
   ended and subscriptions are dropped while they are made: only a connection
   that outlives its own error, or an `off' that overtakes the promise of its
   `on', leaves a second source behind. *)
EventsComeOnce == ~overtaken => \A s \in Streams, n \in Events : got[s][n] <= 1

(* The counters of the limits count the streams that hold a connection, in
   whatever order clients of one address come, are refused, and go. *)
CountsAreExact ==
    LET held == {s \in Streams : stream[s] \in {"open", "ended"}} IN
    /\ globalCount = Cardinality({s \in held : Kind[s] = "xapi"})
    /\ \A x \in DOMAIN perIpCount :
          perIpCount[x] = Cardinality({s \in held : Slot(s) = x})

(* Listener and pool go only after every request and stream has come to its
   end, and the deadline cuts off nothing but an admin page's stream. *)
OrderlyExit ==
    /\ phase \in {"stopping", "ending"} \/ exit = 0 => OpenStreams = {} /\ inFlight = {}
    /\ exit = 1 => inFlight = {} /\ \E s \in OpenStreams : Kind[s] = "admin"

(* Streams that lost their source get one again while the process serves. *)
ListensAgain ==
    Running /\ ~stopped /\ handlers # {}
        ~> ~Running \/ stopped \/ handlers = {} \/ listening # {}

(* SIGTERM leads to an exit, streams and lost connections notwithstanding. *)
ShutdownEnds == phase = "closing" ~> phase = "exited"

=============================================================================

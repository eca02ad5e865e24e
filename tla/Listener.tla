------------------------------ MODULE Listener ------------------------------
(***************************************************************************)
(* What stands behind pgListener.on and off.  With the driver `pg' it is a *)
(* PgListener: one dedicated client, replaced three seconds after it       *)
(* reports an error or its end.  With `pglite' it is a LocalListener: one  *)
(* subscription, made when the first handler comes and dropped when the    *)
(* last one goes.  A source is such a client or such a subscription, and   *)
(* delivers once its LISTEN has taken effect.                              *)
(***************************************************************************)
EXTENDS Naturals, FiniteSets

CONSTANTS Sources,   \* bound: clients or subscriptions, numbered as they are made
          Handlers,
          None

ASSUME SourcesAssumption == Sources \subseteq Nat /\ None \notin Sources

VARIABLES
    backend,     \* databaseDriver: "pg" or "pglite"
    source,      \* "unused", "opening", "open" or "closed"
    asked,       \* the clients a LISTEN is under way to
    listening,   \* the sources that deliver
    current,     \* PgListener.client, or the entry of LocalListener.unsubs
    timer,       \* reconnectTimer is set
    stopped,
    handlers,    \* the handlers of the channel
    overtaken    \* history: a source delivers that the listener has let go

listenerVars == <<backend, source, asked, listening, current, timer, stopped,
                  handlers, overtaken>>

Sourced(st) == {c \in Sources : source[c] = st}
Unused == Sourced("unused")
Opening == \E c \in Unused : /\ \A d \in Unused : c <= d
                           /\ source' = [source EXCEPT ![c] = "opening"]

ListenerInit ==
    /\ backend \in {"pg", "pglite"}
    /\ asked = {}
    /\ listening = {}
    /\ current = None
    /\ timer = FALSE
    /\ stopped = FALSE
    /\ handlers = {}
    /\ overtaken = FALSE
    /\ IF backend = "pg"    \* start() has called connect()
       THEN \E c \in Sources : /\ \A d \in Sources : c <= d
                             /\ source = [x \in Sources |->
                                            IF x = c THEN "opening" ELSE "unused"]
       ELSE source = [x \in Sources |-> "unused"]

-----------------------------------------------------------------------------
(* on and off, called by the streams. *)

\* Mutant: a channel that lost its last handler is not new when one returns.
on_knownChannel(h) ==
    /\ handlers' = handlers \cup {h}
    /\ IF handlers = {} /\ backend = "pglite"
       THEN Opening
       ELSE UNCHANGED source
    /\ UNCHANGED <<backend, asked, listening, current, timer, stopped, overtaken>>

(* The first handler of the channel makes it LISTEN: at once when there is a
   client, else once one is connected.  A query on a dead client only fails. *)
on(h) ==
    /\ handlers' = handlers \cup {h}
    /\ asked' = IF handlers = {} /\ backend = "pg"
                THEN asked \cup (({current} \cap Sourced("open")) \ listening)
                ELSE asked
    /\ IF handlers = {} /\ backend = "pglite"
       THEN Opening
       ELSE UNCHANGED source
    /\ UNCHANGED <<backend, listening, current, timer, stopped, overtaken>>

\* Mutant: one handler takes the whole channel with it.
off_channel(h) ==
    /\ handlers' = {}
    /\ UNCHANGED <<backend, source, asked, listening, current, timer, stopped, overtaken>>

\* Mutant: the subscription outlives its last handler.
off_keepsSubscription(h) ==
    /\ handlers' = handlers \ {h}
    /\ UNCHANGED <<backend, source, asked, listening, current, timer, stopped, overtaken>>

(* There is no UNLISTEN; a subscription is dropped if its promise has resolved
   already, and else stays. *)
off(h) ==
    /\ handlers' = handlers \ {h}
    /\ IF backend = "pglite" /\ handlers = {h}
       THEN /\ source' = [u \in Sources |-> IF u = current THEN "closed" ELSE source[u]]
            /\ listening' = listening \ {current}
            /\ current' = None
            /\ overtaken' = (overtaken \/ Sourced("opening") # {})
       ELSE UNCHANGED <<source, listening, current, overtaken>>
    /\ UNCHANGED <<backend, asked, timer, stopped>>

-----------------------------------------------------------------------------
(* PgListener: the client connects, listens, reports errors, ends. *)

(* The client is dropped, not ended. *)
scheduleReconnect ==
    IF stopped \/ timer
    THEN UNCHANGED <<current, timer>>
    ELSE current' = None /\ timer' = TRUE

\* Mutant: the channels already registered are not listened to again.
Connected_noListen(c) ==
    /\ backend = "pg" /\ source[c] = "opening"
    /\ source' = [source EXCEPT ![c] = "open"]
    /\ current' = c
    /\ UNCHANGED <<backend, asked, listening, timer, stopped, handlers, overtaken>>

(* connect() goes on after client.connect(), stopped or not. *)
Connected(c) ==
    /\ backend = "pg" /\ source[c] = "opening"
    /\ source' = [source EXCEPT ![c] = "open"]
    /\ current' = c
    /\ asked' = IF handlers = {} THEN asked ELSE asked \cup {c}
    /\ UNCHANGED <<backend, listening, timer, stopped, handlers, overtaken>>

ListenDone(c) ==
    /\ c \in asked
    /\ asked' = asked \ {c}
    /\ listening' = listening \cup {c}
    /\ UNCHANGED <<backend, source, current, timer, stopped, handlers, overtaken>>

(* connect() fails or the connection is lost, 'error' and 'end' at once. *)
ConnectionLost(c) ==
    /\ backend = "pg" /\ source[c] \in {"opening", "open"}
    /\ Unused # {}      \* bound
    /\ source' = [source EXCEPT ![c] = "closed"]
    /\ asked' = asked \ {c}
    /\ listening' = listening \ {c}
    /\ scheduleReconnect
    /\ UNCHANGED <<backend, stopped, handlers, overtaken>>

(* 'error' alone: the connection lives on, and its end comes late if at all. *)
ErrorReported(c) ==
    /\ backend = "pg" /\ source[c] = "open"
    /\ ~stopped
    /\ Unused # {}      \* bound
    /\ scheduleReconnect
    /\ overtaken' = TRUE
    /\ UNCHANGED <<backend, source, asked, listening, stopped, handlers>>

(* Three seconds later. *)
TimerFires ==
    /\ timer
    /\ timer' = FALSE
    /\ Opening
    /\ UNCHANGED <<backend, asked, listening, current, stopped, handlers, overtaken>>

(* LocalListener: the promise of db.listen resolves; unsubs holds one entry. *)
Subscribed(u) ==
    /\ backend = "pglite" /\ source[u] = "opening"
    /\ source' = [source EXCEPT ![u] = "open"]
    /\ listening' = listening \cup {u}
    /\ current' = u
    /\ UNCHANGED <<backend, asked, timer, stopped, handlers, overtaken>>

-----------------------------------------------------------------------------
(* stop(): up to the await of client.end() or unsub(), and after it. *)
stop ==
    /\ stopped' = TRUE
    /\ timer' = FALSE
    /\ UNCHANGED <<backend, source, asked, listening, current, handlers, overtaken>>

StopEnds ==
    /\ source' = [c \in Sources |-> IF c = current THEN "closed" ELSE source[c]]
    /\ asked' = asked \ {current}
    /\ listening' = listening \ {current}
    /\ current' = None
    /\ handlers' = IF backend = "pglite" THEN {} ELSE handlers
    /\ UNCHANGED <<backend, timer, stopped, overtaken>>

ListenerStep ==
    \/ TimerFires
    \/ \E c \in Sources : Connected(c) \/ ListenDone(c) \/ Subscribed(c)

ListenerFault == \E c \in Sources : ConnectionLost(c) \/ ErrorReported(c)

-----------------------------------------------------------------------------
ListenerTypeOK ==
    /\ backend \in {"pg", "pglite"}
    /\ source \in [Sources -> {"unused", "opening", "open", "closed"}]
    /\ asked \subseteq Sourced("open")
    /\ listening \subseteq Sourced("open")
    /\ current \in Sources \cup {None}
    /\ current # None => source[current] \in {"open", "closed"}
    /\ timer \in BOOLEAN
    /\ stopped \in BOOLEAN
    /\ handlers \subseteq Handlers
    /\ overtaken \in BOOLEAN

=============================================================================

-------------------------- MODULE LiveService_proofs --------------------------
(***************************************************************************)
(* For any streams, addresses, limits, events and requests, and any number *)
(* of connections of the listener: no stream is forgotten, events come     *)
(* once, and the counts are exact.                                         *)
(***************************************************************************)
EXTENDS LiveService, FiniteSetTheorems, TLAPS

USE SourcesAssumption

Live(c) == source[c] \in {"opening", "open"}

(* EveryStreamIsServed while the process stands, and after. *)
ServedOK ==
    ~stopped =>
        IF backend = "pg"
        THEN /\ HasClient \/ timer \/ \E c \in Sources : source[c] = "opening"
             /\ HasClient /\ handlers # {} => current \in listening \cup asked
        ELSE handlers # {} => \/ \E c \in Sources : c \in listening
                              \/ \E c \in Sources : source[c] = "opening"

(* Unless one was overtaken there is one source at a time, and the one that is
   open is the one the listener knows. *)
OneSource ==
    ~overtaken =>
        /\ \A c, d \in Sources : Live(c) /\ Live(d) => c = d
        /\ timer => \A c \in Sources : ~Live(c)
        /\ \A c \in Sources : source[c] = "open" => current = c
        /\ backend = "pglite" /\ ~stopped /\ handlers = {} => \A c \in Sources : ~Live(c)

LiteOK == backend = "pglite" => asked = {} /\ ~timer

ListenerOK == ListenerTypeOK /\ ServedOK /\ OneSource /\ LiteOK

Held == {s \in Streams : stream[s] \in {"open", "ended"}}
CountsOK == IsFiniteSet(Held) /\ CountsAreExact

(* A stream fetches an event at most once, and has not written it yet. *)
FetchOK ==
    ~overtaken =>
        \A s \in Streams, n \in Events :
            /\ got[s][n] \in {0, 1}
            /\ n \notin notified => got[s][n] = 0
            /\ \A c \in Sources : <<s, n, c>> \in fetch =>
                  /\ got[s][n] = 0
                  /\ \A d \in Sources : <<s, n, d>> \in fetch => c = d

PhaseOK ==
    /\ phase \in {"starting", "serving", "closing"} => ~stopped
    /\ phase \in {"stopping", "ending"} => stopped

IndInv == TypeOK /\ ListenerOK /\ CountsOK /\ FetchOK /\ PhaseOK

-----------------------------------------------------------------------------
(* The operations of the listener and its callbacks. *)

LEMMA OnStep ==
    ASSUME ListenerOK, NEW h \in Handlers, ~stopped, on(h)
    PROVE  ListenerOK' /\ (overtaken => overtaken')
<1>1. ListenerTypeOK'
  BY DEF ListenerOK, ListenerTypeOK, LiteOK, Sourced, on, Opening, Unused
<1>2. ServedOK'
  BY DEF ListenerOK, ListenerTypeOK, ServedOK, LiteOK, Sourced, HasClient, on, Opening, Unused
<1>3. OneSource'
  BY DEF ListenerOK, ListenerTypeOK, OneSource, Live, LiteOK, Sourced, on, Opening, Unused
<1>4. LiteOK' /\ (overtaken => overtaken')
  BY DEF ListenerOK, LiteOK, on, Opening, Unused
<1> QED
  BY <1>1, <1>2, <1>3, <1>4 DEF ListenerOK

LEMMA OffStep ==
    ASSUME ListenerOK, NEW h \in Handlers, off(h)
    PROVE  ListenerOK' /\ (overtaken => overtaken')
<1>1. ListenerTypeOK'
  BY DEF ListenerOK, ListenerTypeOK, LiteOK, Sourced, off
<1>2. ServedOK'
  BY DEF ListenerOK, ListenerTypeOK, ServedOK, LiteOK, Sourced, HasClient, off
<1>3. OneSource'
  <2>1. CASE backend = "pglite" /\ handlers = {h}
    <3>1. /\ \A c \in Sources : source'[c] = IF c = current THEN "closed" ELSE source[c]
          /\ ~overtaken' => ~overtaken /\ \A c \in Sources : source[c] # "opening"
          /\ UNCHANGED timer
      BY <2>1 DEF off, Sourced
    <3>2. ~overtaken' => \A c \in Sources : ~Live(c)'
      BY <3>1 DEF ListenerOK, OneSource, Live
    <3> QED
      BY <3>2 DEF OneSource, Live
  <2>2. CASE ~(backend = "pglite" /\ handlers = {h})
    BY <2>2 DEF ListenerOK, OneSource, Live, off
  <2> QED
    BY <2>1, <2>2
<1>4. LiteOK' /\ (overtaken => overtaken')
  BY DEF ListenerOK, LiteOK, off
<1> QED
  BY <1>1, <1>2, <1>3, <1>4 DEF ListenerOK

LEMMA ConnectedStep ==
    ASSUME ListenerOK, NEW c \in Sources, Connected(c)
    PROVE  ListenerOK' /\ (overtaken => overtaken')
<1>1. ListenerTypeOK'
  BY DEF ListenerOK, ListenerTypeOK, LiteOK, Sourced, Connected
<1>2. ServedOK'
  BY DEF ListenerOK, ListenerTypeOK, ServedOK, LiteOK, Sourced, HasClient, Connected
<1>3. OneSource'
  BY DEF ListenerOK, ListenerTypeOK, OneSource, Live, LiteOK, Sourced, Connected
<1>4. LiteOK' /\ (overtaken => overtaken')
  BY DEF ListenerOK, LiteOK, Connected
<1> QED
  BY <1>1, <1>2, <1>3, <1>4 DEF ListenerOK

LEMMA ListenDoneStep ==
    ASSUME ListenerOK, NEW c \in Sources, ListenDone(c)
    PROVE  ListenerOK' /\ (overtaken => overtaken')
<1>1. ListenerTypeOK'
  BY DEF ListenerOK, ListenerTypeOK, LiteOK, Sourced, ListenDone
<1>2. ServedOK'
  BY DEF ListenerOK, ListenerTypeOK, ServedOK, LiteOK, Sourced, HasClient, ListenDone
<1>3. OneSource'
  BY DEF ListenerOK, ListenerTypeOK, OneSource, Live, LiteOK, Sourced, ListenDone
<1>4. LiteOK' /\ (overtaken => overtaken')
  BY DEF ListenerOK, LiteOK, ListenDone
<1> QED
  BY <1>1, <1>2, <1>3, <1>4 DEF ListenerOK

LEMMA ConnectionLostStep ==
    ASSUME ListenerOK, NEW c \in Sources, ConnectionLost(c)
    PROVE  ListenerOK' /\ (overtaken => overtaken')
<1>1. ListenerTypeOK'
  BY DEF ListenerOK, ListenerTypeOK, LiteOK, Sourced, ConnectionLost, scheduleReconnect
<1>2. ServedOK'
  BY DEF ListenerOK, ListenerTypeOK, ServedOK, LiteOK, Sourced, HasClient, ConnectionLost, scheduleReconnect
<1>3. OneSource'
  BY DEF ListenerOK, ListenerTypeOK, OneSource, Live, LiteOK, Sourced, ConnectionLost, scheduleReconnect
<1>4. LiteOK' /\ (overtaken => overtaken')
  BY DEF ListenerOK, LiteOK, ConnectionLost, scheduleReconnect
<1> QED
  BY <1>1, <1>2, <1>3, <1>4 DEF ListenerOK

LEMMA ErrorReportedStep ==
    ASSUME ListenerOK, NEW c \in Sources, ErrorReported(c)
    PROVE  ListenerOK' /\ (overtaken => overtaken')
<1>1. ListenerTypeOK'
  BY DEF ListenerOK, ListenerTypeOK, LiteOK, Sourced, ErrorReported, scheduleReconnect
<1>2. ServedOK'
  BY DEF ListenerOK, ListenerTypeOK, ServedOK, LiteOK, Sourced, HasClient, ErrorReported, scheduleReconnect
<1>3. OneSource'
  BY DEF ListenerOK, ListenerTypeOK, OneSource, Live, LiteOK, Sourced, ErrorReported, scheduleReconnect
<1>4. LiteOK' /\ (overtaken => overtaken')
  BY DEF ListenerOK, LiteOK, ErrorReported, scheduleReconnect
<1> QED
  BY <1>1, <1>2, <1>3, <1>4 DEF ListenerOK

LEMMA TimerFiresStep ==
    ASSUME ListenerOK, TimerFires
    PROVE  ListenerOK' /\ (overtaken => overtaken')
<1>1. ListenerTypeOK'
  BY DEF ListenerOK, ListenerTypeOK, LiteOK, Sourced, TimerFires, Opening, Unused
<1>2. ServedOK'
  BY DEF ListenerOK, ListenerTypeOK, ServedOK, LiteOK, Sourced, HasClient, TimerFires, Opening, Unused
<1>3. OneSource'
  BY DEF ListenerOK, ListenerTypeOK, OneSource, Live, LiteOK, Sourced, TimerFires, Opening, Unused
<1>4. LiteOK' /\ (overtaken => overtaken')
  BY DEF ListenerOK, LiteOK, TimerFires, Opening, Unused
<1> QED
  BY <1>1, <1>2, <1>3, <1>4 DEF ListenerOK

LEMMA SubscribedStep ==
    ASSUME ListenerOK, NEW c \in Sources, Subscribed(c)
    PROVE  ListenerOK' /\ (overtaken => overtaken')
<1>1. ListenerTypeOK'
  BY DEF ListenerOK, ListenerTypeOK, LiteOK, Sourced, Subscribed
<1>2. ServedOK'
  BY DEF ListenerOK, ListenerTypeOK, ServedOK, LiteOK, Sourced, HasClient, Subscribed
<1>3. OneSource'
  BY DEF ListenerOK, ListenerTypeOK, OneSource, Live, LiteOK, Sourced, Subscribed
<1>4. LiteOK' /\ (overtaken => overtaken')
  BY DEF ListenerOK, LiteOK, Subscribed
<1> QED
  BY <1>1, <1>2, <1>3, <1>4 DEF ListenerOK

LEMMA StopStep ==
    ASSUME ListenerOK, stop
    PROVE  ListenerOK' /\ (overtaken => overtaken')
<1>1. ListenerTypeOK'
  BY DEF ListenerOK, ListenerTypeOK, LiteOK, Sourced, stop
<1>2. ServedOK'
  BY DEF ListenerOK, ListenerTypeOK, ServedOK, LiteOK, Sourced, HasClient, stop
<1>3. OneSource'
  BY DEF ListenerOK, ListenerTypeOK, OneSource, Live, LiteOK, Sourced, stop
<1>4. LiteOK' /\ (overtaken => overtaken')
  BY DEF ListenerOK, LiteOK, stop
<1> QED
  BY <1>1, <1>2, <1>3, <1>4 DEF ListenerOK

LEMMA StopEndsStep ==
    ASSUME ListenerOK, stopped, StopEnds
    PROVE  ListenerOK' /\ (overtaken => overtaken')
<1>1. ListenerTypeOK'
  BY DEF ListenerOK, ListenerTypeOK, LiteOK, Sourced, StopEnds
<1>2. ServedOK'
  BY DEF ListenerOK, ListenerTypeOK, ServedOK, LiteOK, Sourced, HasClient, StopEnds
<1>3. OneSource'
  BY DEF ListenerOK, ListenerTypeOK, OneSource, Live, LiteOK, Sourced, StopEnds
<1>4. LiteOK' /\ (overtaken => overtaken')
  BY DEF ListenerOK, LiteOK, StopEnds
<1> QED
  BY <1>1, <1>2, <1>3, <1>4 DEF ListenerOK

-----------------------------------------------------------------------------
(* Counting. *)

LEMMA OneMore ==
    ASSUME NEW S, IsFiniteSet(S), NEW x, x \notin S, NEW T, T = S \cup {x}
    PROVE  IsFiniteSet(T) /\ Cardinality(T) = Cardinality(S) + 1
BY FS_AddElement

LEMMA OneLess ==
    ASSUME NEW S, IsFiniteSet(S), NEW x \in S, NEW T, T = S \ {x}
    PROVE  IsFiniteSet(T) /\ Cardinality(T) = Cardinality(S) - 1 /\ Cardinality(S) - 1 \in Nat
<1>1. IsFiniteSet(T) /\ Cardinality(T) = Cardinality(S) - 1
  BY FS_RemoveElement
<1> QED
  BY <1>1, FS_CardinalityType

Slots == {Slot(s) : s \in Streams}
XapiOf(S) == {s \in S : Kind[s] = "xapi"}
AtSlot(S, x) == {s \in S : Slot(s) = x}

LEMMA CountsByHeld ==
    CountsAreExact <=> /\ globalCount = Cardinality(XapiOf(Held))
                       /\ \A x \in DOMAIN perIpCount :
                             perIpCount[x] = Cardinality(AtSlot(Held, x))
BY DEF CountsAreExact, Held, XapiOf, AtSlot

LEMMA PartsAreFinite ==
    ASSUME IsFiniteSet(Held), NEW x
    PROVE  IsFiniteSet(XapiOf(Held)) /\ IsFiniteSet(AtSlot(Held, x))
BY FS_Subset DEF XapiOf, AtSlot

LEMMA ConnectCounts ==
    ASSUME TypeOK, CountsOK, NEW s \in Streams, Connect(s)
    PROVE  CountsOK' /\ globalCount' \in Nat /\ perIpCount' \in [Slots -> Nat]
<1>0. perIpCount \in [Slots -> Nat] /\ globalCount \in Nat /\ Slot(s) \in Slots
  BY DEF TypeOK, Slots
<1>1. CASE stream' = [stream EXCEPT ![s] = "gone"] /\ UNCHANGED <<globalCount, perIpCount>>
  <2>1. Held' = Held
    BY <1>1 DEF Held, Connect, TypeOK
  <2> QED
    BY <1>0, <1>1, <2>1 DEF CountsOK, CountsAreExact, Held, Slot
<1>2. CASE /\ stream' = [stream EXCEPT ![s] = "open"]
           /\ globalCount' = IF Kind[s] = "xapi" THEN globalCount + 1 ELSE globalCount
           /\ perIpCount' = [perIpCount EXCEPT ![Slot(s)] = @ + 1]
  <2> DEFINE H == Held'
  <2>1. s \notin Held /\ H = Held \cup {s}
    BY <1>2 DEF Held, Connect, TypeOK
  <2> HIDE DEF H
  <2>2. IsFiniteSet(H) /\ IsFiniteSet(Held)
    BY <2>1, FS_AddElement DEF CountsOK
  <2>3. globalCount' = Cardinality(XapiOf(H))
    <3>1. CASE Kind[s] = "xapi"
      <4>1. XapiOf(H) = XapiOf(Held) \cup {s} /\ s \notin XapiOf(Held)
        BY <2>1, <3>1 DEF XapiOf
      <4> QED
        BY <1>2, <2>2, <3>1, <4>1, OneMore, PartsAreFinite, CountsByHeld DEF CountsOK
    <3>2. CASE Kind[s] # "xapi"
      <4>1. XapiOf(H) = XapiOf(Held)
        BY <2>1, <3>2 DEF XapiOf
      <4> QED
        BY <1>2, <3>2, <4>1, CountsByHeld DEF CountsOK
    <3> QED
      BY <3>1, <3>2
  <2>4. ASSUME NEW x \in Slots
        PROVE  perIpCount'[x] = Cardinality(AtSlot(H, x))
    <3>0. perIpCount[x] = Cardinality(AtSlot(Held, x))
      BY <1>0, CountsByHeld DEF CountsOK
    <3>1. CASE x = Slot(s)
      <4>1. AtSlot(H, x) = AtSlot(Held, x) \cup {s} /\ s \notin AtSlot(Held, x)
        BY <2>1, <3>1 DEF AtSlot
      <4> QED
        BY <1>0, <1>2, <2>2, <3>0, <3>1, <4>1, OneMore, PartsAreFinite
    <3>2. CASE x # Slot(s)
      <4>1. AtSlot(H, x) = AtSlot(Held, x)
        BY <2>1, <3>2 DEF AtSlot
      <4> QED
        BY <1>0, <1>2, <3>0, <3>2, <4>1
    <3> QED
      BY <3>1, <3>2
  <2>5. globalCount' \in Nat /\ perIpCount' \in [Slots -> Nat]
    BY <1>0, <1>2
  <2>6. CountsAreExact'
    BY <2>3, <2>4, <2>5 DEF CountsAreExact, H, Held, XapiOf, AtSlot, Slot
  <2> QED
    BY <2>2, <2>5, <2>6 DEF CountsOK, H
<1> QED
  BY <1>1, <1>2 DEF Connect

LEMMA DisconnectCounts ==
    ASSUME TypeOK, CountsOK, NEW s \in Streams, Disconnect(s)
    PROVE  CountsOK' /\ globalCount' \in Nat /\ perIpCount' \in [Slots -> Nat]
<1>0. perIpCount \in [Slots -> Nat] /\ globalCount \in Nat /\ Slot(s) \in Slots
  BY DEF TypeOK, Slots
<1>1. /\ stream' = [stream EXCEPT ![s] = "gone"] /\ stream[s] = "open"
      /\ globalCount' = IF Kind[s] = "xapi" THEN globalCount - 1 ELSE globalCount
      /\ perIpCount' = [perIpCount EXCEPT ![Slot(s)] = @ - 1]
  BY DEF Disconnect, Released
<1> DEFINE H == Held'
<1>2. s \in Held /\ H = Held \ {s}
  BY <1>1 DEF Held, TypeOK
<1> HIDE DEF H
<1>3. IsFiniteSet(H) /\ IsFiniteSet(Held)
  BY <1>2, FS_RemoveElement DEF CountsOK
<1>4. globalCount' = Cardinality(XapiOf(H)) /\ globalCount' \in Nat
  <2>1. CASE Kind[s] = "xapi"
    <3>1. XapiOf(H) = XapiOf(Held) \ {s} /\ s \in XapiOf(Held)
      BY <1>2, <2>1 DEF XapiOf
    <3> QED
      BY <1>1, <1>3, <2>1, <3>1, OneLess, PartsAreFinite, CountsByHeld DEF CountsOK
  <2>2. CASE Kind[s] # "xapi"
    <3>1. XapiOf(H) = XapiOf(Held)
      BY <1>2, <2>2 DEF XapiOf
    <3> QED
      BY <1>0, <1>1, <2>2, <3>1, CountsByHeld DEF CountsOK
  <2> QED
    BY <2>1, <2>2
<1>5. ASSUME NEW x \in Slots
      PROVE  perIpCount'[x] = Cardinality(AtSlot(H, x)) /\ perIpCount'[x] \in Nat
  <2>0. perIpCount[x] = Cardinality(AtSlot(Held, x))
    BY <1>0, CountsByHeld DEF CountsOK
  <2>1. CASE x = Slot(s)
    <3>1. AtSlot(H, x) = AtSlot(Held, x) \ {s} /\ s \in AtSlot(Held, x)
      BY <1>2, <2>1 DEF AtSlot
    <3>2. perIpCount'[x] = perIpCount[x] - 1
      BY <1>0, <1>1, <2>1
    <3> QED
      BY <1>3, <2>0, <3>1, <3>2, OneLess, PartsAreFinite
  <2>2. CASE x # Slot(s)
    <3>1. AtSlot(H, x) = AtSlot(Held, x)
      BY <1>2, <2>2 DEF AtSlot
    <3> QED
      BY <1>0, <1>1, <2>0, <2>2, <3>1
  <2> QED
    BY <2>1, <2>2
<1>6. perIpCount' \in [Slots -> Nat]
  BY <1>0, <1>1, <1>5
<1>7. CountsAreExact'
  BY <1>4, <1>5, <1>6 DEF CountsAreExact, H, Held, XapiOf, AtSlot, Slot
<1> QED
  BY <1>3, <1>4, <1>6, <1>7 DEF CountsOK, H

-----------------------------------------------------------------------------
(* The steps of the service. *)

LEMMA CallbackStep ==
    ASSUME ListenerOK, ListenerStep \/ ListenerFault
    PROVE  ListenerOK' /\ (overtaken => overtaken') /\ UNCHANGED <<handlers, stopped>>
<1>1. ListenerOK' /\ (overtaken => overtaken')
  BY ConnectedStep, ListenDoneStep, ConnectionLostStep, ErrorReportedStep, TimerFiresStep,
     SubscribedStep DEF ListenerStep, ListenerFault
<1>2. UNCHANGED <<handlers, stopped>>
  BY DEF ListenerStep, ListenerFault, Connected, ListenDone, ConnectionLost, ErrorReported,
         TimerFires, Subscribed
<1> QED
  BY <1>1, <1>2

LEMMA ListenerStays == ListenerOK /\ UNCHANGED listenerVars => ListenerOK'
BY DEF ListenerOK, ListenerTypeOK, ServedOK, OneSource, LiteOK, listenerVars, Sourced,
       HasClient, Live

LEMMA CountsStay ==
    ASSUME TypeOK, CountsOK, UNCHANGED <<globalCount, perIpCount>>,
           \A s \in Streams : stream'[s] \in {"open", "ended"} <=> stream[s] \in {"open", "ended"}
    PROVE  CountsOK'
<1>1. Held' = Held
  BY DEF Held
<1> QED
  BY <1>1 DEF CountsOK, CountsAreExact, Held, Slot

(* What is left of the type, apart from the listener's and the streams'. *)
ProcessType ==
    /\ notified \subseteq Events
    /\ fetch \subseteq Streams \X notified \X Sources
    /\ got \in [Streams -> [Events -> 0 .. 2]]
    /\ phase \in Phase
    /\ inFlight \subseteq Requests
    /\ exit \in {None, 0, 1}
    /\ (exit = None) = Running

StreamType ==
    /\ stream \in [Streams -> {"new", "open", "gone", "ended"}]
    /\ globalCount \in Nat
    /\ perIpCount \in [Slots -> Nat]

RegisteredOK == \A s \in Streams : stream[s] = "open" /\ ~stopped => s \in handlers

LEMMA TypeParts == TypeOK <=> ListenerTypeOK /\ StreamType /\ ProcessType /\ RegisteredOK
BY DEF TypeOK, StreamType, ProcessType, RegisteredOK, OpenStreams, Slots

LEMMA AllParts ==
    ASSUME ListenerOK', StreamType', ProcessType', RegisteredOK', CountsOK', FetchOK', PhaseOK'
    PROVE  IndInv'
<1>1. TypeOK'
  BY DEF ListenerOK, TypeOK, StreamType, ProcessType, RegisteredOK, OpenStreams, Slots
<1> QED
  BY <1>1 DEF IndInv

LEMMA ProcessStep ==
    ASSUME IndInv, UNCHANGED <<listenerVars, streamVars, eventVars>>,
           \/ Serve \/ PoolEnded \/ Sigterm \/ Deadline
           \/ \E r \in Requests : RequestBegins(r) \/ RequestEnds(r)
    PROVE  IndInv'
<1>0. ListenerOK /\ StreamType /\ ProcessType /\ RegisteredOK /\ CountsOK /\ FetchOK /\ PhaseOK
  BY TypeParts DEF IndInv
<1>1. ListenerOK'
  BY <1>0, ListenerStays
<1>2. StreamType'
  BY <1>0 DEF StreamType, streamVars, Slots, Slot
<1>3. RegisteredOK' /\ FetchOK'
  BY <1>0 DEF RegisteredOK, FetchOK, streamVars, eventVars, listenerVars
<1>4. CountsOK'
  BY <1>0, CountsStay DEF IndInv, streamVars
<1>5. notified' = notified /\ fetch' = fetch /\ got' = got /\ stopped' = stopped
  BY DEF eventVars, listenerVars
<1>6. ProcessType' /\ PhaseOK'
  <2>1. CASE Serve \/ Sigterm
    BY <1>0, <1>5, <2>1 DEF ProcessType, PhaseOK, Serve, Sigterm, Phase, Running
  <2>2. CASE PoolEnded \/ Deadline
    <3>1. phase \in {"closing", "stopping", "ending"} /\ phase' = "exited" /\ exit' \in {0, 1}
          /\ inFlight' = inFlight
      BY <2>2 DEF PoolEnded, Deadline, ShuttingDown
    <3> QED
      BY <1>0, <1>5, <3>1, StreamsAssumption
         DEF StreamsAssumption, ProcessType, PhaseOK, Phase, Running
  <2>3. CASE \E r \in Requests : RequestBegins(r) \/ RequestEnds(r)
    BY <1>0, <1>5, <2>3 DEF ProcessType, PhaseOK, RequestBegins, RequestEnds, Running
  <2> QED
    BY <2>1, <2>2, <2>3
<1> QED
  BY <1>1, <1>2, <1>3, <1>4, <1>6, AllParts

LEMMA ListenerMoves ==
    ASSUME IndInv, UNCHANGED <<streamVars, eventVars, inFlight, exit>>,
           \/ ListenerActs \/ ListenerFails
           \/ ServersClosed \/ ListenerStopped
    PROVE  IndInv'
<1>0. ListenerOK /\ StreamType /\ ProcessType /\ RegisteredOK /\ CountsOK /\ FetchOK /\ PhaseOK
  BY TypeParts DEF IndInv
<1>1. /\ ListenerOK' /\ (overtaken => overtaken')
      /\ ~stopped' => ~stopped /\ handlers' = handlers
      /\ phase' \in Phase /\ (phase' = "exited" <=> phase = "exited")
      /\ PhaseOK'
  <2>1. CASE ListenerActs \/ ListenerFails
    BY <1>0, <2>1, CallbackStep DEF ListenerActs, ListenerFails, processVars, PhaseOK, ProcessType
  <2>2. CASE ServersClosed
    BY <1>0, <2>2, StopStep DEF ServersClosed, stop, PhaseOK, Phase
  <2>3. CASE ListenerStopped
    <3>1. stopped
      BY <1>0, <2>3 DEF ListenerStopped, PhaseOK
    <3> QED
      BY <1>0, <2>3, <3>1, StopEndsStep DEF ListenerStopped, StopEnds, PhaseOK, Phase
  <2> QED
    BY <2>1, <2>2, <2>3
<1>2. StreamType'
  BY <1>0 DEF StreamType, streamVars, Slots, Slot
<1>3. RegisteredOK'
  BY <1>0, <1>1 DEF RegisteredOK, streamVars
<1>4. FetchOK'
  BY <1>0, <1>1 DEF FetchOK, eventVars
<1>5. CountsOK'
  BY <1>0, CountsStay DEF IndInv, streamVars
<1>6. ProcessType'
  BY <1>0, <1>1 DEF ProcessType, eventVars, Running
<1> QED
  BY <1>1, <1>2, <1>3, <1>4, <1>5, <1>6, AllParts

LEMMA StreamStep ==
    ASSUME IndInv, StreamsAssumption, NEW s \in Streams,
           Connect(s) \/ Disconnect(s) \/ StreamEnds(s)
    PROVE  IndInv'
<1>0. /\ ListenerOK /\ StreamType /\ ProcessType /\ RegisteredOK /\ CountsOK /\ FetchOK /\ PhaseOK
      /\ s \in Handlers
  BY TypeParts DEF IndInv, StreamsAssumption
<1>1. UNCHANGED <<notified, fetch, got, phase, inFlight, exit>>
  BY DEF Connect, Disconnect, StreamEnds, eventVars, processVars
<1>2. ProcessType'
  BY <1>0, <1>1 DEF ProcessType, Running
<1>3. /\ ListenerOK' /\ (overtaken => overtaken')
      /\ stopped' = stopped
      /\ StreamType' /\ RegisteredOK' /\ CountsOK'
  <2>1. CASE Connect(s)
    <3>1. StreamType' /\ CountsOK'
      <4>1. CountsOK' /\ globalCount' \in Nat /\ perIpCount' \in [Slots -> Nat]
        BY <2>1, ConnectCounts DEF IndInv
      <4>2. stream' \in [Streams -> {"new", "open", "gone", "ended"}]
        BY <1>0, <2>1 DEF Connect, StreamType
      <4> QED
        BY <4>1, <4>2 DEF StreamType, Slots, Slot
    <3>2. CASE stream' = [stream EXCEPT ![s] = "gone"] /\ UNCHANGED listenerVars
      <4>1. RegisteredOK' /\ stopped' = stopped /\ overtaken' = overtaken
        BY <1>0, <3>2 DEF RegisteredOK, StreamType, listenerVars
      <4> QED
        BY <1>0, <3>1, <3>2, <4>1, ListenerStays
    <3>3. CASE stream' = [stream EXCEPT ![s] = "open"] /\ on(s)
      <4>1. ~stopped
        BY <1>0, <2>1 DEF Connect, PhaseOK
      <4>2. RegisteredOK' /\ stopped' = stopped
        BY <1>0, <3>3 DEF RegisteredOK, StreamType, on
      <4> QED
        BY <1>0, <3>1, <3>3, <4>1, <4>2, OnStep
    <3> QED
      BY <2>1, <3>2, <3>3 DEF Connect
  <2>2. CASE Disconnect(s)
    <3>1. StreamType' /\ CountsOK'
      <4>1. CountsOK' /\ globalCount' \in Nat /\ perIpCount' \in [Slots -> Nat]
        BY <2>2, DisconnectCounts DEF IndInv
      <4>2. stream' \in [Streams -> {"new", "open", "gone", "ended"}]
        BY <1>0, <2>2 DEF Disconnect, StreamType
      <4> QED
        BY <4>1, <4>2 DEF StreamType, Slots, Slot
    <3>2. RegisteredOK' /\ stopped' = stopped
      BY <1>0, <2>2 DEF RegisteredOK, StreamType, Disconnect, off
    <3> QED
      BY <1>0, <2>2, <3>1, <3>2, OffStep DEF Disconnect
  <2>3. CASE StreamEnds(s)
    <3>1. UNCHANGED listenerVars /\ UNCHANGED <<globalCount, perIpCount>>
          /\ stream' = [stream EXCEPT ![s] = "ended"] /\ stream[s] = "open"
      BY <2>3 DEF StreamEnds
    <3>2. CountsOK'
      BY <1>0, <3>1, CountsStay DEF IndInv, StreamType
    <3>3. StreamType' /\ RegisteredOK'
      BY <1>0, <3>1 DEF StreamType, RegisteredOK, listenerVars, Slots, Slot
    <3> QED
      BY <1>0, <3>1, <3>2, <3>3, ListenerStays DEF listenerVars
  <2> QED
    BY <2>1, <2>2, <2>3
<1>4. FetchOK' /\ PhaseOK'
  BY <1>0, <1>1, <1>3 DEF FetchOK, PhaseOK
<1> QED
  BY <1>2, <1>3, <1>4, AllParts

LEMMA EventStep ==
    ASSUME IndInv, StreamsAssumption,
           \/ \E n \in Events : Notify(n)
           \/ \E s \in Streams, n \in Events, c \in Sources : FetchEnds(s, n, c)
    PROVE  IndInv'
<1>0. /\ ListenerOK /\ StreamType /\ ProcessType /\ RegisteredOK /\ CountsOK /\ FetchOK /\ PhaseOK
      /\ handlers \subseteq Streams /\ listening \subseteq Sources
      /\ \A c \in listening : Live(c)
  BY TypeParts DEF IndInv, StreamsAssumption, ListenerOK, ListenerTypeOK, Sourced, Live
<1>1. UNCHANGED <<listenerVars, streamVars, processVars>>
  BY DEF Notify, FetchEnds
<1>2. ListenerOK' /\ PhaseOK'
  BY <1>0, <1>1, ListenerStays DEF PhaseOK, processVars, listenerVars
<1>3. StreamType' /\ RegisteredOK'
  BY <1>0, <1>1 DEF StreamType, RegisteredOK, streamVars, listenerVars, Slots, Slot
<1>4. CountsOK'
  BY <1>0, <1>1, CountsStay DEF IndInv, streamVars
<1>5. ProcessType' /\ FetchOK'
  <2>1. ASSUME NEW n \in Events, Notify(n)
        PROVE  ProcessType' /\ FetchOK'
    <3>1. /\ n \notin notified /\ notified' = notified \cup {n} /\ got' = got
          /\ fetch' = fetch \cup handlers \X {n} \X listening
      BY <2>1 DEF Notify
    <3>2. ProcessType'
      <4>1. handlers \X {n} \X listening \subseteq Streams \X notified' \X Sources
        BY <1>0, <3>1
      <4>2. fetch' \subseteq Streams \X notified' \X Sources
        BY <1>0, <3>1, <4>1 DEF ProcessType
      <4> QED
        BY <1>0, <1>1, <3>1, <4>2 DEF ProcessType, processVars, Running
    <3>3. FetchOK'
      <4>1. SUFFICES ASSUME ~overtaken, NEW s \in Streams, NEW m \in Events
                     PROVE  /\ got[s][m] \in {0, 1}
                            /\ m \notin notified' => got[s][m] = 0
                            /\ \A c \in Sources : <<s, m, c>> \in fetch' =>
                                  /\ got[s][m] = 0
                                  /\ \A d \in Sources : <<s, m, d>> \in fetch' => c = d
        BY <1>1, <3>1 DEF FetchOK, listenerVars
      <4>2. CASE m = n
        <5>1. \A c \in Sources : <<s, n, c>> \in fetch' => c \in listening
          BY <1>0, <3>1 DEF ProcessType
        <5>2. \A c, d \in listening : c = d
          BY <1>0, <4>1 DEF ListenerOK, OneSource
        <5>3. got[s][n] = 0
          BY <1>0, <3>1, <4>1 DEF FetchOK
        <5> QED
          BY <4>2, <5>1, <5>2, <5>3
      <4>3. CASE m # n
        <5>1. \A c \in Sources : <<s, m, c>> \in fetch' <=> <<s, m, c>> \in fetch
          BY <3>1, <4>3
        <5> QED
          BY <1>0, <3>1, <4>1, <4>3, <5>1 DEF FetchOK
      <4> QED
        BY <4>2, <4>3
    <3> QED
      BY <3>2, <3>3
  <2>2. ASSUME NEW s \in Streams, NEW n \in Events, NEW c \in Sources, FetchEnds(s, n, c)
        PROVE  ProcessType' /\ FetchOK'
    <3>1. /\ <<s, n, c>> \in fetch /\ fetch' = fetch \ {<<s, n, c>>} /\ notified' = notified
          /\ \/ got' = got
             \/ got[s][n] < 2 /\ got' = [got EXCEPT ![s][n] = @ + 1]
      BY <2>2 DEF FetchEnds
    <3>2. \A x \in Streams, m \in Events :
              /\ got[x][m] \in 0 .. 2
              /\ ~(x = s /\ m = n) => got'[x][m] = got[x][m]
      BY <1>0, <3>1 DEF ProcessType
    <3>3. got' \in [Streams -> [Events -> 0 .. 2]]
      <4>1. CASE got' = got
        BY <1>0, <4>1 DEF ProcessType
      <4>2. CASE got[s][n] < 2 /\ got' = [got EXCEPT ![s][n] = @ + 1]
        <5>1. got[s][n] + 1 \in 0 .. 2
          BY <3>2, <4>2
        <5> QED
          BY <1>0, <4>2, <5>1 DEF ProcessType
      <4> QED
        BY <3>1, <4>1, <4>2
    <3>4. ProcessType'
      BY <1>0, <1>1, <3>1, <3>3 DEF ProcessType, processVars, Running
    <3>5. ASSUME ~overtaken
          PROVE  got'[s][n] \in {0, 1} /\ \A d \in Sources : <<s, n, d>> \notin fetch'
      <4>1. got[s][n] = 0 /\ \A d \in Sources : <<s, n, d>> \in fetch => c = d
        BY <1>0, <3>1, <3>5 DEF FetchOK
      <4>2. got'[s][n] \in {0, 1}
        BY <1>0, <3>1, <4>1 DEF ProcessType
      <4> QED
        BY <3>1, <4>1, <4>2
    <3>6. n \in notified
      BY <1>0, <3>1 DEF ProcessType
    <3>7. FetchOK'
      <4>1. SUFFICES ASSUME ~overtaken, NEW x \in Streams, NEW m \in Events
                     PROVE  /\ got'[x][m] \in {0, 1}
                            /\ m \notin notified => got'[x][m] = 0
                            /\ \A d \in Sources : <<x, m, d>> \in fetch' =>
                                  /\ got'[x][m] = 0
                                  /\ \A e \in Sources : <<x, m, e>> \in fetch' => d = e
        BY <1>1, <3>1 DEF FetchOK, listenerVars
      <4>2. CASE x = s /\ m = n
        BY <3>5, <3>6, <4>1, <4>2
      <4>3. CASE ~(x = s /\ m = n)
        BY <1>0, <3>1, <3>2, <4>1, <4>3 DEF FetchOK
      <4> QED
        BY <4>2, <4>3
    <3> QED
      BY <3>4, <3>7
  <2> QED
    BY <2>1, <2>2
<1> QED
  BY <1>2, <1>3, <1>4, <1>5, AllParts

-----------------------------------------------------------------------------
LEMMA IndInit == Init => IndInv
<1> SUFFICES ASSUME Init PROVE IndInv
  OBVIOUS
<1>1. ListenerOK
  <2>1. /\ asked = {} /\ listening = {} /\ current = None /\ ~timer /\ timer \in BOOLEAN
        /\ handlers = {} /\ stopped \in BOOLEAN /\ overtaken \in BOOLEAN
        /\ backend \in {"pg", "pglite"}
    BY DEF Init, ListenerInit
  <2>2. CASE backend = "pg"
    <3>1. PICK c \in Sources :
              source = [x \in Sources |-> IF x = c THEN "opening" ELSE "unused"]
      BY <2>2 DEF Init, ListenerInit
    <3>2. ListenerTypeOK
      BY <2>1, <3>1 DEF ListenerTypeOK
    <3>3. ServedOK
      BY <2>1, <2>2, <3>1 DEF ServedOK
    <3>4. OneSource /\ LiteOK
      BY <2>1, <2>2, <3>1 DEF OneSource, LiteOK, Live
    <3> QED
      BY <3>2, <3>3, <3>4 DEF ListenerOK
  <2>3. CASE backend = "pglite"
    <3>1. source = [x \in Sources |-> "unused"]
      BY <2>3 DEF Init, ListenerInit
    <3>2. ListenerTypeOK
      BY <2>1, <3>1 DEF ListenerTypeOK
    <3>3. ServedOK /\ OneSource /\ LiteOK
      BY <2>1, <2>3, <3>1 DEF ServedOK, OneSource, LiteOK, Live
    <3> QED
      BY <3>2, <3>3 DEF ListenerOK
  <2> QED
    BY <2>1, <2>2, <2>3
<1>2. StreamType /\ RegisteredOK
  BY DEF Init, StreamType, RegisteredOK, Slots
<1>3. ProcessType
  BY StreamsAssumption DEF StreamsAssumption, Init, ProcessType, Running, Phase
<1>4. TypeOK
  BY <1>1, <1>2, <1>3, TypeParts DEF ListenerOK
<1>5. CountsOK
  <2>1. Held = {}
    BY DEF Init, Held
  <2>2. XapiOf(Held) = {} /\ \A x : AtSlot(Held, x) = {}
    BY <2>1 DEF XapiOf, AtSlot
  <2>3. IsFiniteSet(Held) /\ Cardinality({}) = 0
    BY <2>1, FS_EmptySet
  <2> QED
    BY <2>2, <2>3, CountsByHeld DEF CountsOK, Init
<1>6. FetchOK /\ PhaseOK
  BY DEF Init, ListenerInit, FetchOK, PhaseOK
<1> QED
  BY <1>1, <1>4, <1>5, <1>6 DEF IndInv

LEMMA IndNext == IndInv /\ [Next]_vars => IndInv'
<1> SUFFICES ASSUME IndInv, [Next]_vars PROVE IndInv'
  OBVIOUS
<1>1. CASE UNCHANGED vars
  <2>1. UNCHANGED <<listenerVars, streamVars, eventVars, processVars>>
    BY <1>1 DEF vars
  <2>2. ListenerOK /\ StreamType /\ ProcessType /\ RegisteredOK /\ CountsOK /\ FetchOK /\ PhaseOK
    BY TypeParts DEF IndInv
  <2>3. ListenerOK'
    BY <2>1, <2>2, ListenerStays
  <2>4. CountsOK'
    BY <2>1, <2>2, CountsStay DEF IndInv, streamVars
  <2>5. StreamType' /\ ProcessType' /\ RegisteredOK' /\ FetchOK' /\ PhaseOK'
    BY <2>1, <2>2 DEF StreamType, ProcessType, RegisteredOK, FetchOK, PhaseOK, Slots, Slot,
                      Running, listenerVars, streamVars, eventVars, processVars
  <2> QED
    BY <2>3, <2>4, <2>5, AllParts
<1>2. CASE \/ Serve \/ PoolEnded \/ Sigterm \/ Deadline
           \/ \E r \in Requests : RequestBegins(r) \/ RequestEnds(r)
  <2>1. UNCHANGED <<listenerVars, streamVars, eventVars>>
    BY <1>2 DEF Serve, PoolEnded, Sigterm, Deadline, RequestBegins, RequestEnds
  <2> QED
    BY <1>2, <2>1, ProcessStep
<1>3. CASE ListenerActs \/ ListenerFails \/ ServersClosed \/ ListenerStopped
  <2>1. UNCHANGED <<streamVars, eventVars, inFlight, exit>>
    BY <1>3 DEF ListenerActs, ListenerFails, ServersClosed, ListenerStopped, processVars
  <2> QED
    BY <1>3, <2>1, ListenerMoves
<1>4. CASE \E s \in Streams : Connect(s) \/ Disconnect(s) \/ StreamEnds(s)
  BY <1>4, StreamStep, StreamsAssumption
<1>5. CASE \/ \E n \in Events : Notify(n)
           \/ \E s \in Streams, n \in Events, c \in Sources : FetchEnds(s, n, c)
  BY <1>5, EventStep, StreamsAssumption
<1>6. CASE Exited
  BY <1>1, <1>6 DEF Exited
<1> QED
  BY <1>1, <1>2, <1>3, <1>4, <1>5, <1>6 DEF Next, ServerStep

(* The invariant of listener, streams, fetches and process together. *)
THEOREM Inductive == Spec => []IndInv
<1>1. Init => IndInv
  BY IndInit
<1>2. IndInv /\ [Next]_vars => IndInv'
  BY IndNext
<1> QED
  BY <1>1, <1>2, PTL DEF Spec

(* The variables keep their types, and every open stream is a handler. *)
THEOREM TypeCorrect == Spec => []TypeOK
<1>1. IndInv => TypeOK
  BY DEF IndInv
<1> QED
  BY <1>1, Inductive, PTL

(* No sequence of connects, errors, ends, on and off leaves open streams with a
   listener that neither listens nor is about to. *)
THEOREM NobodyIsForgotten == Spec => []EveryStreamIsServed
<1>1. IndInv => EveryStreamIsServed
  BY DEF IndInv, ListenerOK, ListenerTypeOK, ServedOK, EveryStreamIsServed, Sourced
<1> QED
  BY <1>1, Inductive, PTL

(* Each stream writes each event at most once, unless a source was overtaken. *)
THEOREM Once == Spec => []EventsComeOnce
<1>1. IndInv => EventsComeOnce
  BY DEF IndInv, FetchOK, EventsComeOnce
<1> QED
  BY <1>1, Inductive, PTL

(* The counters of the two limits are right after any connects and aborts. *)
THEOREM ExactCounts == Spec => []CountsAreExact
<1>1. IndInv => CountsAreExact
  BY DEF IndInv, CountsOK
<1> QED
  BY <1>1, Inductive, PTL

(* Listener and pool go only after every request and stream has come to its end,
   and what the deadline cuts off are streams of the admin page only: with
   requests in flight, fetches, event streams or anything to stop or to close the
   server is Busy. *)
THEOREM EndsInOrder == Spec => []OrderlyExit
<1>1. Init => OrderlyExit
  BY StreamsAssumption DEF StreamsAssumption, Init, OrderlyExit
<1>2. IndInv /\ IndInv' /\ OrderlyExit /\ [Next]_vars => OrderlyExit'
  <2> SUFFICES ASSUME IndInv, IndInv', OrderlyExit, [Next]_vars
               PROVE  OrderlyExit'
    OBVIOUS
  <2>0. /\ (exit = None) = (phase # "exited") /\ (exit' = None) = (phase' # "exited")
        /\ exit \in {None, 0, 1}
        /\ stream \in [Streams -> {"new", "open", "gone", "ended"}]
        /\ None \notin {0, 1} /\ Kind \in [Streams -> {"xapi", "admin"}]
    BY StreamsAssumption DEF StreamsAssumption, IndInv, TypeOK, Running
  <2>1. ASSUME phase \in {"starting", "serving", "closing"}, phase' \notin {"stopping", "ending", "exited"}
        PROVE  OrderlyExit'
    BY <2>0, <2>1 DEF OrderlyExit
  <2>2. CASE UNCHANGED <<phase, exit, inFlight, stream>>
    BY <2>2 DEF OrderlyExit, OpenStreams
  <2>3. CASE ServersClosed
    BY <2>0, <2>3 DEF ServersClosed, OrderlyExit, Drained, OpenStreams, streamVars
  <2>4. CASE ListenerStopped \/ PoolEnded
    BY <2>0, <2>4 DEF ListenerStopped, PoolEnded, OrderlyExit, OpenStreams, streamVars
  <2>5. CASE Deadline
    <3>1. ShuttingDown /\ ~Busy /\ exit' = 1 /\ phase' = "exited" /\ UNCHANGED <<inFlight, stream>>
      BY <2>5 DEF Deadline, streamVars
    <3>2. phase = "closing"
      BY <3>1 DEF ShuttingDown, Busy
    <3>3. inFlight = {} /\ OpenStreams # {}
      BY <3>1, <3>2 DEF Busy, Drained
    <3>4. PICK s \in Streams : stream[s] = "open" /\ Kind[s] = "admin"
      BY <2>0, <3>1, <3>3 DEF Busy, LeavesOnShutdown, OpenStreams
    <3> QED
      BY <3>1, <3>3, <3>4 DEF OrderlyExit, OpenStreams
  <2>6. CASE Serve \/ Sigterm \/ \E r \in Requests : RequestBegins(r)
    BY <2>1, <2>6 DEF Serve, Sigterm, RequestBegins
  <2>7. CASE \E r \in Requests : RequestEnds(r)
    BY <2>0, <2>7 DEF RequestEnds, Running, OrderlyExit, OpenStreams, streamVars
  <2>8. CASE \E s \in Streams : Connect(s)
    BY <2>1, <2>8 DEF Connect, processVars
  <2>9. CASE \E s \in Streams : Disconnect(s) \/ StreamEnds(s)
    <3>1. PICK s \in Streams, to \in {"gone", "ended"} :
              /\ stream' = [stream EXCEPT ![s] = to]
              /\ phase # "exited"
              /\ UNCHANGED <<phase, exit, inFlight>>
      BY <2>9 DEF Disconnect, StreamEnds, processVars, ShuttingDown, Running
    <3> QED
      BY <2>0, <3>1 DEF OrderlyExit, OpenStreams
  <2>10. CASE \/ ListenerActs \/ ListenerFails \/ Exited \/ UNCHANGED vars
              \/ \E n \in Events : Notify(n)
              \/ \E s \in Streams, n \in Events, c \in Sources : FetchEnds(s, n, c)
    <3>1. UNCHANGED <<phase, exit, inFlight, stream>>
      BY <2>10 DEF ListenerActs, ListenerFails, Exited, Notify, FetchEnds, vars, processVars,
                   streamVars
    <3> QED
      BY <2>2, <3>1
  <2> QED
    BY <2>3, <2>4, <2>5, <2>6, <2>7, <2>8, <2>9, <2>10 DEF Next, ServerStep
<1> QED
  BY <1>1, <1>2, Inductive, PTL DEF Spec

=============================================================================

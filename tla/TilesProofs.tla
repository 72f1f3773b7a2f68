----------------------------- MODULE TilesProofs -----------------------------
(***************************************************************************)
(* Tiles listen to the right connections, for every set of tiles, hosts,   *)
(* tokens and connections.  What a key shows plays no part in it.          *)
(***************************************************************************)
EXTENDS Tiles, TLAPS

USE NoConnAssumption, InvalidAssumption DEF Settings

\* The types of the variables that subscriptions depend on.
Shape ==
    /\ connections \in [Host -> Conns \cup {NoConn}]
    /\ address \in [Conns -> Settings \cup {Invalid}]
    /\ conn \in [Conns -> Contracts]
    /\ listeners \in [Conns -> SUBSET Tile]
    /\ subscriptions \in [Tile -> Conns \cup {NoConn}]
    /\ using \in [Tile -> Settings \cup {Invalid}]

\* What the application and the key presses hand to connect().
Inputs ==
    /\ visible \in [Tile -> BOOLEAN]
    /\ settings \in [Tile -> Settings \cup {Invalid}]
    /\ answered \in [Tile -> SUBSET (Settings \cup {Invalid})]

\* The manager's connections run, and were made for the host they are kept for.
ManagedRun ==
    \A h \in Host, c \in Conns :
        connections[h] = c => /\ address[c] \in Settings
                              /\ address[c].host = h
                              /\ conn[c].phase = "running"

\* A host that some tile's connection was made for keeps a connection.
HostsServed ==
    \A c \in Conns :
        listeners[c] # {} => /\ address[c] \in Settings
                             /\ connections[address[c].host] # NoConn

Safe == /\ Shape
        /\ SubscriptionsMatch
        /\ ListensAsConfigured
        /\ ManagedRun
        /\ OneRunningPerHost
        /\ HostsServed

----------------------------------------------------------------------------
(* Callbacks of connections *)

\* Nothing but the tiles and the manager decides who listens to what: a step
\* that leaves both alone, and starts and stops no connection, is harmless.
LEMMA Harmless ==
    ASSUME Safe,
           UNCHANGED <<connections, address, listeners, subscriptions, using>>,
           conn' \in [Conns -> Contracts],
           \A c \in Conns : conn'[c].phase = conn[c].phase
    PROVE  Safe'
  BY DEF Safe, Shape, SubscriptionsMatch, ListensAsConfigured, ManagedRun,
         OneRunningPerHost, HostsServed

\* Every callback of a connection is a step of its contract that neither starts
\* nor stops it.
LEMMA ConnectionStep ==
    ASSUME Safe, NEW c \in Conns, Connection(c)
    PROVE  Safe'
<1> USE DEF States
<1>0. conn \in [Conns -> Contracts] /\ conn[c] \in Contracts
  BY DEF Safe, Shape
<1>1. ASSUME NEW r \in Contracts, NEW v, Notify(c, r, v), r.phase = conn[c].phase
      PROVE  Safe'
  <2>1. conn' = [conn EXCEPT ![c] = r]
    BY <1>1 DEF Notify
  <2>2. /\ conn' \in [Conns -> Contracts]
        /\ \A d \in Conns : conn'[d].phase = conn[d].phase
    BY <2>1, <1>0, <1>1
  <2> QED
    BY <2>2, <1>1, Harmless DEF Notify
<1>2. CASE Retry(c)
  <2> DEFINE r == [Trying(conn[c]) EXCEPT !.retry = FALSE]
  <2>1. conn[c].phase = "running"
    BY <1>2 DEF Retry, Contract!Retry
  <2>2. r \in Contracts /\ r.phase = conn[c].phase
    BY <1>0, <2>1 DEF Contracts, Trying
  <2> QED
    BY <1>1, <1>2, <2>2 DEF Retry
<1>3. CASE HelloAck(c)
  BY <1>0, <1>1, <1>3 DEF HelloAck, Contracts
<1>4. CASE Refuse(c)
  BY <1>0, <1>1, <1>4 DEF Refuse, Contracts
<1>5. CASE Fault(c)
  BY <1>0, <1>1, <1>5 DEF Fault, Contracts
<1>6. CASE Stale(c)
  BY <1>0, <1>1, <1>6 DEF Stale, Contracts
<1>7. CASE Lose(c)
  BY <1>0, <1>1, <1>7 DEF Lose, Contracts
<1>8. CASE LoseSilently(c)
  <2>1. conn' = [conn EXCEPT ![c].live = FALSE]
    BY <1>8 DEF LoseSilently
  <2>2. /\ conn' \in [Conns -> Contracts]
        /\ \A d \in Conns : conn'[d].phase = conn[d].phase
    BY <2>1, <1>0 DEF Contracts
  <2> QED
    BY <2>2, <1>8, Harmless DEF LoseSilently, tiles
<1>9. ASSUME NEW v \in Value \cup {NoValue}, Metrics(c, v)
      PROVE  Safe'
  BY <1>0, <1>1, <1>9 DEF Metrics, Contracts
<1>10. CASE Error(c)
  BY <1>0, <1>1, <1>10 DEF Error
<1> QED
  BY <1>2, <1>3, <1>4, <1>5, <1>6, <1>7, <1>8, <1>9, <1>10 DEF Connection, Selected

\* reconnectAll() restarts connections that run already.
LEMMA WakeUpStep == Safe /\ WakeUp => Safe'
<1> SUFFICES ASSUME Safe, WakeUp PROVE Safe'
  OBVIOUS
<1>1. conn \in [Conns -> Contracts]
  BY DEF Safe, Shape
<1>2. \A c \in Conns : (\E h \in Host : connections[h] = c)
                          => conn[c].phase = "running"
  BY DEF Safe, ManagedRun
<1> DEFINE woken(r) == [Trying(r) EXCEPT !.retry = FALSE]
<1>3. ASSUME NEW r \in Contracts, r.phase = "running"
      PROVE  woken(r) \in Contracts /\ woken(r).phase = r.phase
  BY <1>3 DEF Trying, Contracts, States
<1>4. conn' = [c \in Conns |-> IF c \in {d \in Conns : \E h \in Host : connections[h] = d}
                               THEN woken(conn[c]) ELSE conn[c]]
  BY DEF WakeUp
<1> HIDE DEF woken
<1>5. /\ conn' \in [Conns -> Contracts]
      /\ \A c \in Conns : conn'[c].phase = conn[c].phase
  BY <1>1, <1>2, <1>3, <1>4
<1> QED
  BY <1>5, Harmless DEF WakeUp

----------------------------------------------------------------------------
(* connect() of a tile, and its unsubscribing *)

\* Unsubscribing removes the tile's only listener.
LEMMA UnsubscribedIs ==
    ASSUME Safe, NEW t \in Tile
    PROVE  Unsubscribed(t) = [c \in Conns |-> listeners[c] \ {t}]
  BY DEF Safe, Shape, SubscriptionsMatch, Unsubscribed

\* Subscribing makes the new listener the tile's only one.
LEMMA SubscribedIs ==
    ASSUME Safe, NEW t \in Tile, NEW c \in Conns
    PROVE  Subscribed(t, c) =
             [d \in Conns |-> IF d = c THEN listeners[d] \cup {t}
                                       ELSE listeners[d] \ {t}]
<1> DEFINE un == [d \in Conns |-> listeners[d] \ {t}]
<1>1. Subscribed(t, c) = [un EXCEPT ![c] = un[c] \cup {t}]
  BY UnsubscribedIs DEF Subscribed
<1>2. un[c] \cup {t} = listeners[c] \cup {t}
  OBVIOUS
<1> QED
  BY <1>1, <1>2

\* What the manager or a tile refers to is kept as it is, the rest is fresh.
LEMMA ManageKeeps ==
    ASSUME NEW m \in [Host -> Conns \cup {NoConn}],
           NEW as \in [Conns -> Settings \cup {Invalid}],
           NEW cs \in [Conns -> Contracts],
           NEW ss,
           NEW ls \in [Conns -> SUBSET Tile],
           Manage(m, as, cs, ss, ls)
    PROVE  /\ connections' = m /\ listeners' = ls
           /\ address' \in [Conns -> Settings \cup {Invalid}]
           /\ conn' \in [Conns -> Contracts]
           /\ \A c \in Conns :
                 \/ /\ ls[c] # {} \/ \E h \in Host : m[h] = c
                    /\ address'[c] = as[c] /\ conn'[c] = cs[c]
                 \/ /\ ls[c] = {} /\ \A h \in Host : m[h] # c
                    /\ address'[c] = Invalid /\ conn'[c].phase = "idle"
<1>1. Idle \in Contracts /\ Idle.phase = "idle"
  BY DEF Idle, Contracts, States
<1> HIDE DEF Settings
<1> QED
  BY <1>1 DEF Manage

\* A tile that unsubscribes uses nothing.
LEMMA ForgetSafe ==
    ASSUME Safe, NEW t \in Tile, Forget(t), using' = [using EXCEPT ![t] = Invalid]
    PROVE  Safe'
<1> DEFINE ls == [c \in Conns |-> listeners[c] \ {t}]
<1> HIDE DEF Settings
<1>0. Shape /\ SubscriptionsMatch /\ ListensAsConfigured /\ ManagedRun
            /\ OneRunningPerHost /\ HostsServed
  BY DEF Safe
<1>1. Manage(connections, address, conn, snapshot, ls)
  BY UnsubscribedIs DEF Forget
<1>2. ls \in [Conns -> SUBSET Tile]
  BY <1>0 DEF Shape
<1>3. /\ connections' = connections /\ listeners' = ls
      /\ address' \in [Conns -> Settings \cup {Invalid}]
      /\ conn' \in [Conns -> Contracts]
      /\ \A c \in Conns :
            \/ /\ ls[c] # {} \/ \E h \in Host : connections[h] = c
               /\ address'[c] = address[c] /\ conn'[c] = conn[c]
            \/ /\ ls[c] = {} /\ \A h \in Host : connections[h] # c
               /\ address'[c] = Invalid /\ conn'[c].phase = "idle"
  BY <1>0, <1>1, <1>2, ManageKeeps DEF Shape
<1>4. subscriptions' = [subscriptions EXCEPT ![t] = NoConn]
  BY DEF Forget
<1>5. Shape'
  BY <1>0, <1>2, <1>3, <1>4 DEF Shape
<1>6. SubscriptionsMatch'
  BY <1>0, <1>3, <1>4 DEF Shape, SubscriptionsMatch
<1>7. ListensAsConfigured'
  BY <1>0, <1>3, <1>4, <1>6 DEF Shape, ListensAsConfigured, SubscriptionsMatch
<1>8. ManagedRun'
  BY <1>0, <1>3 DEF ManagedRun
<1>9. OneRunningPerHost'
  BY <1>0, <1>3 DEF OneRunningPerHost
<1>10. HostsServed'
  BY <1>0, <1>3 DEF HostsServed
<1> QED
  BY <1>5, <1>6, <1>7, <1>8, <1>9, <1>10 DEF Safe

\* A tile that subscribes to the connection the manager has for its settings.
LEMMA ShareSafe ==
    ASSUME Safe, NEW t \in Tile, NEW s \in Settings,
           Share(t, s), using' = [using EXCEPT ![t] = s]
    PROVE  Safe'
<1>0. Shape /\ SubscriptionsMatch /\ ListensAsConfigured /\ ManagedRun
            /\ OneRunningPerHost /\ HostsServed
  BY DEF Safe
<1>1. PICK c \in Conns :
        /\ c = connections[s.host] /\ address[c].token = s.token
        /\ \/ /\ Manage(connections, address, conn, snapshot, Subscribed(t, c))
              /\ Listen(t, c, {})
           \/ /\ Manage(connections, address, [conn EXCEPT ![c] = Trying(@)],
                        snapshot, Subscribed(t, c))
              /\ Listen(t, c, Unsubscribed(t)[c])
  BY DEF Share
<1> DEFINE ls == [d \in Conns |-> IF d = c THEN listeners[d] \cup {t}
                                           ELSE listeners[d] \ {t}]
<1>2. Subscribed(t, c) = ls /\ ls \in [Conns -> SUBSET Tile]
  BY <1>0, SubscribedIs DEF Shape
<1>3. s.host \in Host /\ address[c] = s /\ conn[c].phase = "running"
  <2>1. s.host \in Host /\ address[c] \in Settings /\ address[c].host = s.host
    BY <1>0, <1>1 DEF ManagedRun
  <2> QED
    BY <1>0, <1>1, <2>1 DEF ManagedRun
<1>4. \E others : Listen(t, c, others)
  BY <1>1
<1>5. subscriptions' = [subscriptions EXCEPT ![t] = c]
  BY <1>4 DEF Listen
<1>6. PICK cs \in [Conns -> Contracts] :
        /\ Manage(connections, address, cs, snapshot, ls)
        /\ \A d \in Conns : cs[d].phase = conn[d].phase
  <2>1. CASE Manage(connections, address, conn, snapshot, ls)
    BY <1>0, <2>1 DEF Shape
  <2>2. CASE Manage(connections, address, [conn EXCEPT ![c] = Trying(@)],
                    snapshot, ls)
    <3>1. conn \in [Conns -> Contracts] /\ conn[c] \in Contracts
      BY <1>0 DEF Shape
    <3>2. Trying(conn[c]) \in Contracts /\ Trying(conn[c]).phase = "running"
      BY <3>1 DEF Trying, Contracts, States
    <3>3. /\ [conn EXCEPT ![c] = Trying(@)] \in [Conns -> Contracts]
          /\ \A d \in Conns :
                [conn EXCEPT ![c] = Trying(@)][d].phase = conn[d].phase
      BY <1>3, <3>1, <3>2
    <3> QED
      BY <2>2, <3>3
  <2> QED
    BY <1>1, <1>2, <2>1, <2>2
<1>15. s # Invalid
  OBVIOUS
<1> HIDE DEF Settings
<1>7. /\ connections' = connections /\ listeners' = ls
      /\ address' \in [Conns -> Settings \cup {Invalid}]
      /\ conn' \in [Conns -> Contracts]
      /\ \A d \in Conns :
            \/ /\ ls[d] # {} \/ \E h \in Host : connections[h] = d
               /\ address'[d] = address[d] /\ conn'[d] = cs[d]
            \/ /\ ls[d] = {} /\ \A h \in Host : connections[h] # d
               /\ address'[d] = Invalid /\ conn'[d].phase = "idle"
  BY <1>0, <1>2, <1>6, ManageKeeps DEF Shape
<1>8. Shape'
  BY <1>0, <1>2, <1>5, <1>7 DEF Shape
<1>9. SubscriptionsMatch'
  BY <1>0, <1>5, <1>7 DEF Shape, SubscriptionsMatch
<1>10. address'[c] = s
  BY <1>1, <1>3, <1>7
<1>11. ListensAsConfigured'
  BY <1>0, <1>5, <1>7, <1>9, <1>10, <1>15
     DEF Shape, ListensAsConfigured, SubscriptionsMatch
<1>12. ManagedRun'
  BY <1>0, <1>6, <1>7 DEF ManagedRun
<1>13. OneRunningPerHost'
  BY <1>0, <1>6, <1>7 DEF OneRunningPerHost
<1>14. HostsServed'
  BY <1>0, <1>1, <1>3, <1>7, <1>10 DEF HostsServed
<1> QED
  BY <1>8, <1>9, <1>11, <1>12, <1>13, <1>14 DEF Safe

\* A tile that has get() create a connection, and stop the one before.
LEMMA OpenSafe ==
    ASSUME Safe, NEW t \in Tile, NEW s \in Settings,
           Open(t, s), using' = [using EXCEPT ![t] = s]
    PROVE  Safe'
<1>0. Shape /\ SubscriptionsMatch /\ ListensAsConfigured /\ ManagedRun
            /\ OneRunningPerHost /\ HostsServed
  BY DEF Safe
<1> DEFINE old == connections[s.host]
<1>1. PICK c \in Conns :
        /\ Unsubscribed(t)[c] = {} /\ \A h \in Host : connections[h] # c
        /\ Manage([connections EXCEPT ![s.host] = c],
                  [address EXCEPT ![c] = s],
                  [d \in Conns |-> IF d = c THEN Created
                                   ELSE IF d = old THEN Over(conn[d])
                                   ELSE conn[d]],
                  [snapshot EXCEPT ![c] = NoValue],
                  Subscribed(t, c))
        /\ Listen(t, c, {})
  BY DEF Open
<1> DEFINE m  == [connections EXCEPT ![s.host] = c]
           as == [address EXCEPT ![c] = s]
           cs == [d \in Conns |-> IF d = c THEN Created
                                  ELSE IF d = old THEN Over(conn[d])
                                  ELSE conn[d]]
           ss == [snapshot EXCEPT ![c] = NoValue]
           ls == [d \in Conns |-> IF d = c THEN listeners[d] \cup {t}
                                  ELSE listeners[d] \ {t}]
<1>2. Subscribed(t, c) = ls /\ ls \in [Conns -> SUBSET Tile]
  BY <1>0, SubscribedIs DEF Shape
<1>3. s.host \in Host /\ listeners[c] \ {t} = {}
  BY <1>1, UnsubscribedIs
<1>4. /\ m \in [Host -> Conns \cup {NoConn}]
      /\ as \in [Conns -> Settings \cup {Invalid}]
  BY <1>0, <1>3 DEF Shape
<1>5. /\ cs \in [Conns -> Contracts]
      /\ cs[c].phase = "running"
      /\ \A d \in Conns \ {c} : d = old => cs[d].phase = "stopped"
      /\ \A d \in Conns \ {c} : d # old => cs[d] = conn[d]
  <2>1. Created \in Contracts /\ Created.phase = "running"
    BY DEF Created, Trying, Idle, Contracts, States
  <2>2. \A r \in Contracts : Over(r) \in Contracts /\ Over(r).phase = "stopped"
    BY DEF Over, Contracts
  <2>3. \A d \in Conns : conn[d] \in Contracts
    BY <1>0 DEF Shape
  <2> QED
    BY <2>1, <2>2, <2>3
<1>6. subscriptions' = [subscriptions EXCEPT ![t] = c]
  BY <1>1 DEF Listen
<1>7. Manage(m, as, cs, ss, ls)
  BY <1>1, <1>2
<1>19. s # Invalid
  OBVIOUS
<1> HIDE DEF Settings, cs, m, as, ss, ls
<1>8. /\ connections' = m /\ listeners' = ls
      /\ address' \in [Conns -> Settings \cup {Invalid}]
      /\ conn' \in [Conns -> Contracts]
      /\ \A d \in Conns :
            \/ /\ ls[d] # {} \/ \E h \in Host : m[h] = d
               /\ address'[d] = as[d] /\ conn'[d] = cs[d]
            \/ /\ ls[d] = {} /\ \A h \in Host : m[h] # d
               /\ address'[d] = Invalid /\ conn'[d].phase = "idle"
  <2>1. Idle \in Contracts /\ Idle.phase = "idle"
    BY DEF Idle, Contracts, States
  <2> QED
    BY <1>2, <1>4, <1>5, <1>7, <2>1 DEF Manage
<1> USE DEF m, as, ls
<1>9. Shape'
  BY <1>0, <1>2, <1>4, <1>6, <1>8 DEF Shape
<1>10. SubscriptionsMatch'
  BY <1>0, <1>6, <1>8 DEF Shape, SubscriptionsMatch
<1>11. address'[c] = s /\ conn'[c].phase = "running"
  BY <1>0, <1>3, <1>5, <1>8 DEF Shape
<1>12. \A d \in Conns \ {c} : listeners'[d] # {} => /\ listeners[d] # {}
                                                   /\ address'[d] = address[d]
  BY <1>0, <1>8 DEF Shape
<1>13. ListensAsConfigured'
  <2>1. \A u \in Tile \ {t} : subscriptions'[u] = subscriptions[u]
                              /\ using'[u] = using[u]
    BY <1>0, <1>6 DEF Shape
  <2>2. subscriptions'[t] = c /\ using'[t] = s
    BY <1>0, <1>6 DEF Shape
  <2>3. \A u \in Tile \ {t} : subscriptions[u] # c
    BY <1>0, <1>3 DEF SubscriptionsMatch
  <2>4. ASSUME NEW u \in Tile \ {t}, NEW d \in Conns, subscriptions'[u] = d
        PROVE  address'[d] = using'[u]
    <3>1. d # c /\ u \in listeners'[d]
      BY <1>10, <2>1, <2>3, <2>4 DEF SubscriptionsMatch
    <3> QED
      BY <1>0, <1>12, <2>1, <2>4, <3>1 DEF ListensAsConfigured
  <2>5. \A u \in Tile \ {t} : subscriptions'[u] = NoConn <=> using'[u] = Invalid
    BY <1>0, <2>1 DEF ListensAsConfigured
  <2> QED
    BY <1>11, <1>19, <2>2, <2>4, <2>5 DEF ListensAsConfigured
<1>14. Invalid \notin Settings
  BY DEF Settings
<1>15. \A d \in Conns : address[d] # Invalid => address[d] \in Settings
  BY <1>0 DEF Shape
<1>16. ManagedRun'
  <2> SUFFICES ASSUME NEW h \in Host, NEW d \in Conns, connections'[h] = d
               PROVE  /\ address'[d] \in Settings /\ address'[d].host = h
                      /\ conn'[d].phase = "running"
    BY DEF ManagedRun
  <2>1. CASE h = s.host
    BY <1>0, <1>3, <1>8, <1>11, <2>1 DEF Shape
  <2>2. CASE h # s.host
    <3>1. connections[h] = d /\ d # c
      BY <1>0, <1>1, <1>3, <1>8, <2>2 DEF Shape
    <3>2. d # old /\ address[d] \in Settings /\ address[d].host = h
          /\ conn[d].phase = "running"
      BY <1>0, <1>3, <2>2, <3>1 DEF ManagedRun
    <3>3. address'[d] = address[d] /\ conn'[d] = conn[d]
      BY <1>0, <1>5, <1>8, <3>1, <3>2 DEF Shape
    <3> QED
      BY <3>2, <3>3
  <2> QED
    BY <2>1, <2>2
<1>17. OneRunningPerHost'
  <2> SUFFICES ASSUME NEW d \in Conns, conn'[d].phase = "running"
               PROVE  /\ address'[d] # Invalid
                      /\ connections'[address'[d].host] = d
    BY DEF OneRunningPerHost
  <2>1. CASE d = c
    BY <1>0, <1>3, <1>8, <1>11, <1>14, <2>1 DEF Shape
  <2>2. CASE d # c
    <3>1. /\ address'[d] = as[d] /\ conn'[d] = cs[d]
      BY <1>8
    <3>2. d # old /\ conn'[d] = conn[d] /\ address'[d] = address[d]
      BY <1>0, <1>5, <2>2, <3>1 DEF Shape
    <3>3. address[d] \in Settings /\ connections[address[d].host] = d
      BY <1>0, <1>15, <3>2 DEF OneRunningPerHost
    <3>4. address[d].host # s.host
      BY <3>2, <3>3
    <3>5. address[d].host \in Host
      BY <3>3 DEF Settings
    <3> QED
      BY <1>0, <1>8, <1>14, <3>2, <3>3, <3>4, <3>5 DEF Shape
  <2> QED
    BY <2>1, <2>2
<1>18. HostsServed'
  <2> SUFFICES ASSUME NEW d \in Conns, listeners'[d] # {}
               PROVE  /\ address'[d] \in Settings
                      /\ connections'[address'[d].host] # NoConn
    BY DEF HostsServed
  <2>1. CASE d = c
    BY <1>0, <1>3, <1>8, <1>11, <2>1 DEF Shape
  <2>2. CASE d # c
    <3>1. /\ address'[d] = address[d] /\ address[d] \in Settings
          /\ connections[address[d].host] # NoConn
      BY <1>0, <1>12, <2>2 DEF HostsServed
    <3>2. address[d].host \in Host
      BY <3>1 DEF Settings
    <3> QED
      BY <1>0, <1>8, <3>1, <3>2 DEF Shape
  <2> QED
    BY <2>1, <2>2
<1> QED
  BY <1>9, <1>10, <1>13, <1>16, <1>17, <1>18 DEF Safe

\* connect() of a tile, whichever way it goes.
LEMMA ConnectSafe ==
    ASSUME Safe, NEW t \in Tile, NEW s \in Settings \cup {Invalid},
           Connect(t, s), using' = [using EXCEPT ![t] = s]
    PROVE  Safe'
<1> HIDE DEF Settings
<1>1. CASE s = Invalid /\ ConnectNowhere(t)
  BY <1>1, ForgetSafe DEF ConnectNowhere
<1>2. CASE s # Invalid /\ Share(t, s)
  BY <1>2, ShareSafe
<1>3. CASE s # Invalid /\ Open(t, s)
  BY <1>3, OpenSafe
<1> QED
  BY <1>1, <1>2, <1>3 DEF Connect

----------------------------------------------------------------------------
(* The specification *)

\* Every event that reaches a tile keeps the invariant.
LEMMA DeckStep ==
    ASSUME Safe, Inputs, NEW t \in Tile, Deck(t)
    PROVE  Safe'
<1> HIDE DEF Settings
<1>0. /\ conn \in [Conns -> Contracts]
      /\ settings[t] \in Settings \cup {Invalid}
      /\ using \in [Tile -> Settings \cup {Invalid}]
      /\ answered[t] \in SUBSET (Settings \cup {Invalid})
  BY DEF Safe, Shape, Inputs
<1>1. CASE WillAppear(t)
  BY <1>0, <1>1, ConnectSafe DEF WillAppear, Events!WillAppear
<1>2. CASE WillDisappear(t)
  BY <1>2, ForgetSafe DEF WillDisappear, Events!WillDisappear
<1>3. CASE KeyDown(t)
  BY <1>0, <1>3, Harmless DEF KeyDown, Events!KeyDown, manager
<1>4. CASE SettingsArrive(t)
  <2>1. CASE visible[t] /\ Connect(t, settings[t])
    BY <1>0, <1>4, <2>1, ConnectSafe DEF SettingsArrive, Events!SettingsArrive
  <2>2. CASE ~visible[t] /\ UNCHANGED <<manager, subscriptions, last, shown>>
    <3>1. using' = using
      BY <1>0, <1>4, <2>2 DEF SettingsArrive, Events!SettingsArrive
    <3> QED
      BY <1>0, <2>2, <3>1, Harmless DEF manager
  <2> QED
    BY <1>4, <2>1, <2>2 DEF SettingsArrive
<1>5. CASE SettingsTimeOut(t)
  BY <1>0, <1>5, Harmless DEF SettingsTimeOut, Events!SettingsTimeOut, manager
<1>6. ASSUME NEW s \in Settings \cup {Invalid}, Configure(t, s)
      PROVE  Safe'
  BY <1>6, ConnectSafe DEF Configure, Events!Configure
<1>7. ASSUME NEW s \in Settings \cup {Invalid}, KeyDownContinues(t, s)
      PROVE  Safe'
  BY <1>7, ConnectSafe DEF KeyDownContinues, Events!KeyDownContinues
<1> QED
  BY <1>1, <1>2, <1>3, <1>4, <1>5, <1>6, <1>7 DEF Deck

\* To the tiles' handlers every step is an event as TileEvents says, or none.
LEMMA EventsStep == [Next]_vars => [Events!Next]_(Events!vars)
<1> SUFFICES ASSUME [Next]_vars PROVE [Events!Next]_(Events!vars)
  OBVIOUS
<1> HIDE DEF Settings
<1>1. CASE WakeUp
  BY <1>1 DEF WakeUp, Events!vars
<1>2. ASSUME NEW t \in Tile, Deck(t) PROVE Events!Event(t)
  BY <1>2 DEF Deck, WillAppear, WillDisappear, KeyDown, SettingsArrive,
              SettingsTimeOut, Configure, KeyDownContinues, Events!Event
<1>3. CASE Later
  <2>1. ASSUME NEW c \in Conns, Connection(c) PROVE UNCHANGED Events!vars
    BY <2>1 DEF Connection, Selected, Retry, HelloAck, Metrics, Refuse, Fault, Stale, Error,
                Lose, LoseSilently, Notify, tiles, deck, Events!vars
  <2>2. ASSUME NEW t \in Tile, IntervalPasses(t) PROVE UNCHANGED Events!vars
    BY <2>2 DEF IntervalPasses, deck, Events!vars
  <2> QED
    BY <1>3, <2>1, <2>2 DEF Later
<1>4. CASE UNCHANGED vars
  BY <1>4 DEF vars, tiles, deck, Events!vars
<1> QED
  BY <1>1, <1>2, <1>3, <1>4 DEF Next, Events!Next

\* Nothing but settings is ever handed to connect().
LEMMA InputsStep == Inputs /\ [Events!Next]_(Events!vars) => Inputs'
<1> SUFFICES ASSUME Inputs, [Events!Next]_(Events!vars) PROVE Inputs'
  OBVIOUS
<1> HIDE DEF Settings
<1>1. ASSUME NEW t \in Tile, NEW s \in Settings \cup {Invalid}, Events!Answer(t, s)
      PROVE  answered' \in [Tile -> SUBSET (Settings \cup {Invalid})]
  BY <1>1 DEF Events!Answer, Inputs
<1>2. ASSUME NEW t \in Tile, Events!Event(t) PROVE Inputs'
  <2>1. settings[t] \in Settings \cup {Invalid}
    BY DEF Inputs
  <2>2. CASE Events!WillAppear(t)
    BY <2>2 DEF Events!WillAppear, Inputs
  <2>3. CASE Events!WillDisappear(t)
    BY <2>3 DEF Events!WillDisappear, Inputs
  <2>4. CASE Events!KeyDown(t)
    BY <2>4 DEF Events!KeyDown, Inputs
  <2>5. CASE Events!SettingsArrive(t)
    BY <1>1, <2>1, <2>5 DEF Events!SettingsArrive, Inputs
  <2>6. CASE Events!SettingsTimeOut(t)
    BY <2>6 DEF Events!SettingsTimeOut, Inputs
  <2>7. ASSUME NEW s \in Settings \cup {Invalid}, Events!Configure(t, s)
        PROVE  Inputs'
    BY <1>1, <2>7 DEF Events!Configure, Inputs
  <2>8. ASSUME NEW s \in Settings \cup {Invalid}, Events!KeyDownContinues(t, s)
        PROVE  Inputs'
    BY <2>8 DEF Events!KeyDownContinues, Inputs
  <2> QED
    BY <1>2, <2>2, <2>3, <2>4, <2>5, <2>6, <2>7, <2>8 DEF Events!Event
<1>3. CASE UNCHANGED Events!vars
  BY <1>3 DEF Events!vars, Inputs
<1> QED
  BY <1>2, <1>3 DEF Events!Next

\* Before any tile appears nothing listens and nothing runs.
LEMMA SafeInit == Init => Safe /\ Inputs
  BY DEF Init, Events!Init, Idle, States, Contracts, Safe, Shape, Inputs, SubscriptionsMatch,
         ListensAsConfigured, ManagedRun, OneRunningPerHost, HostsServed

\* Every step keeps the invariant.
LEMMA SafeStep == Safe /\ Inputs /\ [Next]_vars => Safe'
<1> SUFFICES ASSUME Safe, Inputs, [Next]_vars PROVE Safe'
  OBVIOUS
<1>0. conn \in [Conns -> Contracts]
  BY DEF Safe, Shape
<1>1. CASE WakeUp
  BY <1>1, WakeUpStep
<1>2. ASSUME NEW c \in Conns, Connection(c) PROVE Safe'
  BY <1>2, ConnectionStep
<1>3. ASSUME NEW t \in Tile, Deck(t) PROVE Safe'
  BY <1>3, DeckStep
<1>4. ASSUME NEW t \in Tile, IntervalPasses(t) PROVE Safe'
  BY <1>0, <1>4, Harmless DEF IntervalPasses, manager
<1>5. CASE UNCHANGED vars
  BY <1>0, <1>5, Harmless DEF vars, manager, tiles
<1> QED
  BY <1>1, <1>2, <1>3, <1>4, <1>5 DEF Next, Later

\* The inductive invariant holds of every reachable state.
THEOREM SafeHolds == Spec => [](Safe /\ Inputs)
  BY SafeInit, SafeStep, InputsStep, EventsStep, PTL DEF Spec

\* No order of events leaves a tile's listener behind on a connection, or a
\* tile without the means to unsubscribe.
THEOREM SubscriptionsMatchHolds == Spec => []SubscriptionsMatch
<1>1. Safe => SubscriptionsMatch
  BY DEF Safe
<1> QED
  BY <1>1, SafeHolds, PTL

\* Tiles listen to connections of the host and token they are configured with,
\* whatever other tiles do to the manager's map.
THEOREM ListensAsConfiguredHolds == Spec => []ListensAsConfigured
<1>1. Safe => ListensAsConfigured
  BY DEF Safe
<1> QED
  BY <1>1, SafeHolds, PTL

\* A host never has two running connections, and the manager knows the one.
THEOREM OneRunningPerHostHolds == Spec => []OneRunningPerHost
<1>1. Safe => OneRunningPerHost
  BY DEF Safe
<1> QED
  BY <1>1, SafeHolds, PTL

\* A tile with a stopped connection was overtaken: its host has a running one.
THEOREM FrozenOnlyIfReplacedHolds == Spec => []FrozenOnlyIfReplaced
<1>1. Safe => FrozenOnlyIfReplaced
  <2> SUFFICES ASSUME Safe, NEW t \in Tile, NEW c \in Conns,
                      subscriptions[t] = c, conn[c].phase # "running"
               PROVE  \E d \in Conns \ {c} :
                         /\ connections[using[t].host] = d
                         /\ conn[d].phase = "running"
    BY DEF FrozenOnlyIfReplaced
  <2>1. address[c] = using[t] /\ t \in listeners[c]
    BY DEF Safe, ListensAsConfigured, SubscriptionsMatch
  <2>2. /\ address[c] \in Settings
        /\ connections[address[c].host] # NoConn
    BY <2>1 DEF Safe, HostsServed
  <2>3. address[c].host \in Host
    BY <2>2
  <2>4. connections[address[c].host] \in Conns
    BY <2>2, <2>3 DEF Safe, Shape
  <2>5. conn[connections[address[c].host]].phase = "running"
    BY <2>3, <2>4 DEF Safe, ManagedRun
  <2> QED
    BY <2>1, <2>4, <2>5
<1> QED
  BY <1>1, SafeHolds, PTL

----------------------------------------------------------------------------
(* Late answers *)

\* The handlers of the tiles see the events that TileEvents allows.
THEOREM ImplementsEvents == Spec => Events!Spec
<1>1. Init => Events!Init
  BY DEF Init
<1> QED
  BY <1>1, EventsStep, PTL DEF Spec, Events!Spec

\* Every event that misleads a tile is a key press that continues too late.
LEMMA MisledStep ==
    Inputs /\ using \in [Tile -> Settings \cup {Invalid}]
           /\ [Events!Next]_(Events!vars)
    => Events!MisledByAnswer
<1> SUFFICES ASSUME Inputs, using \in [Tile -> Settings \cup {Invalid}],
                    [Events!Next]_(Events!vars)
             PROVE  Events!MisledByAnswer
  OBVIOUS
<1> HIDE DEF Settings
<1> USE DEF Events!MisledByAnswer, Events!AsConfigured, Inputs
<1>1. ASSUME NEW t \in Tile, Events!Event(t) PROVE Events!MisledByAnswer
  <2>1. CASE Events!WillAppear(t)
    BY <2>1 DEF Events!WillAppear
  <2>2. CASE Events!WillDisappear(t)
    BY <2>2 DEF Events!WillDisappear
  <2>3. CASE Events!KeyDown(t)
    BY <2>3 DEF Events!KeyDown
  <2>4. CASE Events!SettingsArrive(t)
    BY <2>4 DEF Events!SettingsArrive
  <2>5. CASE Events!SettingsTimeOut(t)
    BY <2>5 DEF Events!SettingsTimeOut
  <2>6. ASSUME NEW s \in Settings \cup {Invalid}, Events!Configure(t, s)
        PROVE  Events!MisledByAnswer
    BY <2>6 DEF Events!Configure
  <2>7. ASSUME NEW s \in Settings \cup {Invalid}, Events!KeyDownContinues(t, s)
        PROVE  Events!MisledByAnswer
    BY <2>7 DEF Events!KeyDownContinues
  <2> QED
    BY <1>1, <2>1, <2>2, <2>3, <2>4, <2>5, <2>6, <2>7 DEF Events!Event
<1>2. CASE UNCHANGED Events!vars
  BY <1>2 DEF Events!vars
<1> QED
  BY <1>1, <1>2 DEF Events!Next

\* The present settings of a tile, and its absence, are respected by every step
\* but those of a key press whose answer was overtaken.
THEOREM OnlyLateAnswersMisleadHolds == Spec => OnlyLateAnswersMislead
<1>1. Safe /\ Inputs /\ [Next]_vars => [Events!MisledByAnswer]_(Events!vars)
  BY EventsStep, MisledStep DEF Safe, Shape
<1> QED
  BY <1>1, SafeHolds, PTL DEF Spec, OnlyLateAnswersMislead, Events!OnlyLateAnswersMislead

----------------------------------------------------------------------------
(* The promise of every connection *)

\* What ConnectionContractProofs proves of the contract, of one connection.
Kept(r) ==
    /\ r.phase = "idle" => r.state = "offline"
    /\ r.phase = "running" => r.live \/ r.retry \/ r.refused
    /\ r.phase = "running" /\ r.state = "offline" => r.retry /\ ~r.live
    /\ r.live => r.phase = "running"
    /\ r.refused => r.state \in {"authentication-error", "agent-error", "offline"}
    /\ r.phase = "running" /\ r.state = "authentication-error" => r.refused

Promises == \A c \in Conns : Kept(conn[c])

\* What the manager makes of a connection keeps the promise.
LEMMA MadeKept ==
    /\ Kept(Idle) /\ Kept(Created)
    /\ \A r \in Contracts :
          /\ Kept(Over(r)) /\ Kept(Trying(r))
          /\ Kept([Trying(r) EXCEPT !.retry = FALSE])
<1>1. Idle \in Contracts
  BY DEF Idle, Contracts, States
<1>2. Kept(Idle)
  BY DEF Idle, Kept
<1>3. ASSUME NEW r \in Contracts
      PROVE  /\ Kept(Over(r)) /\ Kept(Trying(r))
             /\ Kept([Trying(r) EXCEPT !.retry = FALSE])
  BY <1>3 DEF Over, Trying, Contracts, Kept
<1> QED
  BY <1>1, <1>2, <1>3 DEF Created

\* Every callback of a connection is a step of the contract.
LEMMA ConnectionPromises ==
    ASSUME Safe, Promises, NEW c \in Conns, Connection(c)
    PROVE  Promises'
<1>0. conn \in [Conns -> Contracts] /\ conn[c] \in Contracts /\ Kept(conn[c])
  BY DEF Safe, Shape, Promises
<1>1. SUFFICES /\ Kept(conn'[c])
               /\ \A d \in Conns \ {c} : conn'[d] = conn[d]
  BY DEF Promises
<1>2. \A d \in Conns \ {c} : conn'[d] = conn[d]
  BY <1>0 DEF Connection, Retry, HelloAck, Metrics, Refuse, Fault, Stale, Error,
              Lose, LoseSilently, Notify
<1> USE DEF Contracts, Kept
<1>3. CASE Retry(c)
  BY <1>0, <1>3, MadeKept DEF Retry, Notify
<1>4. CASE HelloAck(c)
  BY <1>0, <1>4 DEF HelloAck, Notify, Contract!Accept
<1>5. ASSUME NEW v, Metrics(c, v) PROVE Kept(conn'[c])
  BY <1>0, <1>5 DEF Metrics, Notify, Contract!Accept
<1>6. CASE Refuse(c)
  BY <1>0, <1>6 DEF Refuse, Notify, Contract!Refuse
<1>7. CASE Fault(c)
  BY <1>0, <1>7 DEF Fault, Notify, Contract!Fault
<1>8. CASE Stale(c)
  BY <1>0, <1>8 DEF Stale, Notify, Contract!Stale
<1>9. CASE Error(c)
  BY <1>0, <1>9 DEF Error, Notify
<1>10. CASE Lose(c)
  BY <1>0, <1>10 DEF Lose, Notify, Contract!Lose
<1>11. CASE LoseSilently(c)
  BY <1>0, <1>11 DEF LoseSilently, Contract!Lose
<1> QED
  BY <1>2, <1>3, <1>4, <1>5, <1>6, <1>7, <1>8, <1>9, <1>10, <1>11 DEF Connection

\* connect() and unsubscribing replace connections whole.
LEMMA ManagePromises ==
    ASSUME Safe, Promises,
           NEW m, NEW as, NEW cs, NEW ss, NEW ls, Manage(m, as, cs, ss, ls),
           \A c \in Conns : Kept(cs[c])
    PROVE  Promises'
  BY MadeKept DEF Manage, Promises

\* connect() starts connections, makes new ones, and stops old ones.
LEMMA ConnectPromises ==
    ASSUME Safe, Promises, NEW t \in Tile, NEW s, Connect(t, s)
    PROVE  Promises'
<1>0. conn \in [Conns -> Contracts]
  BY DEF Safe, Shape
<1>1. CASE ConnectNowhere(t)
  BY <1>1, ManagePromises DEF ConnectNowhere, Forget, Promises
<1>2. CASE Share(t, s)
  <2>1. PICK c \in Conns :
          \/ Manage(connections, address, conn, snapshot, Subscribed(t, c))
          \/ Manage(connections, address, [conn EXCEPT ![c] = Trying(@)],
                    snapshot, Subscribed(t, c))
    BY <1>2 DEF Share
  <2>2. \A d \in Conns : /\ Kept(conn[d])
                          /\ Kept([conn EXCEPT ![c] = Trying(@)][d])
    BY <1>0, MadeKept DEF Promises
  <2> QED
    BY <2>1, <2>2, ManagePromises
<1>3. CASE Open(t, s)
  <2>1. PICK c \in Conns :
           Manage([connections EXCEPT ![s.host] = c],
                  [address EXCEPT ![c] = s],
                  [d \in Conns |-> IF d = c THEN Created
                                   ELSE IF d = connections[s.host]
                                   THEN Over(conn[d]) ELSE conn[d]],
                  [snapshot EXCEPT ![c] = NoValue],
                  Subscribed(t, c))
    BY <1>3 DEF Open
  <2> DEFINE cs == [d \in Conns |-> IF d = c THEN Created
                                    ELSE IF d = connections[s.host]
                                    THEN Over(conn[d]) ELSE conn[d]]
  <2>2. \A d \in Conns : Kept(cs[d])
    BY <1>0, MadeKept DEF Promises
  <2> QED
    BY <2>1, <2>2, ManagePromises
<1> QED
  BY <1>1, <1>2, <1>3 DEF Connect

\* Every connection keeps the promise, whatever the tiles ask of the manager.
LEMMA PromisesStep == Safe /\ Promises /\ [Next]_vars => Promises'
<1> SUFFICES ASSUME Safe, Promises, [Next]_vars PROVE Promises'
  OBVIOUS
<1> HIDE DEF Settings
<1>0. conn \in [Conns -> Contracts]
  BY DEF Safe, Shape
<1>1. CASE WakeUp
  BY <1>0, <1>1, MadeKept DEF WakeUp, Promises
<1>2. ASSUME NEW c \in Conns, Connection(c) PROVE Promises'
  BY <1>2, ConnectionPromises
<1>3. ASSUME NEW t \in Tile, Deck(t) PROVE Promises'
  <2>1. CASE conn' = conn
    BY <2>1 DEF Promises
  <2>2. CASE \E s : Connect(t, s)
    BY <2>2, ConnectPromises
  <2>3. CASE Forget(t)
    BY <2>3, ManagePromises DEF Forget, Promises
  <2> QED
    BY <1>3, <2>1, <2>2, <2>3 DEF Deck, WillAppear, WillDisappear, KeyDown,
       SettingsArrive, SettingsTimeOut, Configure, KeyDownContinues, manager
<1>4. CASE conn' = conn
  BY <1>4 DEF Promises
<1> QED
  BY <1>1, <1>2, <1>3, <1>4 DEF Next, Later, IntervalPasses, vars, manager

\* Each of the manager's connections keeps what ConnectionContract promises.
THEOREM PromisesHold == Spec => []Promises
<1>1. Init => Promises
  BY MadeKept DEF Init, Promises
<1> QED
  BY <1>1, PromisesStep, SafeHolds, PTL DEF Spec

----------------------------------------------------------------------------
(***************************************************************************)
(* What the keys show, for every set of tiles, connections and values.     *)
(* Every step draws through one of three operators: Tell, when a           *)
(* connection calls its listeners, Listen, when a tile subscribes, and     *)
(* Seen(t, Failure) or Blank without a listener.                           *)
(***************************************************************************)

USE NoValueAssumption, PressAssumption

Drawing == [by : {"nobody", "listener", "failure"},
            state : States \cup {"undefined"}, value : Value \cup {NoValue}]

Memory == [state : States \cup {"undefined"}, value : Value \cup {NoValue},
           throttled : BOOLEAN]

\* The types of the variables that drawing depends on.
Canvas ==
    /\ snapshot \in [Conns -> Value \cup {NoValue}]
    /\ last \in [Tile -> Memory]
    /\ shown \in [Tile -> Drawing]

Shows == Canvas /\ ImageIsTrue /\ RememberedIsShown

\* The image of a state that is true of connection r, as ImageIsTrue says.
Fits(image, r) ==
    /\ image = r.state \/ r.state = "online"
    /\ image \in {"offline", "authentication-error"} => image = r.state
    /\ image \in {"connecting", "online", "metric-unavailable"}
         => r.live \/ r.phase = "stopped" \/ r.retry

\* ImageIsTrue, tile by tile.
LEMMA ImageFits ==
    ImageIsTrue <=>
        \A t \in Tile, c \in Conns :
            visible[t] /\ subscriptions[t] = c /\ shown[t].by = "listener" =>
                Fits(shown[t].state, conn[c])
  BY DEF ImageIsTrue, EndsUntold, Fits

\* A connection that keeps its promise may be drawn in the state it is in.
LEMMA StateFits ==
    ASSUME NEW r \in Contracts, Kept(r)
    PROVE  Fits(r.state, r)
  BY DEF Contracts, Kept, Fits

\* What is on the key of a connection that is stopped stays as true as it was.
LEMMA OverFits ==
    ASSUME NEW r \in Contracts, NEW image, Fits(image, r)
    PROVE  Fits(image, Over(r))
  BY DEF Contracts, Over, Fits

\* No attempt goes online that is shown offline, or as refused.
MayFollow(old, st) ==
    st = "online" => old.state \notin {"offline", "authentication-error"}

\* What the throttle leaves on the key stays true of a connection that is
\* online now.
LEMMA ThrottledFits ==
    ASSUME NEW old \in Contracts, NEW r \in Contracts, Kept(r), r.state = "online",
           MayFollow(old, r.state), NEW image, Fits(image, old)
    PROVE  Fits(image, r)
  BY DEF Contracts, Kept, Fits, MayFollow

----------------------------------------------------------------------------
(* One listener *)

\* A listener keeps its memory, and the key, within their types.
LEMMA HearType ==
    ASSUME NEW l \in Memory, NEW screen \in Drawing, NEW st \in States,
           NEW v \in Value \cup {NoValue}
    PROVE  Hear(l, st, v) \in Memory /\ Draw(screen, l, st, v) \in Drawing
  BY DEF Hear, Draw, Image, Memory, Drawing

\* What a listener drew last is what it remembers, before and after a call.
LEMMA HearRemembers ==
    ASSUME NEW l \in Memory, NEW screen \in Drawing, NEW st \in States,
           NEW v \in Value \cup {NoValue},
           screen.by = "listener" =>
               screen.state = l.state /\ screen.value = l.value,
           Draw(screen, l, st, v).by = "listener"
    PROVE  /\ Draw(screen, l, st, v).state = Hear(l, st, v).state
           /\ Draw(screen, l, st, v).value = Hear(l, st, v).value
           /\ \/ Draw(screen, l, st, v).state = st
              \/ st = "online" /\ Draw(screen, l, st, v) = screen
<1>1. CASE Skips(l, st, v)
  <2>1. Draw(screen, l, st, v) = screen /\ Hear(l, st, v) = l
    BY <1>1 DEF Draw, Hear
  <2> QED
    BY <1>1, <2>1 DEF Skips
<1>2. CASE ~Skips(l, st, v)
  <2>1. /\ Draw(screen, l, st, v) = [by |-> "listener", state |-> st, value |-> v]
        /\ Hear(l, st, v) = [l EXCEPT !.state = st, !.value = v, !.throttled = TRUE]
    BY <1>2 DEF Hear, Draw, Image
  <2>2. Hear(l, st, v).state = st /\ Hear(l, st, v).value = v
    BY <2>1 DEF Memory
  <2>3. Draw(screen, l, st, v).state = st /\ Draw(screen, l, st, v).value = v
    BY <2>1
  <2> QED
    BY <2>2, <2>3
<1> QED
  BY <1>1, <1>2

\* The first call of a listener always draws.
LEMMA FirstCallDraws ==
    ASSUME NEW screen \in Drawing, NEW st \in States,
           NEW v \in Value \cup {NoValue}
    PROVE  /\ Deaf \in Memory
           /\ Draw(screen, Deaf, st, v) = [by |-> "listener", state |-> st, value |-> v]
           /\ Hear(Deaf, st, v).state = st /\ Hear(Deaf, st, v).value = v
  BY DEF Hear, Draw, Image, Skips, Deaf, Memory, States

\* What is drawn without a listener.
LEMMA OtherDrawings == Blank \in Drawing /\ Failure \in Drawing
                       /\ Blank.by # "listener" /\ Failure.by # "listener"
  BY DEF Blank, Failure, Drawing, States

----------------------------------------------------------------------------
(* Calls of listeners *)

\* A connection that calls all its listeners with its new state keeps the
\* images true; the connections of other tiles keep their states.
LEMMA TellShows ==
    ASSUME Shows, conn \in [Conns -> Contracts],
           conn' \in [Conns -> Contracts], Promises',
           NEW A \in SUBSET Tile, NEW st \in States,
           NEW v \in Value \cup {NoValue}, Tell(A, st, v),
           UNCHANGED <<visible, subscriptions>>,
           snapshot' \in [Conns -> Value \cup {NoValue}],
           \A t \in Tile, c \in Conns : subscriptions[t] = c =>
              IF t \in A THEN conn'[c].state = st /\ MayFollow(conn[c], st)
                         ELSE conn'[c] = conn[c]
    PROVE  Shows'
<1>1. Canvas'
  <2>1. last' \in [Tile -> Memory]
    BY HearType DEF Tell, Shows, Canvas
  <2>2. ASSUME NEW t \in Tile PROVE shown'[t] \in Drawing
    BY HearType, OtherDrawings DEF Tell, Seen, Shows, Canvas
  <2> QED
    BY <2>1, <2>2 DEF Canvas, Tell
<1>2. ASSUME NEW t \in Tile, visible'[t], shown'[t].by = "listener"
      PROVE  /\ shown'[t].state = last'[t].state /\ shown'[t].value = last'[t].value
             /\ \A c \in Conns : subscriptions'[t] = c =>
                   Fits(shown'[t].state, conn'[c])
  <2>0. /\ last[t] \in Memory /\ shown[t] \in Drawing
        /\ shown[t].by = "listener" =>
             shown[t].state = last[t].state /\ shown[t].value = last[t].value
    BY <1>2 DEF Shows, Canvas, RememberedIsShown
  <2>1. shown[t].by = "listener" =>
           \A c \in Conns : subscriptions[t] = c => Fits(shown[t].state, conn[c])
    BY <1>2, ImageFits DEF Shows
  <2>2. CASE t \in A
    <3>1. shown'[t] = Draw(shown[t], last[t], st, v) /\ last'[t] = Hear(last[t], st, v)
      BY <1>2, <2>2 DEF Tell, Seen
    <3>2. /\ shown'[t].state = last'[t].state /\ shown'[t].value = last'[t].value
          /\ \/ shown'[t].state = st
             \/ st = "online" /\ shown'[t] = shown[t]
      BY <1>2, <2>0, <3>1, HearRemembers
    <3>3. ASSUME NEW c \in Conns, subscriptions'[t] = c
          PROVE  Fits(shown'[t].state, conn'[c])
      <4>1. /\ conn[c] \in Contracts /\ conn'[c] \in Contracts /\ Kept(conn'[c])
            /\ conn'[c].state = st /\ MayFollow(conn[c], st)
        BY <2>2, <3>3 DEF Promises
      <4>2. CASE shown'[t].state = st
        BY <4>1, <4>2, StateFits
      <4>3. CASE st = "online" /\ shown'[t] = shown[t]
        BY <1>2, <2>1, <3>3, <4>1, <4>3, ThrottledFits
      <4> QED
        BY <3>2, <4>2, <4>3
    <3> QED
      BY <3>2, <3>3
  <2>3. CASE t \notin A
    <3>1. shown'[t] = shown[t] /\ last'[t] = last[t]
      BY <2>3 DEF Tell
    <3> QED
      BY <1>2, <2>0, <2>1, <2>3, <3>1
  <2> QED
    BY <2>2, <2>3
<1>3. ImageIsTrue'
  BY <1>2 DEF ImageIsTrue, EndsUntold, Fits
<1> QED
  BY <1>1, <1>2, <1>3 DEF Shows, RememberedIsShown

\* So does a tile that subscribes, and start() before it, which calls others.
LEMMA ListenShows ==
    ASSUME Shows, NEW t \in Tile, NEW c \in Conns, NEW others \in SUBSET Tile,
           Listen(t, c, others), conn \in [Conns -> Contracts],
           subscriptions \in [Tile -> Conns \cup {NoConn}],
           conn' \in [Conns -> Contracts], Promises',
           others # {} => conn'[c].state = "connecting",
           snapshot' \in [Conns -> Value \cup {NoValue}],
           \A u \in Tile \ {t} : visible'[u] = visible[u],
           \A u \in Tile \ {t}, d \in Conns : subscriptions[u] = d =>
              IF u \in others THEN d = c
              ELSE conn'[d] = conn[d] \/ conn'[d] = Over(conn[d])
    PROVE  Shows'
<1> DEFINE st == conn'[c].state
<1>0. /\ snapshot'[c] \in Value \cup {NoValue} /\ NoValue \in Value \cup {NoValue}
      /\ st \in States
  BY DEF Contracts
<1>3. Fits(st, conn'[c])
  BY StateFits DEF Promises
<1>1. Canvas'
  <2>1. ASSUME NEW u \in Tile PROVE last'[u] \in Memory
    <3>1. last[u] \in Memory /\ shown[u] \in Drawing
      BY DEF Shows, Canvas
    <3> QED
      BY <1>0, <3>1, HearType, FirstCallDraws DEF Listen
  <2>2. ASSUME NEW u \in Tile PROVE shown'[u] \in Drawing
    <3>1. last[u] \in Memory /\ shown[u] \in Drawing
      BY DEF Shows, Canvas
    <3> QED
      BY <1>0, <3>1, HearType, FirstCallDraws, OtherDrawings DEF Listen, Seen
  <2> QED
    BY <2>1, <2>2 DEF Canvas, Listen
<1>2. ASSUME NEW u \in Tile, visible'[u], shown'[u].by = "listener"
      PROVE  /\ shown'[u].state = last'[u].state /\ shown'[u].value = last'[u].value
             /\ \A d \in Conns : subscriptions'[u] = d =>
                   Fits(shown'[u].state, conn'[d])
  <2>0. last[u] \in Memory /\ shown[u] \in Drawing
    BY DEF Shows, Canvas
  <2>1. CASE u = t
    <3>1. /\ shown'[u] = Draw(shown[u], Deaf, st, snapshot'[c])
          /\ last'[u] = Hear(Deaf, st, snapshot'[c])
          /\ subscriptions'[u] = c
      BY <1>2, <2>1 DEF Listen, Seen
    <3> QED
      BY <1>0, <1>3, <2>0, <3>1, FirstCallDraws
  <2>2. CASE u # t /\ u \in others
    <3>0. shown[u].by = "listener" =>
             shown[u].state = last[u].state /\ shown[u].value = last[u].value
      BY <1>2, <2>2 DEF Shows, RememberedIsShown
    <3>1. /\ shown'[u] = Draw(shown[u], last[u], st, NoValue)
          /\ last'[u] = Hear(last[u], st, NoValue)
          /\ subscriptions'[u] = subscriptions[u]
      BY <1>2, <2>2 DEF Listen, Seen
    <3>2. st # "online" /\ \A d \in Conns : subscriptions[u] = d => d = c
      BY <2>2
    <3>3. /\ shown'[u].state = last'[u].state /\ shown'[u].value = last'[u].value
          /\ shown'[u].state = st
      BY <1>0, <1>2, <2>0, <3>0, <3>1, <3>2, HearRemembers
    <3> QED
      BY <1>3, <3>1, <3>2, <3>3
  <2>3. CASE u # t /\ u \notin others
    <3>1. shown'[u] = shown[u] /\ last'[u] = last[u]
          /\ subscriptions'[u] = subscriptions[u]
      BY <1>2, <2>3 DEF Listen, Seen
    <3>2. ASSUME NEW d \in Conns, subscriptions'[u] = d
          PROVE  Fits(shown'[u].state, conn'[d])
      <4>1. Fits(shown[u].state, conn[d]) /\ conn[d] \in Contracts
        BY <1>2, <2>3, <3>1, <3>2, ImageFits DEF Shows
      <4>2. conn'[d] = conn[d] \/ conn'[d] = Over(conn[d])
        BY <2>3, <3>1, <3>2
      <4> QED
        BY <3>1, <4>1, <4>2, OverFits
    <3> QED
      BY <1>2, <2>3, <3>1, <3>2 DEF Shows, RememberedIsShown
  <2> QED
    BY <2>1, <2>2, <2>3
<1>4. ImageIsTrue'
  BY <1>2 DEF ImageIsTrue, EndsUntold, Fits
<1> QED
  BY <1>1, <1>2, <1>4 DEF Shows, RememberedIsShown

----------------------------------------------------------------------------
(* connect() and unsubscribing *)

\* Unsubscribing disturbs no other tile, and the tile's key is its own affair.
LEMMA ForgetShows ==
    ASSUME Safe, Shows, NEW t \in Tile, Forget(t), NEW screen \in Drawing,
           screen.by # "listener",
           shown' = [shown EXCEPT ![t] = screen],
           \A u \in Tile \ {t} : visible'[u] = visible[u]
    PROVE  Shows'
<1> DEFINE ls == [c \in Conns |-> listeners[c] \ {t}]
<1>0. /\ subscriptions \in [Tile -> Conns \cup {NoConn}]
      /\ last \in [Tile -> Memory] /\ shown \in [Tile -> Drawing]
      /\ snapshot \in [Conns -> Value \cup {NoValue}]
  BY DEF Safe, Shape, Shows, Canvas
<1>1. Manage(connections, address, conn, snapshot, ls)
  BY UnsubscribedIs DEF Forget
<1>2. /\ snapshot' \in [Conns -> Value \cup {NoValue}]
      /\ \A c \in Conns : ls[c] # {} => conn'[c] = conn[c]
  BY <1>0, <1>1 DEF Manage
<1>3. /\ subscriptions' = [subscriptions EXCEPT ![t] = NoConn]
      /\ last' = [last EXCEPT ![t] = Deaf]
  BY DEF Forget
<1>4. Deaf \in Memory
  BY DEF Deaf, Memory
<1>5. Canvas'
  BY <1>0, <1>2, <1>3, <1>4 DEF Canvas
<1>6. RememberedIsShown'
  BY <1>0, <1>3 DEF Shows, RememberedIsShown
<1>7. ASSUME NEW u \in Tile, NEW c \in Conns, subscriptions'[u] = c,
             visible'[u], shown'[u].by = "listener"
      PROVE  Fits(shown'[u].state, conn'[c])
  <2>1. u # t /\ subscriptions[u] = c /\ shown'[u] = shown[u] /\ visible[u]
    BY <1>0, <1>3, <1>7
  <2>2. u \in ls[c]
    BY <2>1 DEF Safe, SubscriptionsMatch
  <2>3. conn'[c] = conn[c]
    BY <1>2, <2>2
  <2> QED
    BY <1>7, <2>1, <2>3, ImageFits DEF Shows
<1>8. ImageIsTrue'
  BY <1>7 DEF ImageIsTrue, EndsUntold, Fits
<1> QED
  BY <1>5, <1>6, <1>8 DEF Shows

\* connect() draws what the connection it found, or made, is in.
LEMMA ConnectShows ==
    ASSUME Safe, Safe', Promises', Shows, NEW t \in Tile,
           NEW s \in Settings \cup {Invalid}, Connect(t, s),
           \A u \in Tile \ {t} : visible'[u] = visible[u]
    PROVE  Shows'
<1>0. /\ conn \in [Conns -> Contracts] /\ conn' \in [Conns -> Contracts]
      /\ subscriptions \in [Tile -> Conns \cup {NoConn}]
      /\ snapshot \in [Conns -> Value \cup {NoValue}]
      /\ \A u \in Tile, d \in Conns : u \in listeners[d] <=> subscriptions[u] = d
  BY DEF Safe, Shape, SubscriptionsMatch, Shows, Canvas
<1>2. CASE ConnectNowhere(t)
  <2>1. Seen(t, Failure) \in Drawing /\ Seen(t, Failure).by # "listener"
    BY OtherDrawings DEF Seen
  <2>2. \E screen \in Drawing : /\ screen.by # "listener"
                                /\ shown' = [shown EXCEPT ![t] = screen]
    BY <1>2, <2>1 DEF ConnectNowhere
  <2> QED
    BY <1>2, <2>2, ForgetShows DEF ConnectNowhere
<1>3. CASE Share(t, s)
  <2>1. PICK c \in Conns :
          \/ /\ Manage(connections, address, conn, snapshot, Subscribed(t, c))
             /\ Listen(t, c, {})
          \/ /\ Manage(connections, address, [conn EXCEPT ![c] = Trying(@)],
                       snapshot, Subscribed(t, c))
             /\ Listen(t, c, Unsubscribed(t)[c])
    BY <1>3 DEF Share
  <2>2. Subscribed(t, c) = [d \in Conns |-> IF d = c THEN listeners[d] \cup {t}
                                                     ELSE listeners[d] \ {t}]
    BY SubscribedIs
  <2>3. /\ t \in Subscribed(t, c)[c]
        /\ \A u \in Tile \ {t}, d \in Conns :
              subscriptions[u] = d => u \in Subscribed(t, c)[d]
    BY <1>0, <2>2
  <2>4. CASE /\ Manage(connections, address, conn, snapshot, Subscribed(t, c))
             /\ Listen(t, c, {})
    <3>1. /\ snapshot' \in [Conns -> Value \cup {NoValue}]
          /\ \A d \in Conns : Subscribed(t, c)[d] # {} => conn'[d] = conn[d]
      BY <1>0, <2>4 DEF Manage
    <3>2. \A u \in Tile \ {t}, d \in Conns :
             subscriptions[u] = d => conn'[d] = conn[d]
      BY <2>3, <3>1
    <3> QED
      BY <1>0, <2>4, <3>1, <3>2, ListenShows
  <2>5. CASE /\ Manage(connections, address, [conn EXCEPT ![c] = Trying(@)],
                       snapshot, Subscribed(t, c))
             /\ Listen(t, c, Unsubscribed(t)[c])
    <3> DEFINE cs == [conn EXCEPT ![c] = Trying(@)]
               others == listeners[c] \ {t}
    <3>1. /\ snapshot' \in [Conns -> Value \cup {NoValue}]
          /\ \A d \in Conns : Subscribed(t, c)[d] # {} => conn'[d] = cs[d]
      BY <1>0, <2>5 DEF Manage
    <3>2. cs[c].state = "connecting"
      BY <1>0 DEF Trying, Contracts
    <3>3. conn'[c].state = "connecting"
      BY <2>3, <3>1, <3>2
    <3>4. /\ Listen(t, c, others)
          /\ others \in SUBSET Tile
      <4>1. Unsubscribed(t)[c] = others
        BY UnsubscribedIs
      <4>2. listeners[c] \in SUBSET Tile
        BY DEF Safe, Shape
      <4> QED
        BY <2>5, <4>1, <4>2
    <3>5. \A u \in Tile \ {t}, d \in Conns : subscriptions[u] = d =>
             IF u \in others THEN d = c ELSE conn'[d] = conn[d]
      BY <1>0, <2>3, <3>1
    <3> QED
      BY <1>0, <3>1, <3>3, <3>4, <3>5, ListenShows
  <2> QED
    BY <2>1, <2>4, <2>5
<1>4. CASE Open(t, s)
  <2> DEFINE old == connections[s.host]
  <2>1. PICK c \in Conns :
          /\ Unsubscribed(t)[c] = {}
          /\ Manage([connections EXCEPT ![s.host] = c],
                    [address EXCEPT ![c] = s],
                    [d \in Conns |-> IF d = c THEN Created
                                     ELSE IF d = old THEN Over(conn[d])
                                     ELSE conn[d]],
                    [snapshot EXCEPT ![c] = NoValue],
                    Subscribed(t, c))
          /\ Listen(t, c, {})
    BY <1>4 DEF Open
  <2> DEFINE cs == [d \in Conns |-> IF d = c THEN Created
                                    ELSE IF d = old THEN Over(conn[d])
                                    ELSE conn[d]]
             ss == [snapshot EXCEPT ![c] = NoValue]
  <2>2. Subscribed(t, c) = [d \in Conns |-> IF d = c THEN listeners[d] \cup {t}
                                                     ELSE listeners[d] \ {t}]
    BY SubscribedIs
  <2>3. /\ t \in Subscribed(t, c)[c]
        /\ \A u \in Tile \ {t}, d \in Conns :
              subscriptions[u] = d => u \in Subscribed(t, c)[d] /\ d # c
    BY <1>0, <2>1, <2>2, UnsubscribedIs
  <2>4. ss \in [Conns -> Value \cup {NoValue}]
    BY <1>0
  <2>5. /\ snapshot' \in [Conns -> Value \cup {NoValue}]
        /\ \A d \in Conns : Subscribed(t, c)[d] # {} => conn'[d] = cs[d]
    BY <2>1, <2>4 DEF Manage
  <2>6. \A u \in Tile \ {t}, d \in Conns :
           subscriptions[u] = d => conn'[d] = conn[d] \/ conn'[d] = Over(conn[d])
    BY <2>3, <2>5
  <2> QED
    BY <1>0, <2>1, <2>5, <2>6, ListenShows
<1> QED
  BY <1>2, <1>3, <1>4 DEF Connect

----------------------------------------------------------------------------
(* The specification *)

\* Every callback of a connection tells its listeners the state it is in.
LEMMA ConnectionShows ==
    ASSUME Safe, Safe', Promises, Promises', Shows, NEW c \in Conns, Connection(c)
    PROVE  Shows'
<1> USE DEF States
<1>0. /\ conn \in [Conns -> Contracts] /\ conn[c] \in Contracts /\ Kept(conn[c])
      /\ conn' \in [Conns -> Contracts]
      /\ listeners[c] \in SUBSET Tile
      /\ \A t \in Tile, d \in Conns : t \in listeners[d] <=> subscriptions[t] = d
      /\ snapshot \in [Conns -> Value \cup {NoValue}]
  BY DEF Safe, Shape, SubscriptionsMatch, Shows, Canvas, Promises
<1>1. ASSUME NEW r \in Contracts, NEW v \in Value \cup {NoValue},
             Notify(c, r, v), snapshot' \in [Conns -> Value \cup {NoValue}],
             MayFollow(conn[c], r.state)
      PROVE  Shows'
  <2>0. r.state \in States
    BY DEF Contracts
  <2>1. /\ conn' = [conn EXCEPT ![c] = r] /\ Tell(listeners[c], r.state, v)
        /\ UNCHANGED <<visible, subscriptions>>
    BY <1>1 DEF Notify
  <2>2. \A t \in Tile, d \in Conns : subscriptions[t] = d =>
           IF t \in listeners[c]
           THEN conn'[d].state = r.state /\ MayFollow(conn[d], r.state)
           ELSE conn'[d] = conn[d]
    BY <1>0, <1>1, <2>1
  <2> QED
    <3> HIDE DEF States
    <3> QED
      BY <1>0, <1>1, <2>0, <2>1, <2>2, TellShows
<1>2. NoValue \in Value \cup {NoValue}
  OBVIOUS
<1> USE DEF MayFollow
<1>3. CASE Retry(c)
  <2>1. LET r == [Trying(conn[c]) EXCEPT !.retry = FALSE]
        IN  r \in Contracts /\ r.state = "connecting"
    BY <1>0 DEF Trying, Contracts
  <2> QED
    BY <1>0, <1>1, <1>2, <1>3, <2>1 DEF Retry
\* An attempt that is accepted was not shown offline or refused before.
<1>4. ASSUME Contract(c)!Accept
      PROVE  conn[c].state \notin {"offline", "authentication-error"}
  BY <1>0, <1>4 DEF Contract!Accept, Kept
<1>5. CASE HelloAck(c)
  BY <1>0, <1>1, <1>2, <1>4, <1>5 DEF HelloAck, Contracts
<1>6. CASE Refuse(c)
  BY <1>0, <1>1, <1>2, <1>6 DEF Refuse, Contracts
<1>7. CASE Fault(c)
  BY <1>0, <1>1, <1>2, <1>7 DEF Fault, Contracts
<1>8. CASE Stale(c)
  BY <1>0, <1>1, <1>2, <1>8 DEF Stale, Contracts
<1>9. CASE Error(c)
  BY <1>0, <1>1, <1>2, <1>9 DEF Error
<1>10. CASE Lose(c)
  BY <1>0, <1>1, <1>2, <1>10 DEF Lose, Contracts
\* Who is not told that the attempt ended will be told of the retry, or sees
\* that it was refused.
<1>11. CASE LoseSilently(c)
  <2>1. conn' = [conn EXCEPT ![c].live = FALSE]
    BY <1>11 DEF LoseSilently
  <2>2. conn[c].retry \/ conn[c].state = "authentication-error"
    BY <1>0, <1>11, <2>1 DEF LoseSilently, Contract!Lose, Kept, Contracts
  <2>3. ASSUME NEW image, NEW d \in Conns, Fits(image, conn[d])
        PROVE  Fits(image, conn'[d])
    BY <1>0, <2>1, <2>2, <2>3 DEF Fits, Contracts
  <2>4. UNCHANGED <<snapshot, tiles, deck>>
    BY <1>11 DEF LoseSilently
  <2>5. ASSUME NEW t \in Tile, NEW d \in Conns,
               visible'[t], subscriptions'[t] = d, shown'[t].by = "listener"
        PROVE  Fits(shown'[t].state, conn'[d])
    <3>1. /\ visible[t] /\ subscriptions[t] = d
          /\ shown[t].by = "listener" /\ shown'[t] = shown[t]
      BY <2>4, <2>5 DEF tiles, deck
    <3>2. Fits(shown[t].state, conn[d])
      BY <3>1, ImageFits DEF Shows
    <3>3. Fits(shown[t].state, conn'[d])
      BY <2>3, <3>2, Zenon
    <3> QED
      BY <3>1, <3>3
  <2>6. ImageIsTrue'
    BY <2>5 DEF ImageIsTrue, EndsUntold, Fits
  <2> QED
    BY <2>4, <2>6 DEF tiles, deck, Shows, Canvas, RememberedIsShown
<1>12. ASSUME NEW v \in Value \cup {NoValue}, Metrics(c, v)
       PROVE  Shows'
  <2>1. snapshot' \in [Conns -> Value \cup {NoValue}]
    BY <1>0, <1>12 DEF Metrics, Update
  <2> QED
    BY <1>0, <1>1, <1>4, <1>12, <2>1 DEF Metrics, Contracts
<1> QED
  BY <1>3, <1>5, <1>6, <1>7, <1>8, <1>9, <1>10, <1>11, <1>12 DEF Connection, Selected

\* reconnectAll() tells every tile of a connection the manager has.
LEMMA WakeUpShows == Safe /\ Safe' /\ Promises' /\ Shows /\ WakeUp => Shows'
<1> SUFFICES ASSUME Safe, Safe', Promises', Shows, WakeUp PROVE Shows'
  OBVIOUS
<1> DEFINE managed == {c \in Conns : \E h \in Host : connections[h] = c}
           audience == UNION {listeners[c] : c \in managed}
           woken(r) == [Trying(r) EXCEPT !.retry = FALSE]
<1>0. /\ conn \in [Conns -> Contracts] /\ conn' \in [Conns -> Contracts]
      /\ listeners \in [Conns -> SUBSET Tile]
      /\ \A t \in Tile, d \in Conns : t \in listeners[d] <=> subscriptions[t] = d
      /\ snapshot \in [Conns -> Value \cup {NoValue}]
  BY DEF Safe, Shape, SubscriptionsMatch, Shows, Canvas
<1>1. \A r \in Contracts : woken(r).state = "connecting"
  BY DEF Trying, Contracts
<1>2. conn' = [c \in Conns |-> IF c \in managed THEN woken(conn[c]) ELSE conn[c]]
  BY DEF WakeUp
<1> HIDE DEF woken
<1>3. \A d \in Conns : IF d \in managed THEN conn'[d].state = "connecting"
                                        ELSE conn'[d] = conn[d]
  BY <1>0, <1>1, <1>2
<1>4. \A t \in Tile, d \in Conns :
         subscriptions[t] = d => (t \in audience <=> d \in managed)
  BY <1>0
<1>5. \A t \in Tile, d \in Conns : subscriptions[t] = d =>
         IF t \in audience
         THEN conn'[d].state = "connecting" /\ MayFollow(conn[d], "connecting")
         ELSE conn'[d] = conn[d]
  BY <1>3, <1>4 DEF MayFollow
<1>6. audience \in SUBSET Tile
  BY <1>0
<1>7. "connecting" \in States /\ NoValue \in Value \cup {NoValue}
  BY DEF States
<1>8. Tell(audience, "connecting", NoValue)
  BY DEF WakeUp
<1> HIDE DEF audience, managed
<1>9. UNCHANGED <<visible, subscriptions>> /\ snapshot' \in [Conns -> Value \cup {NoValue}]
  BY <1>0 DEF WakeUp
<1> QED
  BY <1>0, <1>5, <1>6, <1>7, <1>8, <1>9, TellShows

\* Every event that reaches a tile keeps the keys true.
LEMMA DeckShows ==
    ASSUME Safe, Safe', Promises', Inputs, Shows, NEW t \in Tile, Deck(t)
    PROVE  Shows'
<1> HIDE DEF Settings
<1>0. /\ visible \in [Tile -> BOOLEAN]
      /\ settings[t] \in Settings \cup {Invalid}
      /\ last \in [Tile -> Memory] /\ shown \in [Tile -> Drawing]
  BY DEF Inputs, Shows, Canvas
<1>1. CASE WillAppear(t)
  BY <1>0, <1>1, ConnectShows DEF WillAppear, Events!WillAppear
<1>2. CASE WillDisappear(t)
  BY <1>0, <1>2, ForgetShows, OtherDrawings DEF WillDisappear, Events!WillDisappear
<1>3. CASE KeyDown(t)
  BY <1>3 DEF KeyDown, Events!KeyDown, manager, Shows, Canvas, ImageIsTrue, EndsUntold,
              RememberedIsShown
<1>4. CASE SettingsArrive(t)
  <2>1. UNCHANGED visible
    BY <1>4 DEF SettingsArrive, Events!SettingsArrive
  <2>2. CASE visible[t] /\ Connect(t, settings[t])
    BY <1>0, <2>1, <2>2, ConnectShows
  <2>3. CASE UNCHANGED <<manager, subscriptions, last, shown>>
    BY <2>1, <2>3 DEF manager, Shows, Canvas, ImageIsTrue, EndsUntold,
                                  RememberedIsShown
  <2> QED
    BY <1>4, <2>2, <2>3 DEF SettingsArrive
<1>5. CASE SettingsTimeOut(t)
  <2>1. Seen(t, Failure) \in Drawing /\ Seen(t, Failure).by # "listener"
    BY OtherDrawings DEF Seen
  <2>2. PICK screen \in Drawing : /\ screen.by # "listener"
                                  /\ shown' = [shown EXCEPT ![t] = screen]
    BY <1>5, <2>1 DEF SettingsTimeOut
  <2>3. UNCHANGED <<manager, subscriptions, last, visible>>
    BY <1>5 DEF SettingsTimeOut, Events!SettingsTimeOut
  <2> QED
    BY <1>0, <2>2, <2>3 DEF manager, Shows, Canvas, ImageIsTrue, EndsUntold,
                                  RememberedIsShown
<1>6. ASSUME NEW s \in Settings \cup {Invalid}, Configure(t, s)
      PROVE  Shows'
  BY <1>6, ConnectShows DEF Configure, Events!Configure
<1>7. ASSUME NEW s \in Settings \cup {Invalid}, KeyDownContinues(t, s)
      PROVE  Shows'
  BY <1>7, ConnectShows DEF KeyDownContinues, Events!KeyDownContinues
<1> QED
  BY <1>1, <1>2, <1>3, <1>4, <1>5, <1>6, <1>7 DEF Deck

\* Every step keeps the keys true.
LEMMA ShowsStep ==
    Safe /\ Safe' /\ Promises /\ Promises' /\ Inputs /\ Shows /\ [Next]_vars => Shows'
<1> SUFFICES ASSUME Safe, Safe', Promises, Promises', Inputs, Shows, [Next]_vars
             PROVE  Shows'
  OBVIOUS
<1>0. last \in [Tile -> Memory]
  BY DEF Shows, Canvas
<1>1. CASE WakeUp
  BY <1>1, WakeUpShows
<1>2. ASSUME NEW t \in Tile, Deck(t) PROVE Shows'
  BY <1>2, DeckShows
<1>3. ASSUME NEW c \in Conns, Connection(c) PROVE Shows'
  BY <1>3, ConnectionShows
<1>4. ASSUME NEW t \in Tile, IntervalPasses(t) PROVE Shows'
  <2>1. last' = [last EXCEPT ![t].throttled = FALSE]
    BY <1>4 DEF IntervalPasses
  <2>2. \A u \in Tile : /\ last'[u].state = last[u].state
                        /\ last'[u].value = last[u].value
                        /\ last'[u] \in Memory
    BY <1>0, <2>1 DEF Memory
  <2>3. last' \in [Tile -> Memory]
    BY <1>0, <2>1, <2>2
  <2> QED
    BY <1>4, <2>2, <2>3 DEF IntervalPasses, manager, deck, Shows, Canvas,
                            ImageIsTrue, EndsUntold, RememberedIsShown
<1>5. CASE UNCHANGED vars
  BY <1>5 DEF vars, manager, tiles, deck, Shows, Canvas, ImageIsTrue, EndsUntold,
              RememberedIsShown
<1> QED
  BY <1>1, <1>2, <1>3, <1>4, <1>5 DEF Next, Later

\* Nothing is shown before a tile appears.
LEMMA ShowsInit == Init => Shows
  BY DEF Init, Events!Init, Deaf, Blank, States, Shows, Canvas, Memory, Drawing, ImageIsTrue,
         RememberedIsShown

\* The invariant of what keys show.
THEOREM ShowsHolds == Spec => []Shows
  BY ShowsInit, ShowsStep, SafeHolds, PromisesHold, PTL DEF Spec

\* A key on the deck shows the state of its connection, or what "online" has not
\* replaced yet, and looks alive only while the newest attempt is, or where its
\* end is not told.
THEOREM ImageIsTrueHolds == Spec => []ImageIsTrue
<1>1. Shows => ImageIsTrue
  BY DEF Shows
<1> QED
  BY <1>1, ShowsHolds, PTL

\* What a listener will not draw again is on the key.
THEOREM RememberedIsShownHolds == Spec => []RememberedIsShown
<1>1. Shows => RememberedIsShown
  BY DEF Shows
<1> QED
  BY <1>1, ShowsHolds, PTL

----------------------------------------------------------------------------
(* Types *)

\* A key press ends no more often than it began.
Counted == pressing \in [Tile -> 0 .. MaxPresses]

\* Every step keeps the count of key presses within its bound.
LEMMA CountedStep == Counted /\ [Next]_vars => Counted'
<1> SUFFICES ASSUME Counted, [Next]_vars PROVE Counted'
  OBVIOUS
<1> HIDE DEF Settings
<1>0. \A t \in Tile : pressing[t] \in 0 .. MaxPresses
  BY DEF Counted
<1>1. CASE WakeUp
  BY <1>1 DEF WakeUp, Counted
<1>2. ASSUME NEW t \in Tile, NEW k \in Events!Taken(pressing[t]),
             pressing' = [pressing EXCEPT ![t] = @ - k]
      PROVE  Counted'
  <2>1. k \in 0 .. pressing[t]
    BY <1>0 DEF Events!Taken
  <2> QED
    BY <1>0, <1>2, <2>1 DEF Counted
<1>3. ASSUME NEW t \in Tile, Deck(t) PROVE Counted'
  <2>1. CASE KeyDown(t)
    <3>1. pressing' = [pressing EXCEPT ![t] = @ + 1]
      BY <2>1 DEF KeyDown, Events!KeyDown
    <3>2. pressing[t] + 1 \in 0 .. MaxPresses
      BY <1>0, <2>1 DEF KeyDown
    <3> QED
      BY <3>1, <3>2 DEF Counted
  <2>2. CASE SettingsTimeOut(t)
    BY <1>0, <2>2 DEF SettingsTimeOut, Events!SettingsTimeOut, Counted
  <2>3. CASE SettingsArrive(t)
    BY <1>2, <2>3 DEF SettingsArrive, Events!SettingsArrive, Events!Answer
  <2>4. ASSUME NEW s \in Settings \cup {Invalid}, Configure(t, s)
        PROVE  Counted'
    BY <1>2, <2>4 DEF Configure, Events!Configure, Events!Answer
  <2>5. ASSUME NEW s \in Settings \cup {Invalid}, KeyDownContinues(t, s)
        PROVE  Counted'
    BY <2>5 DEF KeyDownContinues, Events!KeyDownContinues, Counted
  <2>6. CASE WillAppear(t) \/ WillDisappear(t)
    BY <2>6 DEF WillAppear, WillDisappear, Events!WillAppear,
                Events!WillDisappear, Counted
  <2> QED
    BY <1>3, <2>1, <2>2, <2>3, <2>4, <2>5, <2>6 DEF Deck
<1>4. ASSUME NEW c \in Conns, Connection(c) PROVE Counted'
  BY <1>4 DEF Connection, Selected, Retry, HelloAck, Metrics, Refuse, Fault, Stale, Error, Lose,
              LoseSilently, Notify, tiles, Counted
<1>5. ASSUME NEW t \in Tile, IntervalPasses(t) PROVE Counted'
  BY <1>5 DEF IntervalPasses, Counted
<1>6. CASE UNCHANGED vars
  BY <1>6 DEF vars, tiles, Counted
<1> QED
  BY <1>1, <1>3, <1>4, <1>5, <1>6 DEF Next, Later

\* The variables of the tiles keep their types.
THEOREM TypeOKHolds == Spec => []TypeOK
<1>1. Init => Counted
  BY DEF Init, Events!Init, Counted
<1>2. Spec => []Counted
  BY <1>1, CountedStep, PTL DEF Spec
<1>3. Safe /\ Inputs /\ Shows /\ Counted => TypeOK
  <2> HIDE DEF Settings
  <2> QED
    BY DEF Safe, Shape, Inputs, Shows, Canvas, Memory, Drawing, Counted, TypeOK
<1> QED
  BY <1>2, <1>3, SafeHolds, ShowsHolds, PTL
=============================================================================

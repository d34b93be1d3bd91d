--------------------------- MODULE NodeLifeProofs ---------------------------
(***************************************************************************)
(* Proofs about NodeLife for any number of starts of the two programs: why *)
(* a REMOTE process never serves two LOCAL processes, and why greetings    *)
(* and messages on one connection are never taken for each other.          *)
(***************************************************************************)
EXTENDS NodeLife, SequenceTheorems, TLAPS

Live(n) == main[n] # "off"

\* The place of a channel in main_order.
number(c) == CASE c = "LtoR_DATA"  -> 1
               [] c = "LtoR_STATE" -> 2
               [] c = "RtoL_STATE" -> 3
               [] c = "RtoL_DATA"  -> 4

first == "LtoR_DATA"

\* main of node n is done with channel c.
Passed(n, c) == main[n] = "run" \/ number(c) < at[n]

\* LOCAL has connected to port c, REMOTE has accepted somebody there.
Met(c) == \/ Passed(LOCAL_NODE, c)
          \/ main[LOCAL_NODE] = "greet" /\ number(c) = at[LOCAL_NODE]

Accepted(c) == \/ Passed(REMOTE_NODE, c)
               \/ main[REMOTE_NODE] = "hello" /\ number(c) = at[REMOTE_NODE]

\* The two processes that are there have connection c to each other.
Linked(c) == Live(LOCAL_NODE) /\ client[c] = starts[LOCAL_NODE]

\* LOCAL has an answer on its first connection.
Answered == /\ main[LOCAL_NODE] = "greet" /\ at[LOCAL_NODE] = 1
            /\ \/ inbox[LOCAL_NODE][first] # << >>
               \/ sock[LOCAL_NODE][first] = "eof"

Modes ==
  /\ main[LOCAL_NODE] \in {"off", "connect", "greet", "run"}
  /\ main[REMOTE_NODE] \in {"off", "bind", "accept", "hello", "run"}
  /\ \A n \in Node : main[n] \in {"off", "run"} => at[n] = 1
  /\ \A n \in Node : Live(n) => starts[n] # 0

\* A REMOTE process has one client, LOCAL as it runs now or an earlier one.
Clients ==
  /\ \A c \in Channel : /\ client[c] # 0 <=> Accepted(c)
                        /\ client[c] <= starts[LOCAL_NODE]
  /\ \A c, d \in Channel :
       client[c] # 0 /\ client[d] # 0 => client[c] = client[d]

\* After the first port only the client of that port can be waiting.
Waiting ==
  \A c \in Channel :
    /\ backlog[c] # << >> => Listening(c)
    /\ IsInjective(backlog[c])
    /\ \A k \in Range(backlog[c]) :
         /\ k <= starts[LOCAL_NODE]
         /\ c # first => k = client[first]
    /\ Queued(c) => /\ main[LOCAL_NODE] = "greet"
                    /\ at[LOCAL_NODE] = number(c)
                    /\ sock[LOCAL_NODE][c] = "open"
                    /\ inbox[LOCAL_NODE][c] = << >>
                    /\ client[c] # starts[LOCAL_NODE]

\* A LOCAL process that was answered on the first port is not overtaken by an
\* earlier one.
NotOvertaken ==
  Passed(LOCAL_NODE, first) \/ Answered =>
    /\ backlog[first] = << >>
    /\ \A c \in Channel : client[c] \in {0, starts[LOCAL_NODE]}

\* A connection is open at both ends or at neither, and REMOTE is ahead.
Links ==
  \A c \in Channel :
    /\ Linked(c) => /\ sock[LOCAL_NODE][c] = "open" /\ Met(c)
                    /\ Passed(LOCAL_NODE, c) \/ inbox[LOCAL_NODE][c] # << >>
                         => Passed(REMOTE_NODE, c)
    /\ sock[REMOTE_NODE][c] = "open" <=> Linked(c)
    /\ sock[LOCAL_NODE][c] = "open" => Linked(c) \/ Queued(c)

\* A connection that was not made is not used.
Unused ==
  \A c \in Channel :
    /\ sock[LOCAL_NODE][c] = "none" <=> ~Met(c)
    /\ sock[REMOTE_NODE][c] = "none" <=> ~Accepted(c)
    /\ ~Met(c) => inbox[LOCAL_NODE][c] = << >>
    /\ ~Accepted(c) => inbox[REMOTE_NODE][c] = << >>

\* A greeting comes first and alone.
Streams ==
  /\ ~swallowed
  /\ \A c \in Channel :
       /\ Range(inbox[REMOTE_NODE][c]) \subseteq Expected(REMOTE_NODE, c)
       /\ Range(inbox[LOCAL_NODE][c]) \subseteq
            IF Passed(LOCAL_NODE, c) THEN Expected(LOCAL_NODE, c)
                                     ELSE {"hello"}

\* The client is running by the time REMOTE has anything to transfer to it.
FedByClient ==
  /\ Linked(first) /\ (\/ fed[REMOTE_NODE] \/ reader[REMOTE_NODE] # "read"
                       \/ inbox[REMOTE_NODE][first] # << >>)
       => main[LOCAL_NODE] = "run"

\* A job that nobody sent is queued after the end of the connection, and the
\* acknowledgement of the first one breaks it.
Strays ==
  \A n \in Node :
    /\ ~Runs(n) => reader[n] = "read" /\ strays[n] = 0
    /\ ~Runs(n) /\ n = REMOTE_NODE => ~fed[n]
    /\ reader[n] = "stale" => sock[n][in_data(n)] \in {"eof", "broken"}
    /\ strays[n] # 0 => strays[n] = 1 /\ sock[n][in_data(n)] = "broken"

ConnInv == /\ Modes /\ Clients /\ Waiting /\ NotOvertaken
           /\ Links /\ Unused /\ Streams

IInv == TypeOK /\ ConnInv /\ FedByClient /\ Strays

-----------------------------------------------------------------------------
\* Nodes and channels

LEMMA Nodes ==
  /\ LOCAL_NODE \in Node /\ REMOTE_NODE \in Node
  /\ LOCAL_NODE # REMOTE_NODE
  /\ peer(LOCAL_NODE) = REMOTE_NODE /\ peer(REMOTE_NODE) = LOCAL_NODE
  /\ \A n \in Node : n = LOCAL_NODE \/ n = REMOTE_NODE
  BY LifeAssumption DEF Node, peer

LEMMA Channels ==
  /\ Len(main_order) = 4 /\ first \in Channel /\ number(first) = 1
  /\ \A c \in Channel : /\ number(c) \in 1 .. 4 /\ main_order[number(c)] = c
                        /\ number(c) = 1 => c = first
  /\ \A i \in 1 .. 4 : /\ main_order[i] \in Channel
                       /\ number(main_order[i]) = i
  /\ \A n \in Node : /\ in_data(n) \in Channel /\ out_data(n) \in Channel
                     /\ in_state(n) \in Channel /\ out_state(n) \in Channel
                     /\ in_data(n) # out_data(n)
<1>1. \A i \in 1 .. 4 : i = 1 \/ i = 2 \/ i = 3 \/ i = 4
  OBVIOUS
<1>2. /\ main_order[1] = "LtoR_DATA" /\ main_order[2] = "LtoR_STATE"
      /\ main_order[3] = "RtoL_STATE" /\ main_order[4] = "RtoL_DATA"
      /\ Len(main_order) = 4
  BY DEF main_order
<1>3. /\ number("LtoR_DATA") = 1 /\ number("LtoR_STATE") = 2
      /\ number("RtoL_STATE") = 3 /\ number("RtoL_DATA") = 4
  BY DEF number
<1>4. \A n \in Node : /\ in_data(n) \in Channel /\ out_data(n) \in Channel
                      /\ in_state(n) \in Channel /\ out_state(n) \in Channel
                      /\ in_data(n) # out_data(n)
  BY DEF in_data, out_data, in_state, out_state, Channel
<1>5. QED
  BY <1>1, <1>2, <1>3, <1>4 DEF Channel, first

LEMMA Here ==
  ASSUME TypeOK, NEW n \in Node
  PROVE  /\ here(n) \in Channel /\ number(here(n)) = at[n]
         /\ at[n] \in 1 .. 4
         /\ \A c \in Channel : here(n) = c <=> at[n] = number(c)
<1>1. at[n] \in 1 .. 4
  BY Channels DEF TypeOK
<1>2. QED
  BY <1>1, Channels DEF here

LEMMA Elements ==
  ASSUME NEW S, NEW s \in Seq(S)
  PROVE  /\ DOMAIN s = 1 .. Len(s) /\ Len(s) \in Nat
         /\ \A i \in 1 .. Len(s) : s[i] \in S
         /\ \A e \in Range(s) : e \in S
  BY DEF Range

\* Who may wait on a port.
LEMMA Backlogs ==
  ASSUME TypeOK, Clients, Waiting, NEW c \in Channel
  PROVE  /\ backlog[c] \in Seq(1 .. MaxStarts) /\ client[c] \in Nat
         /\ client[c] <= starts[LOCAL_NODE] /\ starts[LOCAL_NODE] \in Nat
         /\ \A k \in Range(backlog[c]) :
              k \in Nat \ {0} /\ k <= starts[LOCAL_NODE]
<1>1. /\ backlog[c] \in Seq(1 .. MaxStarts) /\ client[c] \in Nat
      /\ starts[LOCAL_NODE] \in Nat
  BY Nodes DEF TypeOK
<1>2. \A k \in Range(backlog[c]) : k \in 1 .. MaxStarts
  BY <1>1, Elements
<1>3. \A k \in 1 .. MaxStarts : k \in Nat \ {0}
  OBVIOUS
<1>4. \A k \in Range(backlog[c]) : k \in Nat \ {0}
  BY <1>2, <1>3
<1>5. QED
  BY <1>1, <1>4 DEF Clients, Waiting

LEMMA InitIInv == Init => IInv
<1> SUFFICES ASSUME Init PROVE IInv
  OBVIOUS
<1>1. TypeOK
  <2>1. /\ << >> \in Seq(1 .. MaxStarts) /\ << >> \in Seq(Messages)
        /\ 0 \in 0 .. MaxStarts /\ 1 \in 1 .. Len(main_order)
    BY Channels, LifeAssumption
  <2>2. /\ backlog \in [Channel -> Seq(1 .. MaxStarts)]
        /\ client \in [Channel -> 0 .. MaxStarts]
        /\ inbox \in [Node -> [Channel -> Seq(Messages)]]
        /\ sock \in [Node -> [Channel -> {"none", "open", "eof", "reset",
                                         "broken"}]]
    BY <2>1 DEF Init, NoneOf
  <2>3. QED
    BY <2>1, <2>2 DEF Init, TypeOK
<1>2. \A c \in Channel : /\ ~Met(c) /\ ~Accepted(c) /\ ~Linked(c)
                         /\ \A n \in Node : ~Passed(n, c)
  BY Nodes, Channels
  DEF Init, Met, Accepted, Linked, Passed, Live
<1>3. Modes /\ Clients /\ NotOvertaken
  BY <1>2, Nodes, Channels
  DEF Init, Modes, Clients, NotOvertaken, Answered, Live, NoneOf
<1>4. Waiting
  <2>1. \A c \in Channel : backlog[c] = << >>
    BY DEF Init, NoneOf
  <2>2. \A c \in Channel : Range(backlog[c]) = {} /\ IsInjective(backlog[c])
    BY <2>1 DEF Range, IsInjective
  <2>3. QED
    BY <2>1, <2>2 DEF Waiting, Queued
<1>5. Links /\ Unused
  BY <1>2, Nodes DEF Init, Links, Unused, NoneOf
<1>6. Streams
  <2>1. \A n \in Node, c \in Channel : Range(inbox[n][c]) = {}
    BY DEF Init, NoneOf, Range
  <2>2. QED
    BY <2>1, Nodes DEF Init, Streams
<1>7. FedByClient /\ Strays
  BY <1>2, Nodes, Channels DEF Init, FedByClient, Strays, Runs
<1>8. QED
  BY <1>1, <1>3, <1>4, <1>5, <1>6, <1>7 DEF IInv, ConnInv

-----------------------------------------------------------------------------
\* Starts and ends of processes

LEMMA StartLocal ==
  ASSUME IInv, Start(LOCAL_NODE)
  PROVE  IInv'
<1>1. /\ UNCHANGED <<at, ends, ports, threads, swallowed>>
      /\ main[LOCAL_NODE] = "off" /\ main'[LOCAL_NODE] = "connect"
      /\ main'[REMOTE_NODE] = main[REMOTE_NODE]
      /\ starts'[LOCAL_NODE] = starts[LOCAL_NODE] + 1
      /\ starts'[REMOTE_NODE] = starts[REMOTE_NODE]
      /\ starts[LOCAL_NODE] \in Nat
  BY Nodes DEF Start, mainGoes, IInv, TypeOK
<1>2. UNCHANGED <<at, sock, inbox, backlog, client, timewait, adaptor, reader,
                  fed, strays, swallowed>>
  BY <1>1 DEF ends, ports, threads
<1>3. TypeOK'
  BY <1>2, Nodes, LifeAssumption DEF Start, mainGoes, IInv, TypeOK
<1>4. at[LOCAL_NODE] = 1
  BY <1>1, Nodes DEF IInv, ConnInv, Modes
<1>5. ASSUME NEW c \in Channel
      PROVE  /\ client[c] \in Nat /\ client[c] <= starts[LOCAL_NODE]
             /\ \A k \in Range(backlog[c]) :
                  k \in Nat /\ k <= starts[LOCAL_NODE]
             /\ ~Linked(c) /\ ~Linked(c)' /\ ~Queued(c) /\ ~Queued(c)'
             /\ ~Met(c) /\ ~Met(c)' /\ (Accepted(c)' <=> Accepted(c))
             /\ ~Passed(LOCAL_NODE, c) /\ ~Passed(LOCAL_NODE, c)'
             /\ Listening(c)' <=> Listening(c)
  <2>1. /\ client[c] \in Nat /\ client[c] <= starts[LOCAL_NODE]
        /\ \A k \in Range(backlog[c]) :
             k \in Nat /\ k <= starts[LOCAL_NODE]
    BY Backlogs DEF IInv, ConnInv
  <2>2. ~Linked(c) /\ ~Linked(c)' /\ ~Queued(c) /\ ~Queued(c)'
    BY <1>1, <1>2, <2>1 DEF Linked, Queued, Live
  <2>3. /\ ~Met(c) /\ ~Met(c)' /\ (Accepted(c)' <=> Accepted(c))
        /\ ~Passed(LOCAL_NODE, c) /\ ~Passed(LOCAL_NODE, c)'
    BY <1>1, <1>2, <1>4, Channels DEF Met, Accepted, Passed
  <2>4. Listening(c)' <=> Listening(c)
    BY <1>1, <1>2 DEF Listening, here
  <2>5. QED
    BY <2>1, <2>2, <2>3, <2>4
<1>6. Modes'
  BY <1>1, <1>2, Nodes DEF IInv, ConnInv, Modes, Live
<1>7. Clients'
  BY <1>1, <1>2, <1>5 DEF IInv, ConnInv, Clients
<1>8. Waiting'
  <2> SUFFICES ASSUME NEW c \in Channel
               PROVE  /\ backlog[c] # << >> => Listening(c)'
                      /\ IsInjective(backlog[c])
                      /\ \A k \in Range(backlog[c]) :
                           /\ k <= starts'[LOCAL_NODE]
                           /\ c # first => k = client[first]
                      /\ ~Queued(c)'
    BY <1>2 DEF Waiting
  <2>1. \A k \in Range(backlog[c]) : k <= starts'[LOCAL_NODE]
    BY <1>1, <1>5
  <2>2. QED
    BY <1>5, <2>1 DEF IInv, ConnInv, Waiting
<1>9. NotOvertaken'
  BY <1>1, <1>2, <1>5, Channels DEF NotOvertaken, Answered
<1>10. Links' /\ Unused' /\ Streams'
  BY <1>2, <1>5 DEF IInv, ConnInv, Links, Unused, Streams, Expected
<1>11. FedByClient' /\ Strays'
  BY <1>1, <1>2, <1>5, Nodes, Channels
  DEF IInv, FedByClient, Strays, Runs
<1>12. QED
  BY <1>3, <1>6, <1>7, <1>8, <1>9, <1>10, <1>11 DEF IInv, ConnInv

\* A step of REMOTE between ports changes nothing of the connections.
LEMMA RemoteMoves ==
  ASSUME IInv,
         UNCHANGED <<at, sock, inbox, backlog, client, threads, swallowed>>,
         timewait' \subseteq Channel,
         main'[LOCAL_NODE] = main[LOCAL_NODE],
         starts'[LOCAL_NODE] = starts[LOCAL_NODE],
         main' \in [Node -> {"off", "connect", "greet", "bind", "accept",
                             "hello", "run"}],
         starts' \in [Node -> 0 .. MaxStarts],
         \/ main'[REMOTE_NODE] = main[REMOTE_NODE]
         \/ /\ main[REMOTE_NODE] \in {"off", "bind"}
            /\ main'[REMOTE_NODE] \in {"bind", "accept"},
         \/ starts'[REMOTE_NODE] # 0
         \/ /\ starts'[REMOTE_NODE] = starts[REMOTE_NODE]
            /\ main'[REMOTE_NODE] = main[REMOTE_NODE]
  PROVE  IInv'
<1>1. UNCHANGED <<adaptor, reader, fed, strays>>
  BY DEF threads
<1>2. TypeOK'
  BY <1>1 DEF IInv, TypeOK
<1>3. ASSUME NEW c \in Channel
      PROVE  /\ Linked(c)' <=> Linked(c)
             /\ Queued(c)' <=> Queued(c)
             /\ Met(c)' <=> Met(c)
             /\ Accepted(c)' <=> Accepted(c)
             /\ Passed(LOCAL_NODE, c)' <=> Passed(LOCAL_NODE, c)
             /\ Passed(REMOTE_NODE, c)' <=> Passed(REMOTE_NODE, c)
             /\ Listening(c) => Listening(c)'
  BY DEF Linked, Live, Queued, Met, Accepted, Passed, Listening, here
<1>4. Modes'
  BY Nodes DEF IInv, ConnInv, Modes, Live
<1>5. Clients'
  BY <1>3 DEF IInv, ConnInv, Clients
<1>6. Waiting'
  BY <1>3 DEF IInv, ConnInv, Waiting
<1>7. NotOvertaken'
  BY <1>3, Channels DEF IInv, ConnInv, NotOvertaken, Answered
<1>8. Links'
  BY <1>3 DEF IInv, ConnInv, Links
<1>9. Unused' /\ Streams'
  BY <1>3 DEF IInv, ConnInv, Unused, Streams, Expected
<1>10. FedByClient'
  BY <1>1, <1>3, Channels DEF IInv, FedByClient
<1>11. Strays'
  BY <1>1, Nodes DEF IInv, Strays, Runs
<1>12. QED
  BY <1>2, <1>4, <1>5, <1>6, <1>7, <1>8, <1>9, <1>10, <1>11
  DEF IInv, ConnInv

LEMMA StartRemote ==
  ASSUME IInv, Start(REMOTE_NODE)
  PROVE  IInv'
<1>1. UNCHANGED <<at, sock, inbox, backlog, client, timewait, threads,
                  swallowed>>
  BY DEF Start, ends, ports
<1>2. /\ main[REMOTE_NODE] = "off" /\ main'[REMOTE_NODE] = "bind"
      /\ main'[LOCAL_NODE] = main[LOCAL_NODE]
      /\ main' \in [Node -> {"off", "connect", "greet", "bind", "accept",
                             "hello", "run"}]
  BY Nodes DEF Start, mainGoes, IInv, TypeOK
<1>3. /\ starts'[LOCAL_NODE] = starts[LOCAL_NODE]
      /\ starts' \in [Node -> 0 .. MaxStarts]
      /\ starts'[REMOTE_NODE] # 0
  BY Nodes, LifeAssumption DEF Start, IInv, TypeOK
<1>4. timewait' \subseteq Channel
  BY <1>1 DEF IInv, TypeOK
<1>5. QED
  BY <1>1, <1>2, <1>3, <1>4, RemoteMoves

LEMMA BindKeeps ==
  ASSUME IInv, Bind
  PROVE  IInv'
<1>1. UNCHANGED <<at, sock, inbox, backlog, client, timewait, threads,
                  swallowed, starts>>
  BY DEF Bind, ends, ports
<1>2. /\ main[REMOTE_NODE] = "bind" /\ main'[REMOTE_NODE] = "accept"
      /\ main'[LOCAL_NODE] = main[LOCAL_NODE]
      /\ main' \in [Node -> {"off", "connect", "greet", "bind", "accept",
                             "hello", "run"}]
  BY Nodes DEF Bind, mainGoes, IInv, TypeOK
<1>3. /\ starts' \in [Node -> 0 .. MaxStarts] /\ timewait' \subseteq Channel
  BY <1>1 DEF IInv, TypeOK
<1>4. starts'[REMOTE_NODE] # 0
  BY <1>1, <1>2, Nodes DEF IInv, ConnInv, Modes, Live
<1>5. QED
  BY <1>1, <1>2, <1>3, <1>4, RemoteMoves

LEMMA TimeWaitKeeps ==
  ASSUME IInv, NEW c, TimeWaitOver(c)
  PROVE  IInv'
<1>1. UNCHANGED <<at, sock, inbox, backlog, client, threads, swallowed,
                  starts, main>>
  BY DEF TimeWaitOver, ends
<1>2. /\ starts' \in [Node -> 0 .. MaxStarts] /\ timewait' \subseteq Channel
      /\ main' \in [Node -> {"off", "connect", "greet", "bind", "accept",
                             "hello", "run"}]
  BY <1>1 DEF TimeWaitOver, IInv, TypeOK
<1>3. QED
  BY <1>1, <1>2, RemoteMoves

\* The end of a process: nothing is left of its ends of the connections, and
\* no other end stays open.
LEMMA Ends ==
  ASSUME IInv, NEW n \in Node, Exit(n)
  PROVE  /\ TypeOK' /\ Modes' /\ starts' = starts
         /\ main'[n] = "off" /\ main'[peer(n)] = main[peer(n)]
         /\ at'[n] = 1 /\ at'[peer(n)] = at[peer(n)]
         /\ \A c \in Channel :
              /\ sock'[n][c] = "none" /\ inbox'[n][c] = << >>
              /\ inbox'[peer(n)][c] = inbox[peer(n)][c]
              /\ sock'[peer(n)][c] # "open"
              /\ sock[peer(n)][c] # "open"
                   => sock'[peer(n)][c] = sock[peer(n)][c]
              /\ sock'[peer(n)][c] = "none" <=> sock[peer(n)][c] = "none"
         /\ reader'[n] = "read" /\ strays'[n] = 0 /\ ~fed'[n]
         /\ reader'[peer(n)] = reader[peer(n)]
         /\ strays'[peer(n)] = strays[peer(n)]
         /\ fed'[peer(n)] = fed[peer(n)]
<1>1. peer(n) \in Node /\ peer(n) # n /\ \A m \in Node : m = n \/ m = peer(n)
  BY Nodes
<1>2. /\ starts' = starts
      /\ main'[n] = "off" /\ main'[peer(n)] = main[peer(n)]
      /\ at'[n] = 1 /\ at'[peer(n)] = at[peer(n)]
      /\ main' \in [Node -> {"off", "connect", "greet", "bind", "accept",
                             "hello", "run"}]
      /\ at' \in [Node -> 1 .. Len(main_order)]
  BY <1>1, Channels DEF Exit, IInv, TypeOK
<1>3. /\ reader'[n] = "read" /\ strays'[n] = 0 /\ ~fed'[n]
      /\ reader'[peer(n)] = reader[peer(n)]
      /\ strays'[peer(n)] = strays[peer(n)]
      /\ fed'[peer(n)] = fed[peer(n)]
      /\ adaptor' \in [Node -> {"decide", "wait"}]
      /\ reader' \in [Node -> {"read", "fresh", "stale"}]
      /\ strays' \in [Node -> Nat]
  BY <1>1 DEF Exit, IInv, TypeOK
<1>4. fed' \in [Node -> BOOLEAN]
  BY DEF Exit, IInv, TypeOK
<1>5. \A c \in Channel :
        /\ HungUp(n, c) \in {"none", "eof", "reset", "broken"}
        /\ sock[peer(n)][c] # "open" => HungUp(n, c) = sock[peer(n)][c]
        /\ HungUp(n, c) = "none" <=> sock[peer(n)][c] = "none"
  BY <1>1 DEF HungUp, IInv, TypeOK
<1>6. /\ \A c \in Channel : sock'[n][c] = "none"
      /\ \A c \in Channel : sock'[peer(n)][c] = HungUp(n, c)
      /\ sock' \in [Node -> [Channel -> {"none", "open", "eof", "reset",
                                         "broken"}]]
  BY <1>1, <1>5 DEF Exit, NoneOf, IInv, TypeOK
<1>7. /\ \A c \in Channel : inbox'[n][c] = << >>
      /\ \A c \in Channel : inbox'[peer(n)][c] = inbox[peer(n)][c]
      /\ inbox' \in [Node -> [Channel -> Seq(Messages)]]
  BY <1>1 DEF Exit, NoneOf, IInv, TypeOK
<1>8. /\ backlog' \in [Channel -> Seq(1 .. MaxStarts)]
      /\ client' \in [Channel -> 0 .. MaxStarts]
      /\ timewait' \subseteq Channel /\ swallowed' \in BOOLEAN
  <2>1. << >> \in Seq(1 .. MaxStarts) /\ 0 \in 0 .. MaxStarts
    BY LifeAssumption
  <2>2. QED
    BY <2>1 DEF Exit, NoneOf, ports, IInv, TypeOK
<1>9. TypeOK'
  BY <1>2, <1>3, <1>4, <1>6, <1>7, <1>8 DEF IInv, TypeOK
<1>10. Modes'
  BY <1>1, <1>2, Nodes DEF IInv, ConnInv, Modes, Live
<1>11. \A c \in Channel :
         /\ sock'[n][c] = "none" /\ inbox'[n][c] = << >>
         /\ inbox'[peer(n)][c] = inbox[peer(n)][c]
         /\ sock'[peer(n)][c] # "open"
         /\ sock[peer(n)][c] # "open"
              => sock'[peer(n)][c] = sock[peer(n)][c]
         /\ sock'[peer(n)][c] = "none" <=> sock[peer(n)][c] = "none"
  BY <1>5, <1>6, <1>7
<1>12. QED
  BY <1>2, <1>3, <1>9, <1>10, <1>11

LEMMA ExitLocal ==
  ASSUME IInv, Exit(LOCAL_NODE)
  PROVE  IInv'
<1>1. /\ TypeOK' /\ Modes' /\ starts' = starts
      /\ main'[LOCAL_NODE] = "off"
      /\ main'[REMOTE_NODE] = main[REMOTE_NODE]
      /\ at'[LOCAL_NODE] = 1 /\ at'[REMOTE_NODE] = at[REMOTE_NODE]
      /\ reader'[LOCAL_NODE] = "read" /\ strays'[LOCAL_NODE] = 0
      /\ reader'[REMOTE_NODE] = reader[REMOTE_NODE]
      /\ strays'[REMOTE_NODE] = strays[REMOTE_NODE]
      /\ fed'[REMOTE_NODE] = fed[REMOTE_NODE]
  BY Nodes, Ends
<1>2. \A c \in Channel :
        /\ sock'[LOCAL_NODE][c] = "none" /\ inbox'[LOCAL_NODE][c] = << >>
        /\ inbox'[REMOTE_NODE][c] = inbox[REMOTE_NODE][c]
        /\ sock'[REMOTE_NODE][c] # "open"
        /\ sock[REMOTE_NODE][c] # "open"
             => sock'[REMOTE_NODE][c] = sock[REMOTE_NODE][c]
        /\ sock'[REMOTE_NODE][c] = "none" <=> sock[REMOTE_NODE][c] = "none"
  BY Nodes, Ends
<1>3. UNCHANGED <<backlog, client>> /\ ~swallowed'
  BY Nodes DEF Exit, ports
<1>4. ASSUME NEW c \in Channel
      PROVE  /\ ~Linked(c)' /\ ~Queued(c)' /\ ~Met(c)'
             /\ ~Passed(LOCAL_NODE, c)'
             /\ Accepted(c)' <=> Accepted(c)
             /\ Listening(c)' <=> Listening(c)
  BY <1>1, Channels
  DEF Linked, Queued, Live, Met, Passed, Accepted, Listening, here
<1>5. Clients'
  BY <1>1, <1>3, <1>4 DEF IInv, ConnInv, Clients
<1>6. Waiting'
  BY <1>1, <1>3, <1>4 DEF IInv, ConnInv, Waiting
<1>7. NotOvertaken'
  BY <1>1, <1>4, Channels DEF NotOvertaken, Answered
<1>8. Links' /\ Unused'
  BY <1>2, <1>4 DEF IInv, ConnInv, Links, Unused
<1>9. Streams'
  <2>1. \A c \in Channel : Range(inbox'[LOCAL_NODE][c]) = {}
    BY <1>2 DEF Range
  <2>2. QED
    BY <1>2, <1>3, <1>4, <2>1 DEF IInv, ConnInv, Streams, Expected
<1>10. FedByClient'
  BY <1>4, Channels DEF FedByClient
<1>11. Strays'
  <2>1. /\ Runs(REMOTE_NODE)' <=> Runs(REMOTE_NODE)
        /\ ~Runs(REMOTE_NODE) => reader'[REMOTE_NODE] = "read"
                              /\ strays'[REMOTE_NODE] = 0
    BY <1>1, Nodes DEF IInv, Strays, Runs
  <2>2. /\ reader'[REMOTE_NODE] = "stale"
             => sock'[REMOTE_NODE][in_data(REMOTE_NODE)] \in {"eof", "broken"}
        /\ strays'[REMOTE_NODE] # 0
             => /\ strays'[REMOTE_NODE] = 1
                /\ sock'[REMOTE_NODE][in_data(REMOTE_NODE)] = "broken"
    BY <1>1, <1>2, Nodes, Channels DEF IInv, Strays
  <2>3. ~Runs(REMOTE_NODE) => ~fed'[REMOTE_NODE]
    BY <1>1, Nodes DEF IInv, Strays
  <2>4. QED
    BY <1>1, <2>1, <2>2, <2>3, Nodes DEF Strays
<1>12. QED
  BY <1>1, <1>5, <1>6, <1>7, <1>8, <1>9, <1>10, <1>11 DEF IInv, ConnInv

LEMMA ExitRemote ==
  ASSUME IInv, Exit(REMOTE_NODE)
  PROVE  IInv'
<1>1. /\ TypeOK' /\ Modes' /\ starts' = starts
      /\ main'[REMOTE_NODE] = "off"
      /\ main'[LOCAL_NODE] = main[LOCAL_NODE]
      /\ at'[REMOTE_NODE] = 1 /\ at'[LOCAL_NODE] = at[LOCAL_NODE]
      /\ reader'[REMOTE_NODE] = "read" /\ strays'[REMOTE_NODE] = 0
      /\ ~fed'[REMOTE_NODE]
      /\ reader'[LOCAL_NODE] = reader[LOCAL_NODE]
      /\ strays'[LOCAL_NODE] = strays[LOCAL_NODE]
  BY Nodes, Ends
<1>2. \A c \in Channel :
        /\ sock'[REMOTE_NODE][c] = "none" /\ inbox'[REMOTE_NODE][c] = << >>
        /\ inbox'[LOCAL_NODE][c] = inbox[LOCAL_NODE][c]
        /\ sock'[LOCAL_NODE][c] # "open"
        /\ sock[LOCAL_NODE][c] # "open"
             => sock'[LOCAL_NODE][c] = sock[LOCAL_NODE][c]
        /\ sock'[LOCAL_NODE][c] = "none" <=> sock[LOCAL_NODE][c] = "none"
  BY Nodes, Ends
<1>3. /\ \A c \in Channel : client'[c] = 0 /\ backlog'[c] = << >>
      /\ swallowed' = swallowed
  BY Nodes DEF Exit, NoneOf
<1>4. ASSUME NEW c \in Channel
      PROVE  /\ ~Linked(c)' /\ ~Queued(c)' /\ ~Accepted(c)'
             /\ ~Passed(REMOTE_NODE, c)'
             /\ Met(c)' <=> Met(c)
             /\ Passed(LOCAL_NODE, c)' <=> Passed(LOCAL_NODE, c)
  <2>1. Range(backlog'[c]) = {}
    BY <1>3 DEF Range
  <2>2. Live(LOCAL_NODE) => starts[LOCAL_NODE] # 0
    BY Nodes DEF IInv, ConnInv, Modes
  <2>3. QED
    BY <1>1, <1>3, <2>1, <2>2, Channels
    DEF Linked, Queued, Live, Met, Passed, Accepted
<1>5. Clients'
  <2>1. \A c \in Channel : client[c] <= starts[LOCAL_NODE]
                           /\ starts[LOCAL_NODE] \in Nat
    BY Nodes DEF IInv, TypeOK, ConnInv, Clients
  <2>2. QED
    BY <1>1, <1>3, <1>4, <2>1 DEF Clients
<1>6. Waiting'
  <2>1. \A c \in Channel : /\ Range(backlog'[c]) = {}
                           /\ IsInjective(backlog'[c])
    BY <1>3 DEF Range, IsInjective
  <2>2. QED
    BY <1>3, <1>4, <2>1 DEF Waiting
<1>7. NotOvertaken'
  BY <1>3, Channels DEF NotOvertaken
<1>8. Links' /\ Unused'
  BY <1>2, <1>4 DEF IInv, ConnInv, Links, Unused
<1>9. Streams'
  <2>1. \A c \in Channel : Range(inbox'[REMOTE_NODE][c]) = {}
    BY <1>2 DEF Range
  <2>2. QED
    BY <1>2, <1>3, <1>4, <2>1 DEF IInv, ConnInv, Streams, Expected
<1>10. FedByClient'
  BY <1>4, Channels DEF FedByClient
<1>11. Strays'
  <2>1. /\ Runs(LOCAL_NODE)' <=> Runs(LOCAL_NODE)
        /\ ~Runs(LOCAL_NODE) => reader'[LOCAL_NODE] = "read"
                              /\ strays'[LOCAL_NODE] = 0
    BY <1>1, Nodes DEF IInv, Strays, Runs
  <2>2. /\ reader'[LOCAL_NODE] = "stale"
             => sock'[LOCAL_NODE][in_data(LOCAL_NODE)] \in {"eof", "broken"}
        /\ strays'[LOCAL_NODE] # 0
             => /\ strays'[LOCAL_NODE] = 1
                /\ sock'[LOCAL_NODE][in_data(LOCAL_NODE)] = "broken"
    BY <1>1, <1>2, Nodes, Channels DEF IInv, Strays
  <2>3. QED
    BY <1>1, <2>1, <2>2, Nodes DEF Strays
<1>12. QED
  BY <1>1, <1>5, <1>6, <1>7, <1>8, <1>9, <1>10, <1>11 DEF IInv, ConnInv

-----------------------------------------------------------------------------
\* The way to a connection

LEMMA HeadAndTail ==
  ASSUME NEW S, NEW s \in Seq(S), s # << >>
  PROVE  /\ Head(s) \in S /\ Head(s) \in Range(s) /\ Tail(s) \in Seq(S)
         /\ \A e : e \in Range(s) <=> e = Head(s) \/ e \in Range(Tail(s))
         /\ IsInjective(s) => /\ Head(s) \notin Range(Tail(s))
                              /\ IsInjective(Tail(s))
<1>1. /\ DOMAIN s = 1 .. Len(s) /\ Len(s) \in Nat /\ Len(s) >= 1
      /\ Head(s) = s[1] /\ Tail(s) \in Seq(S) /\ Head(s) \in S
      /\ Len(Tail(s)) = Len(s) - 1
      /\ \A i \in 1 .. Len(s) - 1 : Tail(s)[i] = s[i + 1]
      /\ DOMAIN Tail(s) = 1 .. Len(s) - 1
  OBVIOUS
<1>2. ASSUME NEW e
      PROVE  e \in Range(s) <=> e = Head(s) \/ e \in Range(Tail(s))
  <2>1. ASSUME e \in Range(s), e # Head(s) PROVE e \in Range(Tail(s))
    <3>1. PICK i \in 1 .. Len(s) : e = s[i]
      BY <1>1, <2>1 DEF Range
    <3>2. i - 1 \in 1 .. Len(s) - 1 /\ Tail(s)[i - 1] = s[(i - 1) + 1]
      <4>1. i \in Int /\ 1 <= i /\ i <= Len(s) /\ i # 1
        BY <1>1, <2>1, <3>1
      <4>2. i - 1 \in 1 .. Len(s) - 1 /\ (i - 1) + 1 = i
        BY <1>1, <4>1
      <4>3. QED
        BY <1>1, <4>2
    <3>3. e = Tail(s)[i - 1]
      BY <3>1, <3>2
    <3>4. QED
      BY <1>1, <3>2, <3>3 DEF Range
  <2>2. ASSUME e \in Range(Tail(s)) PROVE e \in Range(s)
    <3>1. PICK i \in 1 .. Len(s) - 1 : e = Tail(s)[i]
      BY <1>1, <2>2 DEF Range
    <3>2. i + 1 \in 1 .. Len(s) /\ e = s[i + 1]
      BY <1>1, <3>1
    <3>3. QED
      BY <1>1, <3>2 DEF Range
  <2>3. QED
    BY <1>1, <2>1, <2>2 DEF Range
<1>3. ASSUME IsInjective(s)
      PROVE  Head(s) \notin Range(Tail(s)) /\ IsInjective(Tail(s))
  <2>1. \A i, j \in 1 .. Len(s) : s[i] = s[j] => i = j
    BY <1>1, <1>3 DEF IsInjective
  <2>2. Head(s) \notin Range(Tail(s))
    <3> SUFFICES ASSUME NEW i \in 1 .. Len(s) - 1, Tail(s)[i] = Head(s)
                 PROVE  FALSE
      BY <1>1 DEF Range
    <3>1. i + 1 \in 1 .. Len(s) /\ 1 \in 1 .. Len(s) /\ s[i + 1] = s[1]
      BY <1>1
    <3>2. QED
      BY <2>1, <3>1
  <2>3. \A i, j \in 1 .. Len(s) - 1 : Tail(s)[i] = Tail(s)[j] => i = j
    <3> SUFFICES ASSUME NEW i \in 1 .. Len(s) - 1, NEW j \in 1 .. Len(s) - 1,
                        Tail(s)[i] = Tail(s)[j]
                 PROVE  i = j
      OBVIOUS
    <3>1. /\ i + 1 \in 1 .. Len(s) /\ j + 1 \in 1 .. Len(s)
          /\ s[i + 1] = s[j + 1]
      BY <1>1
    <3>2. i + 1 = j + 1
      BY <2>1, <3>1
    <3>3. QED
      BY <3>2
  <2>4. IsInjective(Tail(s))
    BY <1>1, <2>3 DEF IsInjective
  <2>5. QED
    BY <2>2, <2>4
<1>4. Head(s) \in Range(s)
  BY <1>1 DEF Range
<1>5. QED
  BY <1>1, <1>2, <1>3, <1>4

LEMMA AcceptKeeps ==
  ASSUME IInv, Accept
  PROVE  IInv'
<1>0. PICK c \in Channel : c = here(REMOTE_NODE)
  BY Nodes, Here DEF IInv
<1>1. /\ UNCHANGED <<at, starts, inbox, timewait, adaptor, reader, fed,
                     strays, swallowed>>
      /\ main[REMOTE_NODE] = "accept" /\ main'[REMOTE_NODE] = "hello"
      /\ main'[LOCAL_NODE] = main[LOCAL_NODE]
      /\ main' \in [Node -> {"off", "connect", "greet", "bind", "accept",
                             "hello", "run"}]
  BY Nodes DEF Accept, mainGoes, threads, IInv, TypeOK
<1>2. /\ c \in Channel /\ number(c) = at[REMOTE_NODE]
      /\ at[REMOTE_NODE] \in 1 .. 4
      /\ \A d \in Channel : number(d) = at[REMOTE_NODE] <=> d = c
  BY <1>0, Nodes, Here DEF IInv
<1>02. PICK k : k = Head(backlog[c])
  OBVIOUS
<1>3. /\ backlog[c] \in Seq(1 .. MaxStarts) /\ backlog[c] # << >>
      /\ k \in Range(backlog[c]) /\ k \in 1 .. MaxStarts
      /\ k \in Nat \ {0} /\ k <= starts[LOCAL_NODE]
      /\ starts[LOCAL_NODE] \in Nat
      /\ Tail(backlog[c]) \in Seq(1 .. MaxStarts)
  BY <1>0, <1>02, <1>2, Backlogs, HeadAndTail DEF Accept, IInv, ConnInv
<1>4. /\ \A e : e \in Range(backlog[c]) <=>
                  e = k \/ e \in Range(Tail(backlog[c]))
      /\ k \notin Range(Tail(backlog[c])) /\ IsInjective(Tail(backlog[c]))
  BY <1>02, <1>2, <1>3, HeadAndTail DEF IInv, ConnInv, Waiting
<1>5. /\ client' = [client EXCEPT ![c] = k]
      /\ backlog' = [backlog EXCEPT ![c] = Tail(backlog[c])]
      /\ sock' = [sock EXCEPT ![REMOTE_NODE][c] =
                    IF main[LOCAL_NODE] # "off" /\ k = starts[LOCAL_NODE]
                      THEN "open" ELSE "eof"]
  BY <1>0, <1>02 DEF Accept
<1>6. /\ client'[c] = k /\ backlog'[c] = Tail(backlog[c])
      /\ \A d \in Channel : d # c => /\ client'[d] = client[d]
                                     /\ backlog'[d] = backlog[d]
  BY <1>2, <1>5 DEF IInv, TypeOK
<1>7. /\ sock'[LOCAL_NODE] = sock[LOCAL_NODE]
      /\ sock'[REMOTE_NODE][c] =
           IF main[LOCAL_NODE] # "off" /\ k = starts[LOCAL_NODE]
             THEN "open" ELSE "eof"
      /\ \A d \in Channel :
           d # c => sock'[REMOTE_NODE][d] = sock[REMOTE_NODE][d]
      /\ sock' \in [Node -> [Channel -> {"none", "open", "eof", "reset",
                                         "broken"}]]
  BY <1>2, <1>5, Nodes DEF IInv, TypeOK
<1>8. TypeOK'
  <2>1. /\ client' \in [Channel -> 0 .. MaxStarts]
        /\ backlog' \in [Channel -> Seq(1 .. MaxStarts)]
    BY <1>2, <1>3, <1>5 DEF IInv, TypeOK
  <2>2. QED
    BY <1>1, <1>7, <2>1 DEF IInv, TypeOK
<1>9. ~Accepted(c) /\ client[c] = 0 /\ ~Linked(c) /\ ~Runs(REMOTE_NODE)
  <2>1. ~Accepted(c)
    BY <1>1, <1>2 DEF Accepted, Passed
  <2>2. client[c] = 0
    BY <1>2, <2>1 DEF IInv, ConnInv, Clients
  <2>3. QED
    BY <1>1, <2>1, <2>2, Nodes
    DEF IInv, ConnInv, Modes, Linked, Live, Runs
<1>10. ASSUME NEW d \in Channel
       PROVE  /\ Met(d)' <=> Met(d)
              /\ Accepted(d)' <=> Accepted(d) \/ d = c
              /\ Passed(LOCAL_NODE, d)' <=> Passed(LOCAL_NODE, d)
              /\ Passed(REMOTE_NODE, d)' <=> Passed(REMOTE_NODE, d)
              /\ Listening(d) <=> d = c
              /\ Listening(d)' <=> d = c
  BY <1>0, <1>1, <1>2 DEF Met, Accepted, Passed, Listening, here
<1>11. c # first => k = client[first] /\ client[first] # 0
  <2>1. c # first => at[REMOTE_NODE] # 1
    BY <1>2, Channels
  <2>2. c # first => Accepted(first)
    BY <1>2, <2>1, Channels DEF Accepted, Passed
  <2>3. QED
    BY <1>2, <1>3, <2>2, Channels DEF IInv, ConnInv, Waiting, Clients
<1>12. \A d \in Channel : d # c => backlog[d] = << >>
  BY <1>10 DEF IInv, ConnInv, Waiting
<1>13. Linked(c)' <=> Live(LOCAL_NODE) /\ k = starts[LOCAL_NODE]
  BY <1>1, <1>6 DEF Linked, Live
<1>14. \A d \in Channel : d # c => (Linked(d)' <=> Linked(d))
  BY <1>1, <1>6 DEF Linked, Live
<1>15. \A d \in Channel : d # c => (Queued(d)' <=> Queued(d))
  BY <1>1, <1>6 DEF Queued
<1>16. /\ Queued(c)' <=> /\ Live(LOCAL_NODE)
                         /\ starts[LOCAL_NODE] \in Range(Tail(backlog[c]))
       /\ Queued(c) <=> Linked(c)' \/ Queued(c)'
  BY <1>1, <1>4, <1>6, <1>13 DEF Queued, Live
<1>17. Modes'
  BY <1>1, Nodes DEF IInv, ConnInv, Modes, Live
<1>18. Clients'
  <2>1. \A d \in Channel : d # c /\ client[d] # 0 => client[d] = k
    <3> SUFFICES ASSUME NEW d \in Channel, d # c, client[d] # 0
                 PROVE  client[d] = k
      OBVIOUS
    <3>1. Accepted(d)
      BY DEF IInv, ConnInv, Clients
    <3>2. number(d) < at[REMOTE_NODE]
      BY <1>1, <1>2, <3>1 DEF Accepted, Passed
    <3>3. c # first
      BY <1>2, <3>2, Channels
    <3>4. QED
      BY <1>11, <3>3, Channels DEF IInv, ConnInv, Clients
  <2>2. \A d, e \in Channel :
          client'[d] # 0 /\ client'[e] # 0 => client'[d] = client'[e]
    BY <1>6, <2>1
  <2>3. \A d \in Channel : /\ client'[d] # 0 <=> Accepted(d)'
                           /\ client'[d] <= starts'[LOCAL_NODE]
    BY <1>1, <1>3, <1>6, <1>10 DEF IInv, ConnInv, Clients
  <2>4. QED
    BY <2>2, <2>3 DEF Clients
<1>19. Waiting'
  <2> SUFFICES ASSUME NEW d \in Channel
               PROVE  /\ backlog'[d] # << >> => Listening(d)'
                      /\ IsInjective(backlog'[d])
                      /\ \A e \in Range(backlog'[d]) :
                           /\ e <= starts[LOCAL_NODE]
                           /\ d # first => e = client'[first]
                      /\ Queued(d)' => /\ main[LOCAL_NODE] = "greet"
                                       /\ at[LOCAL_NODE] = number(d)
                                       /\ sock[LOCAL_NODE][d] = "open"
                                       /\ inbox[LOCAL_NODE][d] = << >>
                                       /\ client'[d] # starts[LOCAL_NODE]
    BY <1>1, <1>7 DEF Waiting
  <2>1. CASE d = c
    <3>1. \A e \in Range(backlog'[d]) :
            /\ e <= starts[LOCAL_NODE]
            /\ d # first => e = client'[first]
      BY <1>2, <1>4, <1>6, <2>1, Channels DEF IInv, ConnInv, Waiting
    <3>2. Queued(d)' => client'[d] # starts[LOCAL_NODE]
      BY <1>4, <1>6, <1>16, <2>1
    <3>3. QED
      BY <1>4, <1>6, <1>10, <1>16, <2>1, <3>1, <3>2
      DEF IInv, ConnInv, Waiting
  <2>2. CASE d # c
    <3>1. backlog'[d] = << >>
      BY <1>6, <1>12, <2>2
    <3>2. Range(backlog'[d]) = {} /\ IsInjective(backlog'[d])
      BY <3>1 DEF Range, IsInjective
    <3>3. ~Queued(d)'
      BY <3>2 DEF Queued
    <3>4. QED
      BY <3>1, <3>2, <3>3
  <2>3. QED
    BY <2>1, <2>2
<1>20. NotOvertaken'
  <2> SUFFICES ASSUME Passed(LOCAL_NODE, first) \/ Answered
               PROVE  /\ backlog'[first] = << >>
                      /\ \A d \in Channel :
                           client'[d] \in {0, starts[LOCAL_NODE]}
    BY <1>1, <1>7, <1>10, Channels DEF NotOvertaken, Answered
  <2>1. /\ backlog[first] = << >>
        /\ \A d \in Channel : client[d] \in {0, starts[LOCAL_NODE]}
    BY DEF IInv, ConnInv, NotOvertaken
  <2>2. c # first
    BY <1>3, <2>1
  <2>3. QED
    BY <1>6, <1>11, <2>1, <2>2, Channels
<1>21. Links'
  <2> SUFFICES ASSUME NEW d \in Channel
               PROVE  /\ Linked(d)' =>
                           /\ sock[LOCAL_NODE][d] = "open" /\ Met(d)
                           /\ \/ Passed(LOCAL_NODE, d)
                              \/ inbox[LOCAL_NODE][d] # << >>
                              => Passed(REMOTE_NODE, d)
                      /\ sock'[REMOTE_NODE][d] = "open" <=> Linked(d)'
                      /\ sock[LOCAL_NODE][d] = "open"
                           => Linked(d)' \/ Queued(d)'
    BY <1>1, <1>7, <1>10 DEF Links
  <2>1. CASE d = c
    <3>1. sock'[REMOTE_NODE][d] = "open" <=> Linked(d)'
      BY <1>7, <1>13, <2>1 DEF Live
    <3>2. sock[LOCAL_NODE][d] = "open" => Linked(d)' \/ Queued(d)'
      BY <1>2, <1>9, <1>16, <2>1 DEF IInv, ConnInv, Links
    <3>3. Linked(d)' => /\ main[LOCAL_NODE] = "greet"
                        /\ at[LOCAL_NODE] = number(d)
                        /\ sock[LOCAL_NODE][d] = "open"
                        /\ inbox[LOCAL_NODE][d] = << >>
      BY <1>2, <1>16, <2>1 DEF IInv, ConnInv, Waiting
    <3>4. Linked(d)' => ~Passed(LOCAL_NODE, d) /\ Met(d)
      BY <3>3, Channels DEF Passed, Met
    <3>5. QED
      BY <3>1, <3>2, <3>3, <3>4
  <2>2. CASE d # c
    BY <1>7, <1>14, <1>15, <2>2 DEF IInv, ConnInv, Links
  <2>3. QED
    BY <2>1, <2>2
<1>22. Unused'
  BY <1>1, <1>7, <1>10 DEF IInv, ConnInv, Unused
<1>23. Streams'
  BY <1>1, <1>10 DEF IInv, ConnInv, Streams, Expected
<1>24. FedByClient'
  <2>1. ~fed[REMOTE_NODE] /\ reader[REMOTE_NODE] = "read"
    BY <1>9, Nodes DEF IInv, Strays
  <2>2. c = first => inbox[REMOTE_NODE][first] = << >>
    BY <1>2, <1>9 DEF IInv, ConnInv, Unused
  <2>3. c # first => (Linked(first)' <=> Linked(first))
    BY <1>14, Channels
  <2>4. QED
    BY <1>1, <2>1, <2>2, <2>3 DEF IInv, FedByClient
<1>25. Strays'
  <2>1. ~Runs(REMOTE_NODE)' /\ (Runs(LOCAL_NODE)' <=> Runs(LOCAL_NODE))
    BY <1>1 DEF Runs
  <2>2. /\ reader[REMOTE_NODE] = "read" /\ strays[REMOTE_NODE] = 0
        /\ ~fed[REMOTE_NODE]
    BY <1>9, Nodes DEF IInv, Strays
  <2>3. QED
    BY <1>1, <1>7, <2>1, <2>2, Nodes DEF IInv, Strays
<1>26. QED
  BY <1>8, <1>17, <1>18, <1>19, <1>20, <1>21, <1>22, <1>23, <1>24, <1>25
  DEF IInv, ConnInv

LEMMA GreetKeeps ==
  ASSUME IInv, Greet
  PROVE  IInv'
<1>0. PICK c \in Channel : c = here(REMOTE_NODE)
  BY Nodes, Here DEF IInv
<1>1. /\ UNCHANGED <<starts, client, timewait, adaptor, reader, fed,
                     strays, swallowed>>
      /\ main[REMOTE_NODE] = "hello" /\ main'[LOCAL_NODE] = main[LOCAL_NODE]
      /\ main'[REMOTE_NODE] = IF at[REMOTE_NODE] = 4 THEN "run" ELSE "bind"
      /\ main' \in [Node -> {"off", "connect", "greet", "bind", "accept",
                             "hello", "run"}]
  BY Nodes, Channels DEF Greet, NextChannel, mainGoes, threads, IInv, TypeOK
<1>2. /\ number(c) = at[REMOTE_NODE] /\ at[REMOTE_NODE] \in 1 .. 4
      /\ \A d \in Channel : number(d) = at[REMOTE_NODE] <=> d = c
  BY <1>0, Nodes, Here DEF IInv
<1>3. /\ at'[LOCAL_NODE] = at[LOCAL_NODE]
      /\ at'[REMOTE_NODE] = IF at[REMOTE_NODE] = 4 THEN 1
                            ELSE at[REMOTE_NODE] + 1
      /\ at' \in [Node -> 1 .. Len(main_order)]
  <2>1. at' = [at EXCEPT ![REMOTE_NODE] = IF at[REMOTE_NODE] = 4 THEN 1
                                         ELSE at[REMOTE_NODE] + 1]
    BY Channels DEF Greet, NextChannel
  <2>2. at \in [Node -> 1 .. 4] /\ Len(main_order) = 4
    BY Channels DEF IInv, TypeOK
  <2>3. (IF at[REMOTE_NODE] = 4 THEN 1 ELSE at[REMOTE_NODE] + 1) \in 1 .. 4
    BY <1>2
  <2>4. QED
    BY <2>1, <2>2, <2>3, Nodes
<1>4. /\ backlog' = [backlog EXCEPT ![c] = << >>]
      /\ \/ /\ sock[REMOTE_NODE][c] = "open"
            /\ inbox' = [inbox EXCEPT ![LOCAL_NODE][c] = Append(@, "hello")]
            /\ UNCHANGED sock
         \/ /\ sock[REMOTE_NODE][c] # "open"
            /\ sock' = [sock EXCEPT ![REMOTE_NODE][c] = "broken",
                                    ![LOCAL_NODE][c] =
                                       IF Queued(c) THEN "reset" ELSE @]
            /\ UNCHANGED inbox
  BY <1>0 DEF Greet
<1>5. \A d \in Channel : backlog'[d] = << >>
  <2>1. \A d \in Channel : d # c => ~Listening(d)
    BY <1>0 DEF Listening
  <2>2. QED
    BY <1>4, <2>1 DEF IInv, TypeOK, ConnInv, Waiting
<1>6. ASSUME NEW d \in Channel
      PROVE  /\ Met(d)' <=> Met(d)
             /\ Accepted(d)' <=> Accepted(d)
             /\ Passed(LOCAL_NODE, d)' <=> Passed(LOCAL_NODE, d)
             /\ Passed(REMOTE_NODE, d)' <=> Passed(REMOTE_NODE, d) \/ d = c
             /\ Linked(d)' <=> Linked(d)
             /\ ~Queued(d)'
  <2>1. /\ Met(d)' <=> Met(d)
        /\ Passed(LOCAL_NODE, d)' <=> Passed(LOCAL_NODE, d)
        /\ Linked(d)' <=> Linked(d)
    BY <1>1, <1>3 DEF Met, Passed, Linked, Live
  <2>2. number(d) \in 1 .. 4 /\ (number(d) = at[REMOTE_NODE] <=> d = c)
    BY <1>2, Channels
  <2>3. Passed(REMOTE_NODE, d)' <=> Passed(REMOTE_NODE, d) \/ d = c
    BY <1>1, <1>2, <1>3, <2>2 DEF Passed
  <2>4. Accepted(d)' <=> Accepted(d)
    BY <1>1, <2>2, <2>3 DEF Accepted
  <2>5. ~Queued(d)'
    BY <1>5 DEF Queued, Range
  <2>6. QED
    BY <2>1, <2>3, <2>4, <2>5
<1>7. /\ \A d \in Channel : ~Queued(d) \/ d = c
      /\ Accepted(c) /\ ~Passed(REMOTE_NODE, c) /\ ~Runs(REMOTE_NODE)
  <2>1. \A d \in Channel : d # c => backlog[d] = << >>
    BY <1>0 DEF IInv, ConnInv, Waiting, Listening
  <2>2. \A d \in Channel : d # c => ~Queued(d)
    BY <2>1 DEF Queued, Range
  <2>3. Accepted(c) /\ ~Passed(REMOTE_NODE, c) /\ ~Runs(REMOTE_NODE)
    BY <1>1, <1>2 DEF Accepted, Passed, Runs
  <2>4. QED
    BY <2>2, <2>3
<1>8. sock[REMOTE_NODE][c] = "open" =>
        /\ Linked(c) /\ ~Queued(c) /\ ~Passed(LOCAL_NODE, c) /\ Met(c)
        /\ inbox[LOCAL_NODE][c] = << >> /\ client[c] # 0
  <2>1. sock[REMOTE_NODE][c] = "open" => Linked(c)
    BY DEF IInv, ConnInv, Links
  <2>2. Linked(c) => /\ ~Passed(LOCAL_NODE, c) /\ Met(c)
                     /\ inbox[LOCAL_NODE][c] = << >>
    BY <1>7 DEF IInv, ConnInv, Links
  <2>3. Linked(c) => ~Queued(c)
    BY DEF IInv, ConnInv, Waiting, Linked
  <2>4. client[c] # 0
    BY <1>7 DEF IInv, ConnInv, Clients
  <2>5. QED
    BY <2>1, <2>2, <2>3, <2>4
<1>9. /\ sock'[LOCAL_NODE][c] = IF Queued(c) THEN "reset"
                                ELSE sock[LOCAL_NODE][c]
      /\ sock'[REMOTE_NODE][c] = IF sock[REMOTE_NODE][c] = "open" THEN "open"
                                 ELSE "broken"
      /\ \A n \in Node, d \in Channel : d # c => sock'[n][d] = sock[n][d]
      /\ sock' \in [Node -> [Channel -> {"none", "open", "eof", "reset",
                                         "broken"}]]
  <2>1. CASE sock[REMOTE_NODE][c] = "open"
    BY <1>4, <1>8, <2>1 DEF IInv, TypeOK
  <2>2. CASE sock[REMOTE_NODE][c] # "open"
    <3>1. CASE Queued(c)
      <4>1. sock' = [sock EXCEPT ![REMOTE_NODE][c] = "broken",
                                 ![LOCAL_NODE][c] = "reset"]
        BY <1>4, <2>2, <3>1
      <4>2. QED
        BY <2>2, <3>1, <4>1, Nodes DEF IInv, TypeOK
    <3>2. CASE ~Queued(c)
      <4>1. sock' = [sock EXCEPT ![REMOTE_NODE][c] = "broken",
                                 ![LOCAL_NODE][c] = sock[LOCAL_NODE][c]]
        BY <1>4, <2>2, <3>2, Nodes DEF IInv, TypeOK
      <4>2. QED
        BY <2>2, <3>2, <4>1, Nodes DEF IInv, TypeOK
    <3>3. QED
      BY <3>1, <3>2
  <2>3. QED
    BY <2>1, <2>2
<1>10. /\ inbox'[LOCAL_NODE][c] = IF sock[REMOTE_NODE][c] = "open"
                                  THEN << "hello" >>
                                  ELSE inbox[LOCAL_NODE][c]
       /\ \A d \in Channel :
            d # c => inbox'[LOCAL_NODE][d] = inbox[LOCAL_NODE][d]
       /\ inbox'[REMOTE_NODE] = inbox[REMOTE_NODE]
       /\ inbox' \in [Node -> [Channel -> Seq(Messages)]]
  <2>1. CASE sock[REMOTE_NODE][c] = "open"
    <3>1. inbox' = [inbox EXCEPT ![LOCAL_NODE][c] = << "hello" >>]
      <4>1. Append(inbox[LOCAL_NODE][c], "hello") = << "hello" >>
        <5>1. Append(<< >>, "hello") = << "hello" >>
          OBVIOUS
        <5>2. inbox[LOCAL_NODE][c] = << >>
          BY <1>8, <2>1
        <5>3. QED
          BY <5>1, <5>2
      <4>2. inbox' = [inbox EXCEPT ![LOCAL_NODE][c] =
                                     Append(inbox[LOCAL_NODE][c], "hello")]
        BY <1>4, <2>1
      <4>3. QED
        BY <4>1, <4>2
    <3>2. << "hello" >> \in Seq(Messages)
      BY DEF Messages
    <3>3. QED
      BY <2>1, <3>1, <3>2, Nodes DEF IInv, TypeOK
  <2>2. CASE sock[REMOTE_NODE][c] # "open"
    BY <1>4, <2>2 DEF IInv, TypeOK
  <2>3. QED
    BY <2>1, <2>2
<1>11. TypeOK'
  <2>1. << >> \in Seq(1 .. MaxStarts)
    OBVIOUS
  <2>2. QED
    BY <1>1, <1>3, <1>4, <1>9, <1>10, <2>1 DEF IInv, TypeOK
<1>12. Modes'
  <2>1. main'[REMOTE_NODE] = "run" => at'[REMOTE_NODE] = 1
    BY <1>1, <1>3
  <2>2. QED
    BY <1>1, <1>3, <2>1, Nodes DEF IInv, ConnInv, Modes, Live
<1>13. Clients'
  BY <1>1, <1>6 DEF IInv, ConnInv, Clients
<1>14. Waiting'
  <2>1. \A d \in Channel : /\ Range(backlog'[d]) = {}
                           /\ IsInjective(backlog'[d])
    BY <1>5 DEF Range, IsInjective
  <2>2. QED
    BY <1>5, <1>6, <2>1 DEF Waiting
<1>15. NotOvertaken'
  <2>1. Linked(c) =>
          \A d \in Channel : client[d] \in {0, starts[LOCAL_NODE]}
    <3>1. Linked(c) => client[c] = starts[LOCAL_NODE]
      BY DEF Linked
    <3>2. client[c] # 0
      BY <1>7 DEF IInv, ConnInv, Clients
    <3>3. \A d \in Channel : client[d] # 0 => client[d] = client[c]
      BY <3>2 DEF IInv, ConnInv, Clients
    <3>4. QED
      BY <3>1, <3>3
  <2>2. Answered' => Answered \/ Linked(c)
    <3>1. CASE c = first
      <4>1. sock'[LOCAL_NODE][first] = "eof"
              => sock[LOCAL_NODE][first] = "eof"
        BY <1>9, <3>1
      <4>2. inbox'[LOCAL_NODE][first] # << >>
              => Linked(c) \/ inbox[LOCAL_NODE][first] # << >>
        BY <1>8, <1>10, <3>1
      <4>3. QED
        BY <1>1, <1>3, <4>1, <4>2 DEF Answered
    <3>2. CASE c # first
      BY <1>1, <1>3, <1>9, <1>10, <3>2, Nodes, Channels DEF Answered
    <3>3. QED
      BY <3>1, <3>2
  <2>3. QED
    BY <1>1, <1>5, <1>6, <2>1, <2>2, Channels
    DEF IInv, ConnInv, NotOvertaken
<1>16. Links'
  <2> SUFFICES ASSUME NEW d \in Channel
               PROVE  /\ Linked(d) =>
                           /\ sock'[LOCAL_NODE][d] = "open" /\ Met(d)
                           /\ \/ Passed(LOCAL_NODE, d)
                              \/ inbox'[LOCAL_NODE][d] # << >>
                              => Passed(REMOTE_NODE, d)'
                      /\ sock'[REMOTE_NODE][d] = "open" <=> Linked(d)
                      /\ sock'[LOCAL_NODE][d] = "open" => Linked(d)
    BY <1>6 DEF Links
  <2>1. CASE d = c
    <3>1. sock[REMOTE_NODE][c] = "open" <=> Linked(c)
      BY DEF IInv, ConnInv, Links
    <3>2. Linked(c) => sock[LOCAL_NODE][c] = "open"
      BY DEF IInv, ConnInv, Links
    <3>3. sock[LOCAL_NODE][c] = "open" => Linked(c) \/ Queued(c)
      BY DEF IInv, ConnInv, Links
    <3>4. QED
      BY <1>6, <1>8, <1>9, <2>1, <3>1, <3>2, <3>3
  <2>2. CASE d # c
    BY <1>6, <1>7, <1>9, <1>10, <2>2, Nodes DEF IInv, ConnInv, Links
  <2>3. QED
    BY <2>1, <2>2
<1>17. Unused'
  <2> SUFFICES ASSUME NEW d \in Channel
               PROVE  /\ sock'[LOCAL_NODE][d] = "none" <=> ~Met(d)
                      /\ sock'[REMOTE_NODE][d] = "none" <=> ~Accepted(d)
                      /\ ~Met(d) => inbox'[LOCAL_NODE][d] = << >>
                      /\ ~Accepted(d) => inbox'[REMOTE_NODE][d] = << >>
    BY <1>6 DEF Unused
  <2>1. CASE d = c
    <3>1. Queued(c) => sock[LOCAL_NODE][c] = "open"
      BY DEF IInv, ConnInv, Waiting
    <3>2. QED
      BY <1>7, <1>8, <1>9, <1>10, <2>1, <3>1 DEF IInv, ConnInv, Unused
  <2>2. CASE d # c
    BY <1>9, <1>10, <2>2, Nodes DEF IInv, ConnInv, Unused
  <2>3. QED
    BY <2>1, <2>2
<1>18. Streams'
  <2>1. Range(<< "hello" >>) = {"hello"}
    BY DEF Range
  <2>2. QED
    BY <1>1, <1>6, <1>8, <1>10, <2>1
    DEF IInv, ConnInv, Streams, Expected
<1>19. FedByClient'
  BY <1>1, <1>6, <1>10, Channels DEF IInv, FedByClient
<1>20. Strays'
  <2>1. /\ reader[REMOTE_NODE] = "read" /\ strays[REMOTE_NODE] = 0
        /\ ~fed[REMOTE_NODE]
    BY <1>7, Nodes DEF IInv, Strays
  <2>2. Queued(c) => sock[LOCAL_NODE][c] = "open"
    BY DEF IInv, ConnInv, Waiting
  <2>3. in_data(LOCAL_NODE) \in Channel
    BY Nodes, Channels
  <2>4. sock[LOCAL_NODE][in_data(LOCAL_NODE)] \in {"eof", "broken"} =>
          sock'[LOCAL_NODE][in_data(LOCAL_NODE)]
            = sock[LOCAL_NODE][in_data(LOCAL_NODE)]
    BY <1>9, <2>2, <2>3, Nodes
  <2>5. Runs(LOCAL_NODE)' <=> Runs(LOCAL_NODE)
    BY <1>1 DEF Runs
  <2>6. QED
    BY <1>1, <2>1, <2>4, <2>5, Nodes DEF IInv, Strays
<1>21. QED
  BY <1>11, <1>12, <1>13, <1>14, <1>15, <1>16, <1>17, <1>18, <1>19, <1>20
  DEF IInv, ConnInv

LEMMA ConnectKeeps ==
  ASSUME IInv, Connect
  PROVE  IInv'
<1>0. PICK c \in Channel : c = here(LOCAL_NODE)
  BY Nodes, Here DEF IInv
<1>1. /\ UNCHANGED <<at, starts, inbox, client, timewait, adaptor, reader,
                     fed, strays, swallowed>>
      /\ main[LOCAL_NODE] = "connect" /\ main'[LOCAL_NODE] = "greet"
      /\ main'[REMOTE_NODE] = main[REMOTE_NODE]
      /\ main' \in [Node -> {"off", "connect", "greet", "bind", "accept",
                             "hello", "run"}]
  BY Nodes DEF Connect, mainGoes, threads, IInv, TypeOK
<1>2. /\ number(c) = at[LOCAL_NODE] /\ at[LOCAL_NODE] \in 1 .. 4
      /\ \A d \in Channel : number(d) = at[LOCAL_NODE] <=> d = c
  BY <1>0, Nodes, Here DEF IInv
<1>3. PICK k : k = starts[LOCAL_NODE]
  OBVIOUS
<1>4. k \in 1 .. MaxStarts /\ k \in Nat \ {0}
  <2>1. k \in 0 .. MaxStarts
    BY <1>3, Nodes DEF IInv, TypeOK
  <2>2. k # 0
    BY <1>1, <1>3, Nodes DEF IInv, ConnInv, Modes, Live
  <2>3. QED
    BY <2>1, <2>2
<1>5. /\ sock' = [sock EXCEPT ![LOCAL_NODE][c] = "open"]
      /\ backlog' = [backlog EXCEPT ![c] = Append(backlog[c], k)]
      /\ Listening(c)
  BY <1>0, <1>3 DEF Connect
<1>6. /\ sock'[LOCAL_NODE][c] = "open"
      /\ \A d \in Channel : d # c => sock'[LOCAL_NODE][d] = sock[LOCAL_NODE][d]
      /\ sock'[REMOTE_NODE] = sock[REMOTE_NODE]
      /\ sock' \in [Node -> [Channel -> {"none", "open", "eof", "reset",
                                         "broken"}]]
  BY <1>5, Nodes DEF IInv, TypeOK
<1>7. /\ backlog[c] \in Seq(1 .. MaxStarts)
      /\ backlog'[c] = Append(backlog[c], k)
      /\ \A d \in Channel : d # c => backlog'[d] = backlog[d]
      /\ backlog' \in [Channel -> Seq(1 .. MaxStarts)]
  BY <1>4, <1>5 DEF IInv, TypeOK
<1>8. TypeOK'
  BY <1>1, <1>6, <1>7 DEF IInv, TypeOK
<1>9. ASSUME NEW d \in Channel
      PROVE  /\ Met(d)' <=> Met(d) \/ d = c
             /\ Accepted(d)' <=> Accepted(d)
             /\ Passed(LOCAL_NODE, d)' <=> Passed(LOCAL_NODE, d)
             /\ Passed(REMOTE_NODE, d)' <=> Passed(REMOTE_NODE, d)
             /\ Linked(d)' <=> Linked(d)
             /\ Listening(d)' <=> Listening(d)
             /\ ~Queued(d)
  <2>1. ~Queued(d)
    BY <1>1 DEF IInv, ConnInv, Waiting
  <2>2. QED
    BY <1>1, <1>2, <2>1
    DEF Met, Accepted, Passed, Linked, Live, Listening, here
<1>10. /\ ~Met(c) /\ inbox[LOCAL_NODE][c] = << >> /\ ~Linked(c)
       /\ client[c] # k /\ ~Runs(LOCAL_NODE)
  <2>1. ~Met(c)
    BY <1>1, <1>2 DEF Met, Passed
  <2>2. inbox[LOCAL_NODE][c] = << >> /\ ~Linked(c)
    BY <2>1 DEF IInv, ConnInv, Unused, Links
  <2>3. QED
    BY <1>1, <1>3, <2>1, <2>2 DEF Linked, Live, Runs
<1>11. k \notin Range(backlog[c])
  BY <1>1, <1>3, <1>9 DEF Queued
<1>12. /\ \A e : e \in Range(backlog'[c]) <=> e \in Range(backlog[c]) \/ e = k
       /\ IsInjective(backlog'[c])
  <2>1. /\ DOMAIN backlog[c] = 1 .. Len(backlog[c])
        /\ Len(backlog[c]) \in Nat
        /\ DOMAIN backlog'[c] = 1 .. Len(backlog[c]) + 1
        /\ \A i \in 1 .. Len(backlog[c]) : backlog'[c][i] = backlog[c][i]
        /\ backlog'[c][Len(backlog[c]) + 1] = k
    BY <1>4, <1>7
  <2>2. IsInjective(backlog[c])
    BY DEF IInv, ConnInv, Waiting
  <2>3. \A i \in 1 .. Len(backlog[c]) + 1 :
          i \in 1 .. Len(backlog[c]) \/ i = Len(backlog[c]) + 1
    BY <2>1
  <2>4. \A e : e \in Range(backlog'[c]) <=> e \in Range(backlog[c]) \/ e = k
    BY <2>1, <2>3 DEF Range
  <2>5. \A i \in 1 .. Len(backlog[c]) : backlog'[c][i] # k
    BY <1>11, <2>1 DEF Range
  <2>6. \A i, j \in 1 .. Len(backlog[c]) + 1 :
          backlog'[c][i] = backlog'[c][j] => i = j
    BY <2>1, <2>2, <2>3, <2>5 DEF IsInjective
  <2>7. IsInjective(backlog'[c])
    BY <2>1, <2>6 DEF IsInjective
  <2>8. QED
    BY <2>4, <2>7
<1>13. c # first => client[first] = k
  <2>1. c # first => Passed(LOCAL_NODE, first) /\ Accepted(first)
    <3>1. c # first => at[LOCAL_NODE] # 1
      BY <1>2, Channels
    <3>2. Listening(c) => number(c) = at[REMOTE_NODE]
      BY Nodes, Here DEF IInv, Listening
    <3>3. QED
      BY <1>2, <1>5, <3>1, <3>2, Channels DEF Passed, Accepted
  <2>2. QED
    BY <1>3, <2>1, Channels DEF IInv, ConnInv, NotOvertaken, Clients
<1>14. Modes'
  BY <1>1, Nodes DEF IInv, ConnInv, Modes, Live
<1>15. Clients'
  BY <1>1, <1>9 DEF IInv, ConnInv, Clients
<1>16. Waiting'
  <2> SUFFICES ASSUME NEW d \in Channel
               PROVE  /\ backlog'[d] # << >> => Listening(d)
                      /\ IsInjective(backlog'[d])
                      /\ \A e \in Range(backlog'[d]) :
                           /\ e <= k
                           /\ d # first => e = client[first]
                      /\ Queued(d)' => /\ at[LOCAL_NODE] = number(d)
                                       /\ sock'[LOCAL_NODE][d] = "open"
                                       /\ inbox[LOCAL_NODE][d] = << >>
                                       /\ client[d] # k
    BY <1>1, <1>3, <1>9 DEF Waiting
  <2>1. CASE d = c
    <3>1. \A e \in Range(backlog'[d]) :
            e <= k /\ (d # first => e = client[first])
      BY <1>3, <1>4, <1>12, <1>13, <2>1 DEF IInv, ConnInv, Waiting
    <3>2. QED
      BY <1>2, <1>5, <1>6, <1>10, <1>12, <2>1, <3>1
  <2>2. CASE d # c
    <3>1. ~Queued(d)'
      BY <1>1, <1>7, <1>9, <2>2 DEF Queued
    <3>2. QED
      BY <1>3, <1>7, <2>2, <3>1 DEF IInv, ConnInv, Waiting
  <2>3. QED
    BY <2>1, <2>2
<1>17. NotOvertaken'
  <2>1. ~Answered'
    BY <1>1, <1>2, <1>6, <1>10, Channels DEF Answered
  <2>2. Passed(LOCAL_NODE, first) => c # first
    BY <1>10 DEF Met
  <2>3. QED
    BY <1>1, <1>7, <1>9, <2>1, <2>2, Channels
    DEF IInv, ConnInv, NotOvertaken
<1>18. Links'
  <2>1. Queued(c)'
    BY <1>1, <1>3, <1>12 DEF Queued
  <2>2. QED
    BY <1>1, <1>6, <1>9, <1>10, <2>1 DEF IInv, ConnInv, Links
<1>19. Unused'
  BY <1>1, <1>6, <1>9 DEF IInv, ConnInv, Unused
<1>20. Streams'
  BY <1>1, <1>9 DEF IInv, ConnInv, Streams, Expected
<1>21. FedByClient'
  BY <1>1, <1>9, Channels DEF IInv, FedByClient
<1>22. Strays'
  <2>1. reader[LOCAL_NODE] = "read" /\ strays[LOCAL_NODE] = 0
    BY <1>10, Nodes DEF IInv, Strays
  <2>2. Runs(REMOTE_NODE)' <=> Runs(REMOTE_NODE)
    BY <1>1 DEF Runs
  <2>3. QED
    BY <1>1, <1>6, <2>1, <2>2, Nodes DEF IInv, Strays
<1>23. QED
  BY <1>8, <1>14, <1>15, <1>16, <1>17, <1>18, <1>19, <1>20, <1>21, <1>22
  DEF IInv, ConnInv

LEMMA GreetedKeeps ==
  ASSUME IInv, Greeted
  PROVE  IInv'
<1>0. PICK c \in Channel : c = here(LOCAL_NODE)
  BY Nodes, Here DEF IInv
<1>1. /\ UNCHANGED <<starts, sock, backlog, client, timewait, adaptor,
                     reader, strays>>
      /\ main[LOCAL_NODE] = "greet" /\ main'[REMOTE_NODE] = main[REMOTE_NODE]
      /\ main'[LOCAL_NODE] = IF at[LOCAL_NODE] = 4 THEN "run" ELSE "connect"
      /\ main' \in [Node -> {"off", "connect", "greet", "bind", "accept",
                             "hello", "run"}]
  BY Nodes, Channels
  DEF Greeted, NextChannel, mainGoes, ports, IInv, TypeOK
<1>2. /\ number(c) = at[LOCAL_NODE] /\ at[LOCAL_NODE] \in 1 .. 4
      /\ \A d \in Channel : number(d) = at[LOCAL_NODE] <=> d = c
  BY <1>0, Nodes, Here DEF IInv
<1>3. /\ at'[REMOTE_NODE] = at[REMOTE_NODE]
      /\ at'[LOCAL_NODE] = IF at[LOCAL_NODE] = 4 THEN 1
                           ELSE at[LOCAL_NODE] + 1
      /\ at' \in [Node -> 1 .. Len(main_order)]
  <2>1. at' = [at EXCEPT ![LOCAL_NODE] = IF at[LOCAL_NODE] = 4 THEN 1
                                        ELSE at[LOCAL_NODE] + 1]
    BY Channels DEF Greeted, NextChannel
  <2>2. at \in [Node -> 1 .. 4] /\ Len(main_order) = 4
    BY Channels DEF IInv, TypeOK
  <2>3. (IF at[LOCAL_NODE] = 4 THEN 1 ELSE at[LOCAL_NODE] + 1) \in 1 .. 4
    BY <1>2
  <2>4. QED
    BY <2>1, <2>2, <2>3, Nodes
<1>4. /\ inbox[LOCAL_NODE][c] # << >> \/ sock[LOCAL_NODE][c] = "eof"
      /\ inbox' = [inbox EXCEPT ![LOCAL_NODE][c] = << >>]
      /\ swallowed' = (\/ swallowed
                       \/ \E m \in Range(inbox[LOCAL_NODE][c]) : m # "hello")
      /\ fed' = [fed EXCEPT ![LOCAL_NODE] =
                   (at[LOCAL_NODE] = Len(main_order))]
  BY <1>0 DEF Greeted
<1>5. /\ inbox'[LOCAL_NODE][c] = << >>
      /\ \A d \in Channel :
           d # c => inbox'[LOCAL_NODE][d] = inbox[LOCAL_NODE][d]
      /\ inbox'[REMOTE_NODE] = inbox[REMOTE_NODE]
      /\ inbox' \in [Node -> [Channel -> Seq(Messages)]]
  <2>1. << >> \in Seq(Messages)
    OBVIOUS
  <2>2. QED
    BY <1>4, <2>1, Nodes DEF IInv, TypeOK
<1>6. /\ fed'[REMOTE_NODE] = fed[REMOTE_NODE]
      /\ fed' \in [Node -> BOOLEAN]
  BY <1>4, Nodes DEF IInv, TypeOK
<1>7. /\ ~Passed(LOCAL_NODE, c) /\ Met(c) /\ ~Runs(LOCAL_NODE)
      /\ \A d \in Channel : ~Queued(d)
  <2>1. ~Passed(LOCAL_NODE, c) /\ Met(c) /\ ~Runs(LOCAL_NODE)
    BY <1>1, <1>2 DEF Passed, Met, Runs
  <2>2. \A d \in Channel : Queued(d) => d = c
    BY <1>2 DEF IInv, ConnInv, Waiting
  <2>3. ~Queued(c)
    BY <1>4 DEF IInv, ConnInv, Waiting
  <2>4. QED
    BY <2>1, <2>2, <2>3
<1>8. ASSUME NEW d \in Channel
      PROVE  /\ Met(d)' <=> Met(d)
             /\ Accepted(d)' <=> Accepted(d)
             /\ Passed(REMOTE_NODE, d)' <=> Passed(REMOTE_NODE, d)
             /\ Passed(LOCAL_NODE, d)' <=> Passed(LOCAL_NODE, d) \/ d = c
             /\ Linked(d)' <=> Linked(d)
             /\ Listening(d)' <=> Listening(d)
             /\ ~Queued(d)'
  <2>1. /\ Accepted(d)' <=> Accepted(d)
        /\ Passed(REMOTE_NODE, d)' <=> Passed(REMOTE_NODE, d)
        /\ Linked(d)' <=> Linked(d)
        /\ Listening(d)' <=> Listening(d)
    BY <1>1, <1>3 DEF Accepted, Passed, Linked, Live, Listening, here
  <2>2. number(d) \in 1 .. 4 /\ (number(d) = at[LOCAL_NODE] <=> d = c)
    BY <1>2, Channels
  <2>3. Passed(LOCAL_NODE, d)' <=> Passed(LOCAL_NODE, d) \/ d = c
    BY <1>1, <1>2, <1>3, <2>2 DEF Passed
  <2>4. Met(d)' <=> Met(d)
    BY <1>1, <2>2, <2>3 DEF Met
  <2>5. ~Queued(d)'
    BY <1>1, <1>7 DEF Queued
  <2>6. QED
    BY <2>1, <2>3, <2>4, <2>5
<1>9. ~swallowed'
  BY <1>4, <1>7 DEF IInv, ConnInv, Streams
<1>10. TypeOK'
  <2>1. swallowed' \in BOOLEAN
    BY <1>4
  <2>2. QED
    BY <1>1, <1>3, <1>5, <1>6, <2>1 DEF IInv, TypeOK
<1>11. Modes'
  <2>1. main'[LOCAL_NODE] = "run" => at'[LOCAL_NODE] = 1
    BY <1>1, <1>3
  <2>2. QED
    BY <1>1, <1>3, <2>1, Nodes DEF IInv, ConnInv, Modes, Live
<1>12. Clients'
  BY <1>1, <1>8 DEF IInv, ConnInv, Clients
<1>13. Waiting'
  BY <1>1, <1>8 DEF IInv, ConnInv, Waiting
<1>14. NotOvertaken'
  <2>1. c = first => Answered
    BY <1>1, <1>2, <1>4, Channels DEF Answered
  <2>2. ~Answered'
    BY <1>1 DEF Answered
  <2>3. QED
    BY <1>1, <1>8, <2>1, <2>2, Channels DEF IInv, ConnInv, NotOvertaken
<1>15. Links'
  <2> SUFFICES ASSUME NEW d \in Channel
               PROVE  /\ Linked(d) =>
                           /\ sock[LOCAL_NODE][d] = "open" /\ Met(d)
                           /\ \/ Passed(LOCAL_NODE, d) \/ d = c
                              \/ inbox'[LOCAL_NODE][d] # << >>
                              => Passed(REMOTE_NODE, d)
                      /\ sock[REMOTE_NODE][d] = "open" <=> Linked(d)
                      /\ sock[LOCAL_NODE][d] = "open" => Linked(d)
    BY <1>1, <1>8 DEF Links
  <2>1. CASE d = c
    BY <1>4, <1>7, <2>1 DEF IInv, ConnInv, Links
  <2>2. CASE d # c
    BY <1>5, <1>7, <2>2 DEF IInv, ConnInv, Links
  <2>3. QED
    BY <2>1, <2>2
<1>16. Unused'
  BY <1>1, <1>5, <1>7, <1>8 DEF IInv, ConnInv, Unused
<1>17. Streams'
  <2>1. Range(inbox'[LOCAL_NODE][c]) = {}
    BY <1>5 DEF Range
  <2>2. QED
    BY <1>5, <1>8, <1>9, <2>1 DEF IInv, ConnInv, Streams, Expected
<1>18. FedByClient'
  BY <1>1, <1>5, <1>6, <1>8, Channels DEF IInv, FedByClient
<1>19. Strays'
  <2>1. reader[LOCAL_NODE] = "read" /\ strays[LOCAL_NODE] = 0
    BY <1>7, Nodes DEF IInv, Strays
  <2>2. Runs(REMOTE_NODE)' <=> Runs(REMOTE_NODE)
    BY <1>1 DEF Runs
  <2>3. QED
    BY <1>1, <1>6, <2>1, <2>2, Nodes DEF IInv, Strays
<1>20. QED
  BY <1>10, <1>11, <1>12, <1>13, <1>14, <1>15, <1>16, <1>17, <1>18, <1>19
  DEF IInv, ConnInv

-----------------------------------------------------------------------------
\* The threads

LEMMA Expectations ==
  ASSUME NEW n \in Node
  PROVE  /\ Expected(n, in_data(n)) = {"job"}
         /\ Expected(n, in_state(n)) = {"state"}
         /\ Expected(n, out_data(n)) = {"ack"}
         /\ out_data(n) = in_data(peer(n)) /\ in_data(n) = out_data(peer(n))
         /\ out_state(n) = in_state(peer(n))
<1>1. /\ Expected(n, in_data(n)) = {"job"}
      /\ Expected(n, in_state(n)) = {"state"}
      /\ Expected(n, out_data(n)) = {"ack"}
  BY DEF Expected, in_data, in_state, out_data, out_state
<1>2. /\ out_data(n) = in_data(peer(n)) /\ in_data(n) = out_data(peer(n))
      /\ out_state(n) = in_state(peer(n))
  BY Nodes DEF in_data, in_state, out_data, out_state
<1>3. QED
  BY <1>1, <1>2

\* What a read or a write of a thread of n does to channel c: nothing is sent
\* to a LOCAL process that still waits for a greeting there.
EndsMove(n, c) ==
  /\ sock' \in [Node -> [Channel -> {"none", "open", "eof", "reset",
                                     "broken"}]]
  /\ inbox' \in [Node -> [Channel -> Seq(Messages)]]
  /\ \A p \in Node, d \in Channel :
       \/ sock'[p][d] = sock[p][d]
       \/ /\ p = n /\ d = c /\ sock'[p][d] = "broken"
          /\ sock[p][d] \in {"eof", "reset", "broken"}
  /\ \A p \in Node, d \in Channel :
       \/ inbox'[p][d] = inbox[p][d]
       \/ /\ p = n /\ d = c /\ inbox[p][d] # << >>
          /\ Range(inbox'[p][d]) \subseteq Range(inbox[p][d])
       \/ /\ p = peer(n) /\ d = c
          /\ sock[n][c] = "open" /\ Passed(LOCAL_NODE, c)
          /\ Range(inbox'[p][d])
               \subseteq Range(inbox[p][d]) \cup Expected(p, d)

LEMMA Writes ==
  ASSUME IInv, NEW n \in Node, NEW c \in Channel, NEW m \in Messages,
         Write(n, c, m), m \in Expected(peer(n), c),
         sock[n][c] = "open" => Passed(LOCAL_NODE, c)
  PROVE  EndsMove(n, c)
<1>1. peer(n) \in Node /\ inbox[peer(n)][c] \in Seq(Messages)
  BY Nodes DEF IInv, TypeOK
<1>2. CASE /\ sock[n][c] = "open"
           /\ inbox' = [inbox EXCEPT ![peer(n)][c] = Append(@, m)]
           /\ UNCHANGED sock
  <2>1. PICK s \in Seq(Messages) : s = inbox[peer(n)][c]
    BY <1>1
  <2>2. /\ Append(s, m) \in Seq(Messages)
        /\ Range(Append(s, m)) \subseteq Range(s) \cup {m}
    <3>1. /\ DOMAIN Append(s, m) = 1 .. Len(s) + 1 /\ DOMAIN s = 1 .. Len(s)
          /\ Len(s) \in Nat /\ Append(s, m)[Len(s) + 1] = m
          /\ \A i \in 1 .. Len(s) : Append(s, m)[i] = s[i]
          /\ Append(s, m) \in Seq(Messages)
      OBVIOUS
    <3>2. \A i \in 1 .. Len(s) + 1 : i \in 1 .. Len(s) \/ i = Len(s) + 1
      BY <3>1
    <3>3. QED
      BY <3>1, <3>2 DEF Range
  <2>3. inbox' = [inbox EXCEPT ![peer(n)][c] = Append(s, m)]
    BY <1>2, <2>1
  <2>4. inbox' \in [Node -> [Channel -> Seq(Messages)]]
    BY <1>1, <2>2, <2>3 DEF IInv, TypeOK
  <2>5. /\ inbox'[peer(n)][c] = Append(s, m)
        /\ \A p \in Node, d \in Channel :
             p # peer(n) \/ d # c => inbox'[p][d] = inbox[p][d]
    BY <1>1, <2>3 DEF IInv, TypeOK
  <2>6. Range(inbox'[peer(n)][c])
          \subseteq Range(inbox[peer(n)][c]) \cup Expected(peer(n), c)
    BY <2>1, <2>2, <2>5
  <2>7. QED
    BY <1>2, <2>4, <2>5, <2>6 DEF EndsMove, IInv, TypeOK
<1>3. CASE /\ sock[n][c] \in {"eof", "reset"}
           /\ sock' = [sock EXCEPT ![n][c] = "broken"]
           /\ UNCHANGED inbox
  BY <1>3 DEF EndsMove, IInv, TypeOK
<1>4. QED
  BY <1>2, <1>3 DEF Write

LEMMA Reads ==
  ASSUME IInv, NEW n \in Node, NEW c \in Channel,
         (\E m : Read(n, c, m)) \/ ReadNothing(n, c)
  PROVE  EndsMove(n, c)
<1>1. CASE /\ inbox[n][c] # << >>
           /\ inbox' = [inbox EXCEPT ![n][c] = Tail(@)]
           /\ UNCHANGED sock
  <2>1. PICK s \in Seq(Messages) : s = inbox[n][c]
    BY DEF IInv, TypeOK
  <2>2. /\ Tail(s) \in Seq(Messages) /\ Range(Tail(s)) \subseteq Range(s)
    BY <1>1, <2>1, HeadAndTail
  <2>3. inbox' = [inbox EXCEPT ![n][c] = Tail(s)]
    BY <1>1, <2>1
  <2>4. inbox' \in [Node -> [Channel -> Seq(Messages)]]
    BY <2>2, <2>3 DEF IInv, TypeOK
  <2>5. /\ inbox'[n][c] = Tail(s)
        /\ \A p \in Node, d \in Channel :
             p # n \/ d # c => inbox'[p][d] = inbox[p][d]
    BY <2>3 DEF IInv, TypeOK
  <2>6. QED
    BY <1>1, <2>1, <2>2, <2>4, <2>5 DEF EndsMove, IInv, TypeOK
<1>2. CASE ReadNothing(n, c)
  <2>1. CASE sock[n][c] = "reset"
    <3>1. sock' = [sock EXCEPT ![n][c] = "broken"] /\ UNCHANGED inbox
      BY <1>2, <2>1 DEF ReadNothing, IInv, TypeOK
    <3>2. QED
      BY <2>1, <3>1 DEF EndsMove, IInv, TypeOK
  <2>2. CASE sock[n][c] # "reset"
    <3>1. UNCHANGED <<sock, inbox>>
      BY <1>2, <2>2 DEF ReadNothing, IInv, TypeOK
    <3>2. QED
      BY <3>1 DEF EndsMove, IInv, TypeOK
  <2>3. QED
    BY <2>1, <2>2
<1>3. QED
  BY <1>1, <1>2 DEF Read

\* Reads and writes respect the connections.
LEMMA ConnKeeps ==
  ASSUME IInv, NEW n \in Node, NEW c \in Channel, Runs(n), EndsMove(n, c),
         UNCHANGED unmoved
  PROVE  ConnInv'
<1>1. UNCHANGED <<main, at, starts, backlog, client, timewait, swallowed>>
  BY DEF unmoved, ports
<1>2. ASSUME NEW d \in Channel
      PROVE  /\ Met(d)' <=> Met(d)
             /\ Accepted(d)' <=> Accepted(d)
             /\ Passed(LOCAL_NODE, d)' <=> Passed(LOCAL_NODE, d)
             /\ Passed(REMOTE_NODE, d)' <=> Passed(REMOTE_NODE, d)
             /\ Linked(d)' <=> Linked(d)
             /\ Listening(d)' <=> Listening(d)
             /\ Queued(d)' <=> Queued(d)
  BY <1>1 DEF Met, Accepted, Passed, Linked, Live, Listening, here, Queued
<1>3. \A d \in Channel : Passed(n, d) /\ ~Queued(d)
  <2>1. \A d \in Channel : Passed(n, d)
    BY DEF Runs, Passed
  <2>2. n = LOCAL_NODE => \A d \in Channel : ~Queued(d)
    BY DEF Runs, IInv, ConnInv, Waiting
  <2>3. n = REMOTE_NODE => \A d \in Channel : backlog[d] = << >>
    BY DEF Runs, IInv, ConnInv, Waiting, Listening
  <2>4. n = REMOTE_NODE => \A d \in Channel : ~Queued(d)
    BY <2>3 DEF Queued, Range
  <2>5. QED
    BY <2>1, <2>2, <2>4, Nodes
<1>4. sock[n][c] = "open" /\ Passed(LOCAL_NODE, c) =>
        Linked(c) /\ Met(c) /\ Accepted(c) /\ Passed(REMOTE_NODE, c)
  <2>1. sock[n][c] = "open" => Linked(c)
    BY <1>3, Nodes DEF IInv, ConnInv, Links
  <2>2. QED
    BY <2>1 DEF IInv, ConnInv, Links, Met, Accepted
<1>5. ASSUME NEW p \in Node, NEW d \in Channel
      PROVE  /\ sock'[p][d] = "open" <=> sock[p][d] = "open"
             /\ sock'[p][d] = "none" <=> sock[p][d] = "none"
  BY DEF EndsMove
<1>6. Answered' => Answered
  <2>1. n = LOCAL_NODE => ~Answered'
    BY <1>1 DEF Runs, Answered
  <2>2. ASSUME Answered', n = REMOTE_NODE
        PROVE  /\ sock'[LOCAL_NODE][first] = sock[LOCAL_NODE][first]
               /\ inbox'[LOCAL_NODE][first] = inbox[LOCAL_NODE][first]
    <3>1. sock'[LOCAL_NODE][first] = sock[LOCAL_NODE][first]
      BY <2>2, Nodes, Channels DEF EndsMove
    <3>2. c = first => ~Passed(LOCAL_NODE, c)
      BY <1>1, <2>2, Channels DEF Answered, Passed
    <3>3. inbox'[LOCAL_NODE][first] = inbox[LOCAL_NODE][first]
      BY <2>2, <3>2, Nodes, Channels DEF EndsMove
    <3>4. QED
      BY <3>1, <3>3
  <2>3. QED
    BY <1>1, <2>1, <2>2, Nodes DEF Answered
<1>7. ASSUME NEW p \in Node, NEW d \in Channel
      PROVE  \/ Range(inbox'[p][d]) \subseteq Range(inbox[p][d])
             \/ /\ p = peer(n) /\ d = c
                /\ sock[n][c] = "open" /\ Passed(LOCAL_NODE, c)
                /\ Range(inbox'[p][d])
                     \subseteq Range(inbox[p][d]) \cup Expected(p, d)
  BY DEF EndsMove
<1>8. Modes' /\ Clients'
  BY <1>1, <1>2 DEF IInv, ConnInv, Modes, Live, Clients
<1>9. Waiting'
  BY <1>1, <1>2, <1>3 DEF IInv, ConnInv, Waiting
<1>10. NotOvertaken'
  BY <1>1, <1>2, <1>6, Channels DEF IInv, ConnInv, NotOvertaken
<1>11. Links'
  <2> SUFFICES ASSUME NEW d \in Channel
               PROVE  /\ Linked(d) =>
                           /\ sock[LOCAL_NODE][d] = "open" /\ Met(d)
                           /\ \/ Passed(LOCAL_NODE, d)
                              \/ inbox'[LOCAL_NODE][d] # << >>
                              => Passed(REMOTE_NODE, d)
                      /\ sock[REMOTE_NODE][d] = "open" <=> Linked(d)
                      /\ sock[LOCAL_NODE][d] = "open" => Linked(d)
    BY <1>2, <1>5, Nodes DEF Links
  <2>1. \/ inbox'[LOCAL_NODE][d] = inbox[LOCAL_NODE][d]
        \/ d = c /\ inbox[LOCAL_NODE][d] # << >>
        \/ d = c /\ sock[n][c] = "open" /\ Passed(LOCAL_NODE, c)
    BY Nodes DEF EndsMove
  <2>2. QED
    BY <1>3, <1>4, <2>1 DEF IInv, ConnInv, Links
<1>12. Unused'
  <2> SUFFICES ASSUME NEW d \in Channel
               PROVE  /\ sock[LOCAL_NODE][d] = "none" <=> ~Met(d)
                      /\ sock[REMOTE_NODE][d] = "none" <=> ~Accepted(d)
                      /\ ~Met(d) => inbox'[LOCAL_NODE][d] = << >>
                      /\ ~Accepted(d) => inbox'[REMOTE_NODE][d] = << >>
    BY <1>2, <1>5, Nodes DEF Unused
  <2>1. ASSUME NEW p \in Node
        PROVE  \/ inbox'[p][d] = inbox[p][d]
               \/ inbox[p][d] # << >>
               \/ d = c /\ sock[n][c] = "open" /\ Passed(LOCAL_NODE, c)
    BY DEF EndsMove
  <2>2. QED
    BY <1>4, <2>1, Nodes DEF IInv, ConnInv, Unused
<1>13. Streams'
  <2>1. \A d \in Channel :
          /\ Range(inbox'[REMOTE_NODE][d]) \subseteq Expected(REMOTE_NODE, d)
          /\ Range(inbox'[LOCAL_NODE][d]) \subseteq
               IF Passed(LOCAL_NODE, d) THEN Expected(LOCAL_NODE, d)
                                        ELSE {"hello"}
    BY <1>4, <1>7, Nodes DEF IInv, ConnInv, Streams
  <2>2. QED
    BY <1>1, <1>2, <2>1 DEF IInv, ConnInv, Streams, Expected
<1>14. QED
  BY <1>8, <1>9, <1>10, <1>11, <1>12, <1>13 DEF ConnInv

\* A LOCAL process that is reached has had its greeting there: REMOTE is
\* reached by one that waits for its last, or runs once REMOTE has a job.
LEMMA Reaches ==
  ASSUME IInv, NEW n \in Node, Runs(n), NEW c \in Channel,
         sock[n][c] = "open",
         n = REMOTE_NODE => number(c) # 4 \/ fed[n]
  PROVE  Passed(LOCAL_NODE, c)
<1> CASE n = LOCAL_NODE
  BY DEF Runs, Passed
<1> SUFFICES ASSUME n = REMOTE_NODE
             PROVE  Passed(LOCAL_NODE, c)
  BY Nodes
<1>1. Linked(c) /\ \A d \in Channel : client[d] # 0
  BY DEF IInv, ConnInv, Links, Clients, Accepted, Passed, Runs
<1>2. \A d \in Channel : client[d] = client[c]
  BY <1>1 DEF IInv, ConnInv, Clients
<1>3. \A d \in Channel : Linked(d)
  BY <1>1, <1>2 DEF Linked
<1>4. CASE number(c) # 4
  <2>1. PICK d \in Channel : number(d) = 4
    BY Channels
  <2>2. Met(d)
    BY <1>3 DEF IInv, ConnInv, Links
  <2>3. number(c) \in 1 .. 4 /\ at[LOCAL_NODE] \in 1 .. 4
    BY Nodes, Channels DEF IInv, TypeOK
  <2>4. QED
    BY <1>4, <2>1, <2>2, <2>3 DEF Met, Passed
<1>5. CASE fed[REMOTE_NODE]
  <2>1. Linked(first)
    BY <1>3, Channels
  <2>2. QED
    BY <1>5, <2>1 DEF IInv, FedByClient, Passed
<1>6. QED
  BY <1>4, <1>5

\* A step of a thread that neither reads jobs nor queues them.
LEMMA OtherThreads ==
  ASSUME IInv, NEW n \in Node, NEW c \in Channel, Runs(n), EndsMove(n, c),
         UNCHANGED unmoved, UNCHANGED <<reader, fed, strays>>,
         adaptor' \in [Node -> {"decide", "wait"}]
  PROVE  IInv'
<1>1. UNCHANGED <<main, at, starts, backlog, client, timewait, swallowed>>
  BY DEF unmoved, ports
<1>2. ConnInv'
  BY ConnKeeps
<1>3. TypeOK'
  BY <1>1 DEF EndsMove, IInv, TypeOK
<1>4. FedByClient'
  <2>1. CASE n = LOCAL_NODE
    BY <1>1, <2>1 DEF Runs, FedByClient
  <2>2. CASE n = REMOTE_NODE
    <3>1. inbox'[REMOTE_NODE][first] # << >>
            => inbox[REMOTE_NODE][first] # << >>
      BY <2>2, Nodes, Channels DEF EndsMove
    <3>2. Linked(first)' <=> Linked(first)
      BY <1>1 DEF Linked, Live
    <3>3. QED
      BY <1>1, <3>1, <3>2 DEF IInv, FedByClient
  <2>3. QED
    BY <2>1, <2>2, Nodes
<1>5. Strays'
  <2>1. ASSUME NEW p \in Node
        PROVE  sock'[p][in_data(p)] \in {sock[p][in_data(p)], "broken"}
    <3>1. in_data(p) \in Channel
      BY Channels
    <3>2. QED
      BY <3>1 DEF EndsMove
  <2>2. \A p \in Node : Runs(p)' <=> Runs(p)
    BY <1>1 DEF Runs
  <2>3. QED
    BY <2>1, <2>2 DEF IInv, Strays
<1>6. QED
  BY <1>2, <1>3, <1>4, <1>5 DEF IInv

LEMMA ExitKeeps ==
  ASSUME IInv, NEW n \in Node, Exit(n)
  PROVE  IInv'
  BY Nodes, ExitLocal, ExitRemote

LEMMA SendState ==
  ASSUME IInv, NEW n \in Node, send_state(n)
  PROVE  IInv'
<1>1. out_state(n) \in Channel /\ Runs(n) /\ "state" \in Messages
  BY Channels DEF send_state, Messages
<1>2. CASE Killed(n, out_state(n))
  BY <1>2, ExitKeeps DEF Killed
<1>3. CASE /\ Write(n, out_state(n), "state")
           /\ UNCHANGED <<unmoved, threads>>
  <2>1. EndsMove(n, out_state(n))
    <3>1. "state" \in Expected(peer(n), out_state(n))
      BY Expectations, Nodes
    <3>2. n = REMOTE_NODE => number(out_state(n)) # 4
      BY Nodes DEF out_state, number
    <3>3. sock[n][out_state(n)] = "open" => Passed(LOCAL_NODE, out_state(n))
      BY <1>1, <3>2, Reaches
    <3>4. QED
      BY <1>1, <1>3, <3>1, <3>3, Writes
  <2>2. /\ UNCHANGED unmoved /\ UNCHANGED <<reader, fed, strays>>
        /\ adaptor' \in [Node -> {"decide", "wait"}]
    BY <1>3 DEF threads, IInv, TypeOK
  <2>3. QED
    BY <1>1, <2>1, <2>2, OtherThreads
<1>4. QED
  BY <1>2, <1>3 DEF send_state

LEMMA StateRead ==
  ASSUME IInv, NEW n \in Node, state_read_thread(n)
  PROVE  IInv'
<1>1. in_state(n) \in Channel /\ Runs(n)
  BY Channels DEF state_read_thread
<1>2. EndsMove(n, in_state(n))
  BY <1>1, Reads DEF state_read_thread
<1>3. /\ UNCHANGED unmoved /\ UNCHANGED <<reader, fed, strays>>
      /\ adaptor' \in [Node -> {"decide", "wait"}]
  BY DEF state_read_thread, threads, IInv, TypeOK
<1>4. QED
  BY <1>1, <1>2, <1>3, OtherThreads

LEMMA TransferKeeps ==
  ASSUME IInv, NEW n \in Node, Transfer(n)
  PROVE  IInv'
<1>1. out_data(n) \in Channel /\ Runs(n) /\ fed[n] /\ "job" \in Messages
  BY Channels DEF Transfer, Messages
<1>2. CASE Killed(n, out_data(n))
  BY <1>2, ExitKeeps DEF Killed
<1>3. CASE /\ Write(n, out_data(n), "job")
           /\ adaptor' = [adaptor EXCEPT ![n] = "wait"]
           /\ UNCHANGED <<unmoved, reader, fed, strays>>
  <2>1. EndsMove(n, out_data(n))
    <3>1. "job" \in Expected(peer(n), out_data(n))
      BY Expectations, Nodes
    <3>2. sock[n][out_data(n)] = "open" => Passed(LOCAL_NODE, out_data(n))
      BY <1>1, Reaches
    <3>3. QED
      BY <1>1, <1>3, <3>1, <3>2, Writes
  <2>2. /\ UNCHANGED unmoved /\ UNCHANGED <<reader, fed, strays>>
        /\ adaptor' \in [Node -> {"decide", "wait"}]
    BY <1>3 DEF IInv, TypeOK
  <2>3. QED
    BY <1>1, <2>1, <2>2, OtherThreads
<1>4. QED
  BY <1>2, <1>3 DEF Transfer

LEMMA TransferredKeeps ==
  ASSUME IInv, NEW n \in Node, Transferred(n)
  PROVE  IInv'
<1>1. out_data(n) \in Channel /\ Runs(n)
  BY Channels DEF Transferred
<1>2. EndsMove(n, out_data(n))
  BY <1>1, Reads DEF Transferred
<1>3. /\ UNCHANGED unmoved /\ UNCHANGED <<reader, fed, strays>>
      /\ adaptor' \in [Node -> {"decide", "wait"}]
  BY DEF Transferred, IInv, TypeOK
<1>4. QED
  BY <1>1, <1>2, <1>3, OtherThreads

LEMMA ReadJobKeeps ==
  ASSUME IInv, NEW n \in Node, ReadJob(n)
  PROVE  IInv'
<1>1. in_data(n) \in Channel /\ Runs(n)
  BY Channels DEF ReadJob
<1>2. EndsMove(n, in_data(n))
  BY <1>1, Reads DEF ReadJob
<1>3. /\ UNCHANGED <<main, at, starts, backlog, client, timewait, swallowed>>
      /\ UNCHANGED unmoved /\ UNCHANGED <<adaptor, fed, strays>>
  BY DEF ReadJob, unmoved, ports
<1>4. \A p \in Node : Runs(p)' <=> Runs(p)
  BY <1>3 DEF Runs
<1>5. \/ /\ inbox[n][in_data(n)] # << >>
         /\ reader' = [reader EXCEPT ![n] = "fresh"]
      \/ /\ sock'[n][in_data(n)] \in {"eof", "broken"}
         /\ sock[n][in_data(n)] # "open"
         /\ reader' = [reader EXCEPT ![n] = "stale"]
  BY <1>1 DEF ReadJob, Read, ReadNothing, IInv, TypeOK
<1>6. /\ reader' \in [Node -> {"read", "fresh", "stale"}]
      /\ reader'[n] \in {"fresh", "stale"}
      /\ reader'[n] = "stale" => sock'[n][in_data(n)] \in {"eof", "broken"}
      /\ \A p \in Node : p # n => reader'[p] = reader[p]
  BY <1>5 DEF IInv, TypeOK
<1>7. TypeOK'
  BY <1>2, <1>3, <1>6 DEF EndsMove, IInv, TypeOK
<1>8. ConnInv'
  BY <1>1, <1>2, <1>3, ConnKeeps
<1>9. FedByClient'
  <2>1. Linked(first)' <=> Linked(first)
    BY <1>3 DEF Linked, Live
  <2>2. CASE n = LOCAL_NODE
    BY <1>1, <1>3, <2>2 DEF Runs, FedByClient
  <2>3. CASE n = REMOTE_NODE
    <3>1. in_data(n) = first
      BY <2>3, Nodes DEF in_data, first
    <3>2. Linked(first) => inbox[n][first] # << >>
      BY <1>5, <2>3, <3>1, Channels DEF IInv, ConnInv, Links
    <3>3. QED
      BY <1>3, <2>1, <2>3, <3>2 DEF IInv, FedByClient
  <2>4. QED
    BY <2>2, <2>3, Nodes
<1>10. Strays'
  <2> SUFFICES ASSUME NEW p \in Node
               PROVE  /\ ~Runs(p) => reader'[p] = "read" /\ strays[p] = 0
                      /\ ~Runs(p) /\ p = REMOTE_NODE => ~fed[p]
                      /\ reader'[p] = "stale"
                           => sock'[p][in_data(p)] \in {"eof", "broken"}
                      /\ strays[p] # 0 => /\ strays[p] = 1
                                          /\ sock'[p][in_data(p)] = "broken"
    BY <1>3, <1>4 DEF Strays
  <2>1. sock'[p][in_data(p)] \in {sock[p][in_data(p)], "broken"}
    <3>1. in_data(p) \in Channel
      BY Channels
    <3>2. QED
      BY <1>2, <3>1 DEF EndsMove
  <2>2. CASE p = n
    BY <1>1, <1>6, <2>1, <2>2 DEF IInv, Strays
  <2>3. CASE p # n
    BY <1>6, <2>1, <2>3 DEF IInv, Strays
  <2>4. QED
    BY <2>2, <2>3
<1>11. QED
  BY <1>7, <1>8, <1>9, <1>10 DEF IInv

LEMMA KeepJobKeeps ==
  ASSUME IInv, NEW n \in Node, KeepJob(n)
  PROVE  IInv'
<1>1. /\ in_data(n) \in Channel /\ Runs(n) /\ "ack" \in Messages
      /\ reader[n] # "read"
  BY Channels DEF KeepJob, Messages
<1>2. CASE Killed(n, in_data(n))
  BY <1>2, ExitKeeps DEF Killed
<1>3. CASE /\ Write(n, in_data(n), "ack")
           /\ fed' = [fed EXCEPT ![n] = TRUE]
           /\ strays' = [strays EXCEPT ![n] =
                            IF reader[n] = "stale" THEN @ + 1 ELSE @]
           /\ reader' = [reader EXCEPT ![n] = "read"]
           /\ UNCHANGED <<unmoved, adaptor>>
  <2>1. EndsMove(n, in_data(n))
    <3>1. "ack" \in Expected(peer(n), in_data(n))
      BY Expectations, Nodes
    <3>2. n = REMOTE_NODE => number(in_data(n)) # 4
      BY Nodes DEF in_data, number
    <3>3. sock[n][in_data(n)] = "open" => Passed(LOCAL_NODE, in_data(n))
      BY <1>1, <3>2, Reaches
    <3>4. QED
      BY <1>1, <1>3, <3>1, <3>3, Writes
  <2>2. /\ UNCHANGED <<main, at, starts, backlog, client, timewait, swallowed>>
        /\ UNCHANGED unmoved /\ UNCHANGED adaptor
    BY <1>3 DEF unmoved, ports
  <2>3. \A p \in Node : Runs(p)' <=> Runs(p)
    BY <2>2 DEF Runs
  <2>4. /\ fed' \in [Node -> BOOLEAN]
        /\ \A p \in Node : p # n => fed'[p] = fed[p]
    BY <1>3 DEF IInv, TypeOK
  <2>5. /\ reader' \in [Node -> {"read", "fresh", "stale"}]
        /\ reader'[n] = "read"
        /\ \A p \in Node : p # n => reader'[p] = reader[p]
    BY <1>3 DEF IInv, TypeOK
  <2>6. /\ strays[n] = 0
        /\ reader[n] = "stale" => sock'[n][in_data(n)] = "broken"
    <3>1. sock[n][in_data(n)] # "broken"
      BY <1>3 DEF Write
    <3>2. sock[n][in_data(n)] = "eof" => sock'[n][in_data(n)] = "broken"
      BY <1>1, <1>3 DEF Write, IInv, TypeOK
    <3>3. QED
      BY <3>1, <3>2 DEF IInv, Strays
  <2>7. /\ strays'[n] = IF reader[n] = "stale" THEN 1 ELSE 0
        /\ strays' \in [Node -> Nat]
        /\ \A p \in Node : p # n => strays'[p] = strays[p]
    BY <1>3, <2>6 DEF IInv, TypeOK
  <2>8. TypeOK'
    BY <2>1, <2>2, <2>4, <2>5, <2>7 DEF EndsMove, IInv, TypeOK
  <2>9. ConnInv'
    BY <1>1, <2>1, <2>2, ConnKeeps
  <2>10. FedByClient'
    <3>1. Linked(first)' <=> Linked(first)
      BY <2>2 DEF Linked, Live
    <3>2. CASE n = LOCAL_NODE
      BY <1>1, <2>2, <3>2 DEF Runs, FedByClient
    <3>3. CASE n = REMOTE_NODE
      BY <1>1, <2>2, <3>1, <3>3 DEF IInv, FedByClient
    <3>4. QED
      BY <3>2, <3>3, Nodes
  <2>11. Strays'
    <3> SUFFICES ASSUME NEW p \in Node
                 PROVE  /\ ~Runs(p) => reader'[p] = "read" /\ strays'[p] = 0
                        /\ ~Runs(p) /\ p = REMOTE_NODE => ~fed'[p]
                        /\ reader'[p] = "stale"
                             => sock'[p][in_data(p)] \in {"eof", "broken"}
                        /\ strays'[p] # 0
                             => /\ strays'[p] = 1
                                /\ sock'[p][in_data(p)] = "broken"
      BY <2>3 DEF Strays
    <3>1. CASE p = n
      BY <1>1, <2>5, <2>6, <2>7, <3>1
    <3>2. CASE p # n
      <4>1. sock'[p][in_data(p)] = sock[p][in_data(p)]
        BY <2>1, <3>2, Channels DEF EndsMove
      <4>2. QED
        BY <2>4, <2>5, <2>7, <3>2, <4>1 DEF IInv, Strays
    <3>3. QED
      BY <3>1, <3>2
  <2>12. QED
    BY <2>8, <2>9, <2>10, <2>11 DEF IInv
<1>4. QED
  BY <1>2, <1>3 DEF KeepJob

-----------------------------------------------------------------------------

LEMMA NextIInv == IInv /\ [Next]_vars => IInv'
<1> SUFFICES ASSUME IInv, [Next]_vars PROVE IInv'
  OBVIOUS
<1>1. ASSUME NEW n \in Node, Start(n) PROVE IInv'
  BY <1>1, StartLocal, StartRemote, Nodes
<1>2. ASSUME NEW n \in Node, Kill(n) PROVE IInv'
  BY <1>2, ExitKeeps DEF Kill
<1>3. ASSUME NEW n \in Node, thread(n) PROVE IInv'
  BY <1>3, SendState, StateRead, TransferKeeps, TransferredKeeps,
     ReadJobKeeps, KeepJobKeeps DEF thread
<1>4. ASSUME create_channel PROVE IInv'
  <2>1. BindFails => Exit(REMOTE_NODE)
    BY DEF BindFails
  <2>2. QED
    BY <1>4, <2>1, BindKeeps, ExitRemote, AcceptKeeps, GreetKeeps
    DEF create_channel
<1>5. ASSUME join_channel PROVE IInv'
  <2>1. ConnectFails \/ GreetingFails => Exit(LOCAL_NODE)
    BY DEF ConnectFails, GreetingFails
  <2>2. QED
    BY <1>5, <2>1, ConnectKeeps, ExitLocal, GreetedKeeps DEF join_channel
<1>6. ASSUME NEW c \in Channel, TimeWaitOver(c) PROVE IInv'
  BY <1>6, TimeWaitKeeps
<1>7. CASE UNCHANGED vars
  <2>1. UNCHANGED <<main, at, starts, sock, inbox, backlog, client, timewait,
                    adaptor, reader, fed, strays, swallowed>>
    BY <1>7 DEF vars, ends, ports, threads
  <2>2. TypeOK'
    BY <2>1 DEF IInv, TypeOK
  <2>3. /\ \A n \in Node : /\ Live(n)' <=> Live(n)
                           /\ \A c \in Channel : Passed(n, c)' <=> Passed(n, c)
        /\ Answered' <=> Answered
        /\ \A c \in Channel :
             /\ Met(c)' <=> Met(c)
             /\ Accepted(c)' <=> Accepted(c)
             /\ Linked(c)' <=> Linked(c)
             /\ Queued(c)' <=> Queued(c)
             /\ Listening(c)' <=> Listening(c)
    BY <2>1
    DEF Live, Passed, Answered, Met, Accepted, Linked, Queued,
        Listening, here
  <2>4. ConnInv'
    <3>1. Modes' /\ Clients'
      BY <2>1, <2>3 DEF IInv, ConnInv, Modes, Clients
    <3>2. Waiting'
      BY <2>1, <2>3 DEF IInv, ConnInv, Waiting
    <3>3. NotOvertaken'
      BY <2>1, <2>3, Nodes, Channels DEF IInv, ConnInv, NotOvertaken
    <3>4. Links'
      BY <2>1, <2>3, Nodes DEF IInv, ConnInv, Links
    <3>5. Unused'
      BY <2>1, <2>3 DEF IInv, ConnInv, Unused
    <3>6. Streams'
      BY <2>1, <2>3, Nodes DEF IInv, ConnInv, Streams, Expected
    <3>7. QED
      BY <3>1, <3>2, <3>3, <3>4, <3>5, <3>6 DEF ConnInv
  <2>5. FedByClient' /\ Strays'
    BY <2>1 DEF IInv, FedByClient, Strays, Linked, Live, Runs
  <2>6. QED
    BY <2>2, <2>4, <2>5 DEF IInv
<1>8. QED
  BY <1>1, <1>2, <1>3, <1>4, <1>5, <1>6, <1>7 DEF Next

LEMMA SpecIInv == Spec => []IInv
  BY InitIInv, NextIInv, PTL DEF Spec

\* Whatever is killed and started again, the state has its type, for any
\* number of starts.
THEOREM TypeCorrect == Spec => []TypeOK
  BY SpecIInv, PTL DEF IInv

\* The four ports of create_channel are accepted one by one, and yet all four
\* connections of a REMOTE process are to one LOCAL process.
THEOREM OneClientServed == Spec => []OneClient
<1>1. IInv => OneClient
  <2> SUFFICES ASSUME IInv PROVE OneClient
    OBVIOUS
  <2>1. \A c, d \in Channel :
          client[c] # 0 /\ client[d] # 0 => client[c] = client[d]
    BY DEF IInv, ConnInv, Clients
  <2>2. ASSUME \A n \in Node : Runs(n), NEW c \in Channel
        PROVE  /\ client[c] = starts[LOCAL_NODE]
               /\ \A n \in Node : sock[n][c] # "none"
    <3>1. Passed(LOCAL_NODE, c) /\ Passed(REMOTE_NODE, c)
      BY <2>2, Nodes DEF Runs, Passed
    <3>2. Passed(LOCAL_NODE, first)
      BY <2>2, Nodes DEF Runs, Passed
    <3>3. client[c] # 0
      BY <3>1 DEF IInv, ConnInv, Clients, Accepted
    <3>4. client[c] = starts[LOCAL_NODE]
      BY <3>2, <3>3 DEF IInv, ConnInv, NotOvertaken
    <3>5. sock[LOCAL_NODE][c] # "none" /\ sock[REMOTE_NODE][c] # "none"
      BY <3>1 DEF IInv, ConnInv, Unused, Met, Accepted
    <3>6. QED
      BY <3>4, <3>5, Nodes
  <2>3. QED
    BY <2>1, <2>2 DEF OneClient
<1>2. QED
  BY <1>1, SpecIInv, PTL

\* The greeting of create_channel and the messages of the threads share a
\* connection without a mark, and read of join_channel takes whatever is
\* there; still neither is ever taken for the other.
THEOREM StreamsAreIntact == Spec => []StreamsIntact
<1>1. IInv => StreamsIntact
  BY Nodes DEF IInv, ConnInv, Streams, StreamsIntact, Runs, Passed
<1>2. QED
  BY <1>1, SpecIInv, PTL

\* comm_read_thread ignores the end of the connection and queues what is in
\* its buffer, but its own acknowledgement stops it before it does so twice.
THEOREM StrayAtMostOnce == Spec => []AtMostOneStray
<1>1. IInv => AtMostOneStray
  <2> SUFFICES ASSUME IInv, NEW n \in Node PROVE strays[n] <= 1
    BY DEF AtMostOneStray
  <2>1. strays[n] = 0 \/ strays[n] = 1
    BY DEF IInv, Strays
  <2>2. QED
    BY <2>1
<1>2. QED
  BY <1>1, SpecIInv, PTL
=============================================================================

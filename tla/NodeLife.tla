------------------------------- MODULE NodeLife -------------------------------
(***************************************************************************)
(* How the two MP4 nodes find and lose each other (mp4/networking.c,       *)
(* local_node.c, comms.c).  REMOTE is the server of four ports, one after  *)
(* the other; LOCAL connects to them one after the other and waits on each *)
(* for a greeting.  Then the threads run, until a process is killed, an    *)
(* error ends it, or it writes to a connection that is gone.  Either can   *)
(* be started again.                                                       *)
(*                                                                         *)
(* LoadBalancer has what the threads decide; here a transfer may happen    *)
(* whenever there is a job, and what counts is what becomes of the four    *)
(* connections.  External is the kernel's part: a process that ends closes *)
(* its sockets, with a reset if it leaves something unread; a connection   *)
(* that was closed by REMOTE keeps the port from being bound for a while.  *)
(* A socket is                                                             *)
(*   "none"    not connected,                                              *)
(*   "open"    connected, from LOCAL's side also if not yet accepted,      *)
(*   "eof"     closed by the peer: read returns 0, the first write passes, *)
(*   "reset"   reset by the peer: the next call fails with an error,       *)
(*   "broken"  known to be gone: read returns 0, write raises SIGPIPE.     *)
(***************************************************************************)
EXTENDS Integers, Sequences, Functions

CONSTANTS
  LOCAL_NODE, REMOTE_NODE,  \* the builds with LOCAL and with REMOTE defined
  MaxStarts,                \* bound: how often each program is started
  StateCap                  \* bound: state messages unread on a connection

ASSUME LifeAssumption == /\ LOCAL_NODE # REMOTE_NODE
                         /\ MaxStarts \in Nat \ {0}
                         /\ StateCap \in Nat \ {0}

Node == {LOCAL_NODE, REMOTE_NODE}

peer(n) == IF n = LOCAL_NODE THEN REMOTE_NODE ELSE LOCAL_NODE

\* The ports, each standing for the connection made to it.
Channel == {"LtoR_DATA", "LtoR_STATE", "RtoL_STATE", "RtoL_DATA"}

\* Faulty: the states of REMOTE come last.
StatesLast == <<"LtoR_DATA", "LtoR_STATE", "RtoL_DATA", "RtoL_STATE">>

\* The order in which LOCAL joins the channels, and REMOTE creates them.
main_order == <<"LtoR_DATA", "LtoR_STATE", "RtoL_STATE", "RtoL_DATA">>

out_data(n)  == IF n = LOCAL_NODE THEN "LtoR_DATA"  ELSE "RtoL_DATA"
in_data(n)   == IF n = LOCAL_NODE THEN "RtoL_DATA"  ELSE "LtoR_DATA"
out_state(n) == IF n = LOCAL_NODE THEN "LtoR_STATE" ELSE "RtoL_STATE"
in_state(n)  == IF n = LOCAL_NODE THEN "RtoL_STATE" ELSE "LtoR_STATE"

VARIABLES
  main,      \* where main of each process is; "off" when there is none
  at,        \* which channel of main_order it is at
  starts,    \* how often each program has been started
  sock,      \* each process's end of each channel
  backlog,   \* per port, the LOCAL processes whose connections wait in listen
  client,    \* per port, the LOCAL process this REMOTE process accepted
  timewait,  \* the ports that cannot be bound
  inbox,     \* per node and channel, the messages not yet read
  adaptor,   \* where adaptor_thread is
  reader,    \* where comm_read_thread is, and what its buffer holds
  fed,       \* the node has, or has had, jobs in its queue
  swallowed, \* history: LOCAL read something along with a greeting
  strays     \* history: jobs queued by this process that no peer sent it

ends == <<sock, inbox>>
threads == <<adaptor, reader, fed, strays>>
ports == <<backlog, client, timewait>>

vars == <<main, at, starts, ends, ports, threads, swallowed>>

NoneOf(x) == [c \in Channel |-> x]

Init == /\ main = [n \in Node |-> "off"]
        /\ at = [n \in Node |-> 1]
        /\ starts = [n \in Node |-> 0]
        /\ sock = [n \in Node |-> NoneOf("none")]
        /\ backlog = NoneOf(<< >>)
        /\ client = NoneOf(0)
        /\ timewait = {}
        /\ inbox = [n \in Node |-> NoneOf(<< >>)]
        /\ adaptor = [n \in Node |-> "decide"]
        /\ reader = [n \in Node |-> "read"]
        /\ fed = [n \in Node |-> FALSE]
        /\ swallowed = FALSE
        /\ strays = [n \in Node |-> 0]

-----------------------------------------------------------------------------
\* Sockets (external)

\* The channel main of n is at.
here(n) == main_order[at[n]]

Listening(c) == /\ main[REMOTE_NODE] \in {"accept", "hello"}
                /\ here(REMOTE_NODE) = c

\* LOCAL has connected to port c and waits to be accepted.
Queued(c) == /\ main[LOCAL_NODE] # "off"
             /\ starts[LOCAL_NODE] \in Range(backlog[c])

\* What the peer of n makes of n closing channel c.
HungUp(n, c) ==
  IF sock[peer(n)][c] # "open" THEN sock[peer(n)][c]
  ELSE IF Queued(c) \/ inbox[n][c] # << >> THEN "reset" ELSE "eof"

\* The process of n ends, by kill, exit or SIGPIPE, and its sockets with it.
\* A connection that waits to be accepted stays in the backlog.
Exit(n) ==
  /\ main' = [main EXCEPT ![n] = "off"]
  /\ at' = [at EXCEPT ![n] = 1]
  /\ sock' = [sock EXCEPT ![n] = NoneOf("none"),
                          ![peer(n)] = [c \in Channel |-> HungUp(n, c)]]
  /\ inbox' = [inbox EXCEPT ![n] = NoneOf(<< >>)]
  /\ adaptor' = [adaptor EXCEPT ![n] = "decide"]
  /\ reader' = [reader EXCEPT ![n] = "read"]
  /\ fed' = [fed EXCEPT ![n] = FALSE]
  /\ strays' = [strays EXCEPT ![n] = 0]
  /\ IF n = REMOTE_NODE
       THEN /\ backlog' = NoneOf(<< >>)
            /\ client' = NoneOf(0)
            /\ timewait' = timewait \cup
                 {c \in Channel : sock[n][c] = "open" /\ inbox[n][c] = << >>}
            /\ UNCHANGED swallowed
       ELSE swallowed' = FALSE /\ UNCHANGED ports
  /\ UNCHANGED starts

\* write returns, whatever it returns.
Write(n, c, m) ==
  \/ /\ sock[n][c] = "open"
     /\ inbox' = [inbox EXCEPT ![peer(n)][c] = Append(@, m)]
     /\ UNCHANGED sock
  \/ /\ sock[n][c] \in {"eof", "reset"}
     /\ sock' = [sock EXCEPT ![n][c] = "broken"]
     /\ UNCHANGED inbox

\* write raises SIGPIPE, which nobody handles.
Killed(n, c) == sock[n][c] = "broken" /\ Exit(n)

\* read returns message m.
Read(n, c, m) == /\ inbox[n][c] # << >>
                 /\ m = Head(inbox[n][c])
                 /\ inbox' = [inbox EXCEPT ![n][c] = Tail(@)]
                 /\ UNCHANGED sock

\* read returns 0 or -1 and leaves the buffer as it is.
ReadNothing(n, c) ==
  /\ inbox[n][c] = << >>
  /\ sock[n][c] \in {"eof", "reset", "broken"}
  /\ sock' = [sock EXCEPT ![n][c] = IF @ = "reset" THEN "broken" ELSE @]
  /\ UNCHANGED inbox

-----------------------------------------------------------------------------
\* main up to the creation of the threads

mainGoes(n, from, to) == main[n] = from /\ main' = [main EXCEPT ![n] = to]

\* Faulty: at goes on counting.
RunsPastTheEnd(n, from, first) ==
  /\ mainGoes(n, from, IF at[n] = Len(main_order) THEN "run" ELSE first)
  /\ at' = [at EXCEPT ![n] = @ + 1]

\* Channel here(n) is done; first is what main does with the next one.
NextChannel(n, from, first) ==
  /\ mainGoes(n, from, IF at[n] = Len(main_order) THEN "run" ELSE first)
  /\ at' = [at EXCEPT ![n] = IF @ = Len(main_order) THEN 1 ELSE @ + 1]

Start(n) == /\ starts[n] < MaxStarts
            /\ mainGoes(n, "off", IF n = LOCAL_NODE THEN "connect" ELSE "bind")
            /\ starts' = [starts EXCEPT ![n] = @ + 1]
            /\ UNCHANGED <<at, ends, ports, threads, swallowed>>

\* ^C: the programs end in no other way of their own.
Kill(n) == main[n] # "off" /\ Exit(n)

\* create_channel: socket, bind, listen.
Bind == /\ here(REMOTE_NODE) \notin timewait
        /\ mainGoes(REMOTE_NODE, "bind", "accept")
        /\ UNCHANGED <<at, starts, ends, ports, threads, swallowed>>

BindFails == /\ main[REMOTE_NODE] = "bind"
             /\ here(REMOTE_NODE) \in timewait
             /\ Exit(REMOTE_NODE)

\* The oldest connection is accepted, that of a process that has ended too.
Accept ==
  LET c == here(REMOTE_NODE) IN
    /\ backlog[c] # << >>
    /\ mainGoes(REMOTE_NODE, "accept", "hello")
    /\ client' = [client EXCEPT ![c] = Head(backlog[c])]
    /\ sock' = [sock EXCEPT ![REMOTE_NODE][c] =
                  IF /\ main[LOCAL_NODE] # "off"
                     /\ Head(backlog[c]) = starts[LOCAL_NODE]
                    THEN "open" ELSE "eof"]
    /\ backlog' = [backlog EXCEPT ![c] = Tail(@)]
    /\ UNCHANGED <<at, starts, inbox, timewait, threads, swallowed>>

\* Faulty: create_channel returns without a word to the client.
GreetsNobody ==
  LET c == here(REMOTE_NODE) IN
    /\ NextChannel(REMOTE_NODE, "hello", "bind")
    /\ sock' = [sock EXCEPT ![LOCAL_NODE][c] =
                  IF Queued(c) THEN "reset" ELSE @]
    /\ backlog' = [backlog EXCEPT ![c] = << >>]
    /\ UNCHANGED <<starts, inbox, client, timewait, threads, swallowed>>

\* The greeting, and the end of the listening socket, which resets who else
\* has connected.  The process accepted before may have ended already.
Greet ==
  LET c == here(REMOTE_NODE) IN
    /\ NextChannel(REMOTE_NODE, "hello", "bind")
    /\ IF sock[REMOTE_NODE][c] = "open"
         THEN /\ inbox' = [inbox EXCEPT ![LOCAL_NODE][c] = Append(@, "hello")]
              /\ UNCHANGED sock
         ELSE /\ sock' = [sock EXCEPT ![REMOTE_NODE][c] = "broken",
                                      ![LOCAL_NODE][c] =
                                         IF Queued(c) THEN "reset" ELSE @]
              /\ UNCHANGED inbox
    /\ backlog' = [backlog EXCEPT ![c] = << >>]
    /\ UNCHANGED <<starts, client, timewait, threads, swallowed>>

create_channel == Bind \/ BindFails \/ Accept \/ Greet

\* join_channel: connect, which fails unless REMOTE is at this very port.
Connect ==
  LET c == here(LOCAL_NODE) IN
    /\ Listening(c)
    /\ mainGoes(LOCAL_NODE, "connect", "greet")
    /\ sock' = [sock EXCEPT ![LOCAL_NODE][c] = "open"]
    /\ backlog' = [backlog EXCEPT ![c] = Append(@, starts[LOCAL_NODE])]
    /\ UNCHANGED <<at, starts, inbox, client, timewait, threads, swallowed>>

ConnectFails == /\ main[LOCAL_NODE] = "connect"
                /\ ~Listening(here(LOCAL_NODE))
                /\ Exit(LOCAL_NODE)

\* One read of up to 255 bytes takes all there is; 0 bytes will do as well.
Greeted ==
  LET c == here(LOCAL_NODE)
      got == inbox[LOCAL_NODE][c] IN
    /\ NextChannel(LOCAL_NODE, "greet", "connect")
    /\ got # << >> \/ sock[LOCAL_NODE][c] = "eof"
    /\ inbox' = [inbox EXCEPT ![LOCAL_NODE][c] = << >>]
    /\ swallowed' = (swallowed \/ \E m \in Range(got) : m # "hello")
    /\ fed' = [fed EXCEPT ![LOCAL_NODE] = (at[LOCAL_NODE] = Len(main_order))]
    /\ UNCHANGED <<starts, sock, ports, adaptor, reader, strays>>

\* Faulty: an error of read does not matter.
ErrorIgnored ==
  LET c == here(LOCAL_NODE) IN
    /\ NextChannel(LOCAL_NODE, "greet", "connect")
    /\ ReadNothing(LOCAL_NODE, c) /\ sock[LOCAL_NODE][c] = "reset"
    /\ UNCHANGED <<starts, ports, threads, swallowed>>

GreetingFails == LET c == here(LOCAL_NODE) IN
                   /\ main[LOCAL_NODE] = "greet"
                   /\ inbox[LOCAL_NODE][c] = << >>
                   /\ sock[LOCAL_NODE][c] = "reset"
                   /\ Exit(LOCAL_NODE)

join_channel == Connect \/ ConnectFails \/ Greeted \/ GreetingFails

-----------------------------------------------------------------------------
\* The threads of a running node.  Each is in a loop that ignores what read
\* and write return.

\* Faulty: the threads end when the peer is gone, and the process does not.
RunsConnected(n) == main[n] = "run" /\ sock[n][out_state(n)] = "open"

Runs(n) == main[n] = "run"

unmoved == <<main, at, starts, ports, swallowed>>

\* How many states lie unread at n's end of channel c.
Unread(n, c) == Len(SelectSeq(inbox[n][c], LAMBDA m : m = "state"))

send_state(n) ==
  /\ Runs(n)
  /\ LET c == out_state(n) IN
       \/ /\ Unread(peer(n), c) < StateCap
          /\ Write(n, c, "state")
          /\ UNCHANGED <<unmoved, threads>>
       \/ Killed(n, c)

\* Nothing changes when read returns 0: the last state is parsed again.
state_read_thread(n) ==
  /\ Runs(n)
  /\ \/ Read(n, in_state(n), "state")
     \/ ReadNothing(n, in_state(n)) /\ sock[n][in_state(n)] = "reset"
  /\ UNCHANGED <<unmoved, threads>>

\* transfer_job, in two steps.
Transfer(n) ==
  /\ Runs(n) /\ fed[n] /\ adaptor[n] = "decide"
  /\ \/ /\ Write(n, out_data(n), "job")
        /\ adaptor' = [adaptor EXCEPT ![n] = "wait"]
        /\ UNCHANGED <<unmoved, reader, fed, strays>>
     \/ Killed(n, out_data(n))

\* The end of the connection will do for an acknowledgement.
Transferred(n) ==
  /\ Runs(n) /\ adaptor[n] = "wait"
  /\ Read(n, out_data(n), "ack") \/ ReadNothing(n, out_data(n))
  /\ adaptor' = [adaptor EXCEPT ![n] = "decide"]
  /\ UNCHANGED <<unmoved, reader, fed, strays>>

\* comm_read_thread reads, a job or nothing.
ReadJob(n) ==
  /\ Runs(n) /\ reader[n] = "read"
  /\ \/ /\ Read(n, in_data(n), "job")
        /\ reader' = [reader EXCEPT ![n] = "fresh"]
     \/ /\ ReadNothing(n, in_data(n))
        /\ reader' = [reader EXCEPT ![n] = "stale"]
  /\ UNCHANGED <<unmoved, adaptor, fed, strays>>

\* Faulty: the job is queued without an acknowledgement.
KeepJobSilently(n) ==
  /\ Runs(n) /\ reader[n] # "read"
  /\ fed' = [fed EXCEPT ![n] = TRUE]
  /\ strays' = [strays EXCEPT ![n] =
                   IF reader[n] = "stale" THEN @ + 1 ELSE @]
  /\ reader' = [reader EXCEPT ![n] = "read"]
  /\ UNCHANGED <<unmoved, ends, adaptor>>

\* It acknowledges and queues whatever is in its buffer: after the end of the
\* connection the last job again, or what was on the stack before the first.
KeepJob(n) ==
  /\ Runs(n) /\ reader[n] # "read"
  /\ \/ /\ Write(n, in_data(n), "ack")
        /\ fed' = [fed EXCEPT ![n] = TRUE]
        /\ strays' = [strays EXCEPT ![n] =
                         IF reader[n] = "stale" THEN @ + 1 ELSE @]
        /\ reader' = [reader EXCEPT ![n] = "read"]
        /\ UNCHANGED <<unmoved, adaptor>>
     \/ Killed(n, in_data(n))

thread(n) == \/ send_state(n) \/ state_read_thread(n)
             \/ Transfer(n) \/ Transferred(n)
             \/ ReadJob(n) \/ KeepJob(n)

-----------------------------------------------------------------------------
\* The kernel forgets a connection that REMOTE closed.
TimeWaitOver(c) == /\ c \in timewait
                   /\ timewait' = timewait \ {c}
                   /\ UNCHANGED <<main, at, starts, ends, backlog, client,
                                  threads, swallowed>>

Next == \/ \E n \in Node : Start(n) \/ Kill(n) \/ thread(n)
        \/ create_channel \/ join_channel
        \/ \E c \in Channel : TimeWaitOver(c)

Spec == Init /\ [][Next]_vars

(***************************************************************************)
(* The kernel runs both processes.  Nobody has to start or to kill one,    *)
(* and the adaptor need not find a job to transfer.                        *)
(***************************************************************************)
Fairness == /\ WF_vars(create_channel)
            /\ WF_vars(join_channel)
            /\ \A n \in Node : /\ WF_vars(send_state(n))
                               /\ WF_vars(state_read_thread(n))
                               /\ WF_vars(Transferred(n))
                               /\ WF_vars(ReadJob(n))
                               /\ WF_vars(KeepJob(n))

FairSpec == Spec /\ Fairness

-----------------------------------------------------------------------------

Messages == {"hello", "job", "ack", "state"}

\* Type of the two processes and of what is between them.
TypeOK ==
  /\ main \in [Node -> {"off", "connect", "greet", "bind", "accept", "hello",
                        "run"}]
  /\ at \in [Node -> 1 .. Len(main_order)]
  /\ starts \in [Node -> 0 .. MaxStarts]
  /\ sock \in [Node -> [Channel -> {"none", "open", "eof", "reset", "broken"}]]
  /\ backlog \in [Channel -> Seq(1 .. MaxStarts)]
  /\ client \in [Channel -> 0 .. MaxStarts]
  /\ timewait \subseteq Channel
  /\ inbox \in [Node -> [Channel -> Seq(Messages)]]
  /\ adaptor \in [Node -> {"decide", "wait"}]
  /\ reader \in [Node -> {"read", "fresh", "stale"}]
  /\ fed \in [Node -> BOOLEAN]
  /\ swallowed \in BOOLEAN
  /\ strays \in [Node -> Nat]

\* A REMOTE process serves one LOCAL process: though each port is accepted by
\* itself and a backlog may hold connections of processes that have ended, all
\* four it accepts come from the same one, and two processes that both run are
\* connected to each other, four times.
OneClient ==
  /\ \A c, d \in Channel :
       client[c] # 0 /\ client[d] # 0 => client[c] = client[d]
  /\ (\A n \in Node : Runs(n)) =>
       \A c \in Channel : /\ client[c] = starts[LOCAL_NODE]
                          /\ \A n \in Node : sock[n][c] # "none"

\* What the thread at n's end of channel c knows how to parse.
Expected(n, c) == CASE c = in_data(n)   -> {"job"}
                    [] c = in_state(n)  -> {"state"}
                    [] c = out_data(n)  -> {"ack"}
                    [] c = out_state(n) -> {}

\* Greeting and messages share the connections and are not told apart, yet no
\* message is read as a greeting, no greeting as a message, and each thread
\* finds the messages meant for it, across all restarts.
StreamsIntact ==
  /\ ~swallowed
  /\ \A n \in Node : Runs(n) =>
       \A c \in Channel : Range(inbox[n][c]) \subseteq Expected(n, c)

\* Between the end of its peer and its own a node queues at most one job that
\* nobody sent.
AtMostOneStray == \A n \in Node : strays[n] <= 1

\* LOCAL does not hang in its start: it gets to run or it ends with an error.
LocalSettles ==
  main[LOCAL_NODE] \in {"connect", "greet"}
    ~> main[LOCAL_NODE] \in {"off", "run"}

\* A running node does not outlive its peer, though it never looks whether the
\* peer is there: SIGPIPE ends it.
DeathSpreads ==
  \A n \in Node :
    (main[n] = "run" /\ sock[n][out_state(n)] # "open") ~> main[n] # "run"
=============================================================================

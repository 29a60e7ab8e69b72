-------------------------------- MODULE Net --------------------------------
(***************************************************************************)
(* A Net with UDP sessions and TCP clients: the completion port            *)
(* (net/iocp.h), the threads that serve it (net/io_thread.h), the sessions *)
(* (net/session_udp.h), and what the application calls (net/net.h):        *)
(* run_udp, stop_udp, run_tcp_client, stop_tcp_client, delete net.         *)
(* A session has one receive under way; its completion goes to any thread  *)
(* that waits, which calls on_recv and posts the next.  sendto completes   *)
(* at once and is left out.  Of the life of a TCP client (SessionTCP)      *)
(* there remain its connection and one receive; its teardown is part of    *)
(* the step that handles the last one.  Main is the one thread that calls  *)
(* Net.                                                                    *)
(***************************************************************************)
CONSTANTS
    IO,         \* the IOThreads
    Session,    \* the UDP sessions that can be created
    Client,     \* the TCP clients that can be created
    NoSession

ASSUME NameAssumption ==
    /\ NoSession \notin Session \cup Client \cup IO
    /\ Session \cap Client = {} /\ IO \cap (Session \cup Client) = {}

VARIABLES
    port,       \* IOCP::handle_: "open" or "closed"
    life,       \* of a session: "none", "live", "deleted"
    force,      \* force_close_
    bound,      \* its socket is registered with the port the threads serve
    recv,       \* its receive: "none", "pending", "done"
    deaf,       \* history: a WSARecvFrom of it failed at once
    clis,       \* tcp_clis_
    tcp,        \* of a client: "none", "off", "on" (connected), "shut" (its
                \* socket is closed, its receive not handled yet), "deleted"
    rel,        \* is_release_
    rov,        \* its receive: "none", "pending", "done"
    pc, at,     \* where an IOThread is, and the session it handles
    freed,      \* the IOThread objects Net has deleted
    main, arg,  \* where Main is, and the session it stops
    bad,        \* sessions, clients and IOThreads used, or deleted again,
                \* after they were deleted
    crossed,    \* history: the sessions whose receive was being handled as
                \* stop_udp went on,
    abandoned,  \* those deleted with a WSARecvFrom under way,
    outlasted,  \* the IOThreads at work when they were deleted,
    stray       \* and the clients deleted that tcp_clis_ still had

sessions == <<life, force, bound, recv, deaf>>
clients == <<clis, tcp, rel, rov>>
threads == <<pc, at, freed>>
history == <<crossed, abandoned, outlasted, stray>>
vars == <<port, sessions, clients, threads, main, arg, bad, history>>

(* IOThread: "wait"   in GetQueuedCompletionStatus   "recv"  enters _on_recv
             "call"   on_recv of the application     "again" after it
             "post"   enters recv()                  "ended" out of run()
             "client" in _on_recv of a TCP client
   Main: "idle"   "force", "delete"  in stop_udp
         "clients", "join"  in uninit   "end"                              *)
Handling == {"recv", "call", "again", "post", "client"}

Init ==
    /\ port = "open"
    /\ life = [s \in Session |-> "none"]
    /\ force = [s \in Session |-> FALSE]
    /\ bound = [s \in Session |-> FALSE]
    /\ recv = [s \in Session |-> "none"]
    /\ deaf = [s \in Session |-> FALSE]
    /\ clis = {}
    /\ tcp = [c \in Client |-> "none"]
    /\ rel = [c \in Client |-> FALSE]
    /\ rov = [c \in Client |-> "none"]
    /\ pc = [t \in IO |-> "wait"] /\ at = [t \in IO |-> NoSession]
    /\ freed = {}
    /\ main = "idle" /\ arg = NoSession
    /\ bad = {} /\ crossed = {} /\ abandoned = {} /\ outlasted = {} /\ stray = {}

\* The threads that handle a receive of s, a session or a client.
Handlers(s) == {t \in IO : at[t] = s}

\* What has been deleted, and the use of objects that may be among it.
Deleted == {s \in Session : life[s] = "deleted"} \cup freed
           \cup {c \in Client : tcp[c] = "deleted"}
Uses(objects) == bad' = bad \cup (objects \cap Deleted)
----------------------------------------------------------------------------
\* run_udp: a step of init() fails and the session is deleted, or the first
\* receive is posted.  regist() succeeds on a closed port too.
Run(s) ==
    /\ main = "idle"
    /\ life[s] = "none"
    /\ \/ /\ life' = [life EXCEPT ![s] = "deleted"]
          /\ UNCHANGED <<bound, recv>>
       \/ /\ life' = [life EXCEPT ![s] = "live"]
          /\ bound' = [bound EXCEPT ![s] = port = "open"]
          /\ recv' = [recv EXCEPT ![s] = "pending"]
    /\ UNCHANGED <<port, force, deaf, clients, threads, main, arg, bad, history>>

\* stop_udp: the port is closed,
StopPort(s) ==
    /\ main = "idle"
    /\ life[s] = "live" /\ ~force[s]
    /\ port' = "closed"
    /\ main' = "force" /\ arg' = s
    /\ UNCHANGED <<sessions, clients, threads, bad, history>>

\* force_close(): the flag is set,
StopForce ==
    /\ main = "force"
    /\ Uses({arg})
    /\ force' = [force EXCEPT ![arg] = TRUE]
    /\ crossed' = IF Handlers(arg) # {} THEN crossed \cup {arg} ELSE crossed
    /\ main' = "delete"
    /\ UNCHANGED <<port, life, bound, recv, deaf, clients, threads, arg,
                   abandoned, outlasted, stray>>

\* and, the port being closed, the session is deleted at once, a receive under
\* way or not; were it open, closing the socket would end the receive.
StopDelete ==
    /\ main = "delete"
    /\ main' = "idle" /\ arg' = NoSession
    /\ Uses({arg})
    /\ IF port = "closed"
       THEN /\ life' = [life EXCEPT ![arg] = "deleted"]
            /\ abandoned' = abandoned \cup (IF recv[arg] = "pending" THEN {arg} ELSE {})
            /\ UNCHANGED recv
       ELSE /\ recv' = [recv EXCEPT ![arg] = IF @ = "pending" THEN "done" ELSE @]
            /\ UNCHANGED <<life, abandoned>>
    /\ UNCHANGED <<port, force, bound, deaf, clients, threads, crossed, outlasted,
                   stray>>

----------------------------------------------------------------------------
\* run_tcp_client.
RunClient(c) ==
    /\ main = "idle"
    /\ tcp[c] = "none"
    /\ tcp' = [tcp EXCEPT ![c] = "off"]
    /\ clis' = clis \cup {c}
    /\ UNCHANGED <<port, sessions, rel, rov, threads, main, arg, bad, history>>

\* A ConnectEx completes; the first receive is posted.
Connect(c) ==
    /\ port = "open"
    /\ tcp[c] = "off"
    /\ tcp' = [tcp EXCEPT ![c] = "on"]
    /\ rov' = [rov EXCEPT ![c] = "pending"]
    /\ UNCHANGED <<port, sessions, clis, rel, threads, main, arg, bad, history>>

\* disconnect(true): a connected client's socket is closed, which ends its
\* receive; of one that is not connected is_release_ is kept.
Shut(c) ==
    /\ rel' = [rel EXCEPT ![c] = TRUE]
    /\ IF tcp[c] = "on"
       THEN /\ tcp' = [tcp EXCEPT ![c] = "shut"]
            /\ rov' = [rov EXCEPT ![c] = IF @ = "pending" THEN "done" ELSE @]
       ELSE UNCHANGED <<tcp, rov>>

\* stop_tcp_client, which clears the application's pointer.
StopClient(c) ==
    /\ main = "idle"
    /\ tcp[c] \in {"off", "on"} /\ ~rel[c]
    /\ clis' = clis \ {c}
    /\ Shut(c)
    /\ UNCHANGED <<port, sessions, threads, main, arg, bad, history>>

\* The application calls disconnect(true) itself: the Net is not told.
Release(c) ==
    /\ tcp[c] \in {"off", "on"} /\ ~rel[c]
    /\ Shut(c)
    /\ UNCHANGED <<port, sessions, clis, threads, main, arg, bad, history>>

\* The receive of a client is handled: the next one is posted, or the
\* connection is over, and the client with it if it is to be released.
OnRecvClient(t) ==
    LET c == at[t] IN
    /\ pc[t] = "client"
    /\ Uses({t, c})
    /\ pc' = [pc EXCEPT ![t] = "wait"] /\ at' = [at EXCEPT ![t] = NoSession]
    /\ \/ /\ tcp[c] = "on"
          /\ rov' = [rov EXCEPT ![c] = "pending"]
          /\ UNCHANGED <<tcp, stray>>
       \/ /\ tcp' = [tcp EXCEPT ![c] = IF rel[c] THEN "deleted" ELSE "off"]
          /\ stray' = IF rel[c] THEN stray \cup ({c} \cap clis) ELSE stray
          /\ UNCHANGED rov
    /\ UNCHANGED <<port, sessions, clis, rel, freed, main, arg, crossed, abandoned,
                   outlasted>>
----------------------------------------------------------------------------
\* ~Net, uninit: the clients are disconnected one by one,
Uninit ==
    /\ main = "idle"
    /\ main' = "clients"
    /\ UNCHANGED <<port, sessions, clients, threads, arg, bad, history>>

DisconnectClient(c) ==
    /\ main = "clients"
    /\ c \in clis
    /\ clis' = clis \ {c}
    /\ Uses({c})
    /\ Shut(c)
    /\ UNCHANGED <<port, sessions, threads, main, arg, history>>

\* the port is closed, whatever is under way,
ClosePort ==
    /\ main = "clients"
    /\ clis = {}
    /\ port' = "closed"
    /\ main' = "join"
    /\ UNCHANGED <<sessions, clients, threads, arg, bad, history>>

\* and the threads are deleted one by one, each after a sleep; nobody waits for
\* them to end.
DeleteThread(t) ==
    /\ main = "join"
    /\ t \notin freed
    /\ freed' = freed \cup {t}
    /\ outlasted' = IF pc[t] # "ended" THEN outlasted \cup {t} ELSE outlasted
    /\ main' = IF freed' = IO THEN "end" ELSE "join"
    /\ UNCHANGED <<port, sessions, clients, pc, at, arg, bad, crossed,
                   abandoned, stray>>
----------------------------------------------------------------------------
\* The kernel: a packet, an error or the close of the socket ends the receive.
\* rov_, client_addr_ and the buffer are written, the session deleted or not.
Arrive(s) ==
    /\ recv[s] = "pending"
    /\ recv' = [recv EXCEPT ![s] = "done"]
    /\ Uses({s})
    /\ UNCHANGED <<port, life, force, bound, deaf, clients, threads, main, arg,
                   history>>

ArriveClient(c) ==
    /\ rov[c] = "pending"
    /\ rov' = [rov EXCEPT ![c] = "done"]
    /\ Uses({c})
    /\ UNCHANGED <<port, sessions, clis, tcp, rel, threads, main, arg, history>>

\* Mutants of Delivers and Breaks: what was queued is delivered although the
\* port is closed; a closed port is taken for a timeout.
DeliversQueued(s) == bound[s]
BreaksNot == FALSE

\* GetQueuedCompletionStatus returns completions of the sockets registered
\* with the port while it is open,
Delivers(s) == bound[s] /\ port = "open"

\* and ERROR_ABANDONED_WAIT_0 when it is closed.
Breaks == port = "closed"

\* IOThread::run: a completion,
Dequeue(t, s) ==
    /\ pc[t] = "wait"
    /\ recv[s] = "done" /\ Delivers(s)
    /\ recv' = [recv EXCEPT ![s] = "none"]
    /\ pc' = [pc EXCEPT ![t] = "recv"]
    /\ at' = [at EXCEPT ![t] = s]
    /\ Uses({t})
    /\ UNCHANGED <<port, life, force, bound, deaf, clients, freed, main, arg, history>>

DequeueClient(t, c) ==
    /\ pc[t] = "wait"
    /\ rov[c] = "done" /\ port = "open"
    /\ rov' = [rov EXCEPT ![c] = "none"]
    /\ pc' = [pc EXCEPT ![t] = "client"]
    /\ at' = [at EXCEPT ![t] = c]
    /\ Uses({t})
    /\ UNCHANGED <<port, sessions, clis, tcp, rel, freed, main, arg, history>>

\* or the end of the loop.
End(t) ==
    /\ pc[t] = "wait"
    /\ Breaks
    /\ pc' = [pc EXCEPT ![t] = "ended"]
    /\ Uses({t})
    /\ UNCHANGED <<port, sessions, clients, at, freed, main, arg, history>>

\* The test of force_close_ where _on_recv and recv() begin.
Stops(s) == force[s]

\* Mutant of Resumes: nothing is posted once the port is closed.
ResumesIfServed(s) == ~force[s] /\ port = "open"

\* The test of force_close_ after on_recv.
Resumes(s) == ~force[s]

\* t leaves the handler or goes on in it.
Leave(t) == pc' = [pc EXCEPT ![t] = "wait"] /\ at' = [at EXCEPT ![t] = NoSession]
GoOn(t, l) == pc' = [pc EXCEPT ![t] = l] /\ UNCHANGED at

\* _on_recv: a session that is being closed is deleted here.
OnRecv(t) ==
    /\ pc[t] = "recv"
    /\ Uses({t, at[t]})
    /\ IF Stops(at[t]) THEN life' = [life EXCEPT ![at[t]] = "deleted"] /\ Leave(t)
                       ELSE GoOn(t, "call") /\ UNCHANGED life
    /\ UNCHANGED <<port, force, bound, recv, deaf, clients, freed, main, arg, history>>

\* on_recv of the application, and the buffer is arranged.
Call(t) ==
    /\ pc[t] = "call"
    /\ Uses({t, at[t]})
    /\ GoOn(t, "again")
    /\ UNCHANGED <<port, sessions, clients, freed, main, arg, history>>

\* A session closed meanwhile is left as it is.
Again(t) ==
    /\ pc[t] = "again"
    /\ Uses({t, at[t]})
    /\ IF Resumes(at[t]) THEN GoOn(t, "post") ELSE Leave(t)
    /\ UNCHANGED <<port, sessions, clients, freed, main, arg, history>>

\* recv(): WSARecvFrom, which may fail at once.
Post(t) ==
    /\ pc[t] = "post"
    /\ Uses({t, at[t]})
    /\ Leave(t)
    /\ \/ Stops(at[t]) /\ UNCHANGED <<recv, deaf>>
       \/ /\ ~Stops(at[t])
          /\ recv' = [recv EXCEPT ![at[t]] = "pending"]
          /\ UNCHANGED deaf
       \/ /\ ~Stops(at[t])
          /\ deaf' = [deaf EXCEPT ![at[t]] = TRUE]
          /\ UNCHANGED recv
    /\ UNCHANGED <<port, life, force, bound, clients, freed, main, arg, history>>

Thread(t) ==
    \/ \E s \in Session : Dequeue(t, s)
    \/ \E c \in Client : DequeueClient(t, c)
    \/ OnRecvClient(t)
    \/ End(t) \/ OnRecv(t) \/ Call(t) \/ Again(t) \/ Post(t)

\* What was deleted is not used again: nothing is said of what follows.
Next ==
    /\ bad = {}
    /\ \/ \E s \in Session : Run(s) \/ StopPort(s) \/ Arrive(s)
       \/ \E c \in Client : \/ RunClient(c) \/ StopClient(c) \/ Release(c) \/ Connect(c)
                           \/ ArriveClient(c) \/ DisconnectClient(c)
       \/ StopForce \/ StopDelete \/ Uninit \/ ClosePort
       \/ \E t \in IO : DeleteThread(t) \/ Thread(t)

Spec == Init /\ [][Next]_vars

MainGoesOn ==
    \/ StopForce \/ StopDelete \/ ClosePort
    \/ (\E c \in Client : DisconnectClient(c)) \/ \E t \in IO : DeleteThread(t)

\* Threads are scheduled, callbacks return, and Main finishes what it began.
FairSpec ==
    /\ Spec
    /\ \A t \in IO : WF_vars(bad = {} /\ Thread(t))
    /\ WF_vars(bad = {} /\ MainGoesOn)
----------------------------------------------------------------------------
\* Types of the variables.
TypeOK ==
    /\ port \in {"open", "closed"}
    /\ life \in [Session -> {"none", "live", "deleted"}]
    /\ force \in [Session -> BOOLEAN] /\ bound \in [Session -> BOOLEAN]
    /\ recv \in [Session -> {"none", "pending", "done"}]
    /\ deaf \in [Session -> BOOLEAN]
    /\ pc \in [IO -> {"wait", "ended"} \cup Handling]
    /\ clis \subseteq Client
    /\ tcp \in [Client -> {"none", "off", "on", "shut", "deleted"}]
    /\ rel \in [Client -> BOOLEAN]
    /\ rov \in [Client -> {"none", "pending", "done"}]
    /\ at \in [IO -> Session \cup Client \cup {NoSession}]
    /\ \A t \in IO : /\ pc[t] \in Handling <=> at[t] # NoSession
                     /\ pc[t] = "client" <=> at[t] \in Client
    /\ freed \in SUBSET IO
    /\ main \in {"idle", "force", "delete", "clients", "join", "end"}
    /\ arg \in Session \cup {NoSession}
    /\ bad \subseteq Session \cup Client \cup IO
    /\ crossed \subseteq Session /\ abandoned \subseteq Session
    /\ outlasted \subseteq IO /\ stray \subseteq Client

UdpReceive ==
    \A s \in Session :
        /\ \A t, u \in Handlers(s) : t = u
        /\ recv[s] # "none" => Handlers(s) = {}
        /\ life[s] = "live" /\ ~force[s] /\ ~deaf[s] => recv[s] # "none" \/ Handlers(s) # {}

ClientReceive ==
    \A c \in Client :
        /\ \A t, u \in Handlers(c) : t = u
        /\ rov[c] # "none" => Handlers(c) = {}
        /\ tcp[c] \in {"on", "shut"} <=> rov[c] # "none" \/ Handlers(c) # {}

\* rbuf_ and client_addr_ have no lock: a session has never more than one
\* receive, under way or being handled; and it has one as long as it is not
\* stopped, unless a WSARecvFrom failed at once.  A TCP client has one exactly
\* from its connection to its teardown, whoever disconnects it meanwhile.
OneReceive == UdpReceive /\ ClientReceive

\* A session, a client or an IOThread that is deleted is not deleted again, and
\* no thread and no receive under way uses it any more.  What can go wrong with
\* an object is named, for that very object: stop_udp deleted the session while
\* a receive of it was handled, or was under way in the kernel, which then writes
\* into freed memory; the IOThread took longer to end than uninit sleeps; the
\* application released the client behind the back of the Net, whose uninit
\* disconnects it once more.  (What the deleting thread itself does after `delete
\* this` of a client is in SessionTCP, NoCrash.)
SafeDelete == bad \subseteq crossed \cup abandoned \cup outlasted \cup stray

\* Once the port is closed every IOThread ends.
ThreadsEnd == port = "closed" ~> (bad # {} \/ \A t \in IO : pc[t] = "ended")
============================================================================

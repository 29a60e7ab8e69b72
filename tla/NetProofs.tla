----------------------------- MODULE NetProofs -----------------------------
(***************************************************************************)
(* Proofs about Net, for any IOThreads, UDP sessions and TCP clients.      *)
(***************************************************************************)
EXTENDS Net, TLAPS

\* A session that was never created has nothing going on.
Untouched == \A s \in Session : life[s] = "none" => /\ recv[s] = "none" /\ ~force[s]
                                                    /\ Handlers(s) = {}

\* What Main is about in stop_udp.
Stopping ==
    /\ main \in {"force", "delete"} => arg \in Session /\ port = "closed" /\ life[arg] # "none"
    /\ main = "delete" => force[arg]

\* Why an object that is deleted is not used again, each with what SafeDelete
\* names as the exception for it.  A session that is being closed, or is deleted,
\* has no handler, and gets none from a closed port; a deleted one has no receive
\* under way; a deleted IOThread has ended; tcp_clis_ has no deleted client.
NoHandler(s) == Handlers(s) = {} \/ s \in crossed

SessionsKept ==
    \A s \in Session :
        /\ s \in crossed => force[s]
        /\ force[s] => port = "closed" /\ NoHandler(s)
        /\ life[s] = "deleted" =>
              /\ recv[s] = "none" \/ port = "closed"
              /\ NoHandler(s)
              /\ recv[s] = "pending" => s \in abandoned

StoppedKept == main \in {"force", "delete"} => life[arg] = "live" \/ arg \in crossed

ThreadsKept == \A t \in freed : pc[t] = "ended" \/ t \in outlasted

ClientsKept == \A c \in clis : tcp[c] = "deleted" => c \in stray

Undisturbed == SafeDelete /\ SessionsKept /\ StoppedKept /\ ThreadsKept /\ ClientsKept

\* The inductive invariant.
NetInv == /\ TypeOK /\ UdpReceive /\ ClientReceive /\ Untouched /\ Stopping
          /\ Undisturbed
----------------------------------------------------------------------------
\* The receives of sessions and clients that a step leaves alone.
LEMMA SameSessions ==
    ASSUME UdpReceive, Untouched, UNCHANGED <<life, force, recv, deaf>>,
           \A s \in Session : Handlers(s)' = Handlers(s)
    PROVE  UdpReceive' /\ Untouched'
    BY DEF UdpReceive, Untouched

LEMMA SameClients ==
    ASSUME ClientReceive, UNCHANGED <<tcp, rov>>,
           \A c \in Client : Handlers(c)' = Handlers(c)
    PROVE  ClientReceive'
    BY DEF ClientReceive

LEMMA SameHandlers == ASSUME UNCHANGED at PROVE \A x : Handlers(x)' = Handlers(x)
    BY DEF Handlers

\* What a step of an IOThread does to the handlers.
LEMMA Handled ==
    ASSUME TypeOK, NEW t \in IO, NEW x, at' = [at EXCEPT ![t] = x]
    PROVE  \A s \in Session \cup Client :
              Handlers(s)' = IF s = x THEN Handlers(s) \cup {t} ELSE Handlers(s) \ {t}
    BY DEF TypeOK, Handlers

\* Where a thread is decides what it handles.
LEMMA AtWait ==
    ASSUME TypeOK, NEW t \in IO, pc[t] = "wait"
    PROVE  at[t] = NoSession /\ \A s \in Session \cup Client : t \notin Handlers(s)
<1>1. at[t] = NoSession
    BY DEF TypeOK, Handling
<1> QED
    BY <1>1, NameAssumption DEF Handlers

\* The use of something deleted is in bad, which is what SafeDelete allows it to be.
LEMMA UseTyped ==
    ASSUME TypeOK, NEW used, Uses(used)
    PROVE  bad' \subseteq Session \cup Client \cup IO
    BY DEF TypeOK, Uses, Deleted

LEMMA UseSafe ==
    ASSUME SafeDelete, NEW used, Uses(used),
           used \cap Deleted \subseteq crossed \cup abandoned \cup outlasted \cup stray,
           crossed \subseteq crossed', abandoned \subseteq abandoned',
           outlasted \subseteq outlasted', stray \subseteq stray'
    PROVE  SafeDelete'
    BY DEF SafeDelete, Uses

LEMMA InitInv == Init => NetInv
<1> SUFFICES ASSUME Init PROVE NetInv
    OBVIOUS
<1> USE DEF Init
<1>1. \A s \in Session \cup Client : Handlers(s) = {}
    BY NameAssumption DEF Handlers
<1>2. TypeOK
    BY NameAssumption DEF TypeOK, Handling
<1>3. UdpReceive /\ ClientReceive
    BY <1>1 DEF UdpReceive, ClientReceive
<1>4. Untouched /\ Stopping /\ Undisturbed
    BY <1>1 DEF Untouched, Stopping, Undisturbed, SafeDelete, SessionsKept, StoppedKept,
               ThreadsKept, ClientsKept, NoHandler
<1> QED
    BY <1>2, <1>3, <1>4 DEF NetInv
----------------------------------------------------------------------------
(* The steps of Main in stop_udp and uninit, and the kernel's.             *)

LEMMA RunInv == ASSUME NetInv, NEW s \in Session, Run(s) PROVE NetInv'
<1> USE DEF NetInv, Run, clients, threads, history
<1>0. \A x : Handlers(x)' = Handlers(x)
    BY SameHandlers
<1>1. TypeOK'
    BY DEF TypeOK
<1>2. UdpReceive' /\ Untouched' /\ Stopping'
    BY <1>0 DEF TypeOK, UdpReceive, Untouched, Stopping
<1>3. ClientReceive'
    BY <1>0, SameClients
<1>4. Undisturbed'
    BY <1>0 DEF TypeOK, Undisturbed, SafeDelete, SessionsKept, StoppedKept,
               ThreadsKept, ClientsKept, NoHandler, Untouched
<1> QED
    BY <1>1, <1>2, <1>3, <1>4

LEMMA StopPortInv == ASSUME NetInv, NEW s \in Session, StopPort(s) PROVE NetInv'
<1> USE DEF NetInv, StopPort, sessions, clients, threads, history
<1>0. \A x : Handlers(x)' = Handlers(x)
    BY SameHandlers
<1>1. TypeOK'
    BY DEF TypeOK
<1>2. UdpReceive' /\ Untouched' /\ ClientReceive'
    BY <1>0, SameSessions, SameClients
<1>3. Stopping'
    BY DEF Stopping
<1>4. Undisturbed'
    BY <1>0 DEF Undisturbed, SafeDelete, SessionsKept, StoppedKept,
               ThreadsKept, ClientsKept, NoHandler
<1> QED
    BY <1>1, <1>2, <1>3, <1>4

\* What stop_udp uses is there, unless a handler has deleted it.
LEMMA ArgKept ==
    ASSUME NetInv, main \in {"force", "delete"}
    PROVE  {arg} \cap Deleted \subseteq crossed
    BY NameAssumption DEF NetInv, TypeOK, Undisturbed, StoppedKept, Stopping, Deleted

LEMMA StopForceInv == ASSUME NetInv, StopForce PROVE NetInv'
<1> USE DEF NetInv, StopForce, clients, threads
<1>0. /\ arg \in Session /\ \A x : Handlers(x)' = Handlers(x)
      /\ force'[arg] /\ \A s \in Session \ {arg} : force'[s] = force[s]
    BY SameHandlers DEF TypeOK, Stopping
<1>1. TypeOK'
    BY <1>0, UseTyped DEF TypeOK
<1>2. UdpReceive' /\ Untouched' /\ Stopping'
    BY <1>0 DEF UdpReceive, Untouched, Stopping
<1>3. ClientReceive'
    BY <1>0, SameClients
<1>4. SafeDelete'
    BY ArgKept, UseSafe DEF Undisturbed
<1>5. SessionsKept'
    BY <1>0 DEF TypeOK, Undisturbed, SessionsKept, Stopping, NoHandler
<1>6. StoppedKept'
    BY <1>0 DEF Undisturbed, StoppedKept, Stopping, SessionsKept, NoHandler
<1>7. ThreadsKept' /\ ClientsKept'
    BY DEF Undisturbed, ThreadsKept, ClientsKept
<1> QED
    BY <1>1, <1>2, <1>3, <1>4, <1>5, <1>6, <1>7 DEF Undisturbed

LEMMA StopDeleteInv == ASSUME NetInv, StopDelete PROVE NetInv'
<1> USE DEF NetInv, StopDelete, clients, threads, history
<1>0. /\ arg \in Session /\ port = "closed" /\ force[arg] /\ life[arg] # "none"
      /\ life' = [life EXCEPT ![arg] = "deleted"] /\ UNCHANGED recv
      /\ \A x : Handlers(x)' = Handlers(x)
    BY SameHandlers DEF Stopping
<1>1. TypeOK'
    BY <1>0, UseTyped DEF TypeOK
<1>2. UdpReceive' /\ Untouched' /\ Stopping'
    BY <1>0 DEF TypeOK, UdpReceive, Untouched, Stopping
<1>3. ClientReceive'
    BY <1>0, SameClients
<1>4. SafeDelete'
    BY ArgKept, UseSafe DEF Undisturbed
<1>5. SessionsKept'
    BY <1>0 DEF TypeOK, Undisturbed, SessionsKept, NoHandler
<1>6. StoppedKept'
    BY <1>0 DEF Undisturbed, StoppedKept, Stopping, SessionsKept, NoHandler
<1>7. ThreadsKept' /\ ClientsKept'
    BY DEF Undisturbed, ThreadsKept, ClientsKept
<1> QED
    BY <1>1, <1>2, <1>3, <1>4, <1>5, <1>6, <1>7 DEF Undisturbed

LEMMA UninitInv == ASSUME NetInv, Uninit \/ ClosePort PROVE NetInv'
<1> USE DEF NetInv, Uninit, ClosePort, sessions, clients, threads, history
<1>0. \A x : Handlers(x)' = Handlers(x)
    BY SameHandlers
<1>1. TypeOK'
    BY DEF TypeOK
<1>2. UdpReceive' /\ Untouched' /\ ClientReceive'
    BY <1>0, SameSessions, SameClients
<1>3. Stopping'
    BY DEF Stopping
<1>4. Undisturbed'
    BY <1>0 DEF Undisturbed, SafeDelete, SessionsKept, StoppedKept,
               ThreadsKept, ClientsKept, NoHandler
<1> QED
    BY <1>1, <1>2, <1>3, <1>4

LEMMA DeleteThreadInv ==
    ASSUME NetInv, NEW t \in IO, DeleteThread(t) PROVE NetInv'
<1> USE DEF NetInv, DeleteThread, sessions, clients
<1>0. \A x : Handlers(x)' = Handlers(x)
    BY SameHandlers
<1>1. TypeOK'
    BY DEF TypeOK
<1>2. UdpReceive' /\ Untouched' /\ ClientReceive'
    BY <1>0, SameSessions, SameClients
<1>3. Stopping'
    BY DEF Stopping
<1>4. Undisturbed'
    BY <1>0 DEF Undisturbed, SafeDelete, SessionsKept, StoppedKept,
               ThreadsKept, ClientsKept, NoHandler
<1> QED
    BY <1>1, <1>2, <1>3, <1>4

LEMMA ArriveInv == ASSUME NetInv, NEW s \in Session, Arrive(s) PROVE NetInv'
<1> USE DEF NetInv, Arrive, clients, threads, history
<1>0. \A x : Handlers(x)' = Handlers(x)
    BY SameHandlers
<1>1. TypeOK'
    BY UseTyped DEF TypeOK
<1>2. UdpReceive' /\ Untouched' /\ Stopping'
    BY <1>0 DEF TypeOK, UdpReceive, Untouched, Stopping
<1>3. ClientReceive'
    BY <1>0, SameClients
<1>4. SafeDelete'
    <2>1. {s} \cap Deleted \subseteq abandoned
        BY NameAssumption DEF TypeOK, Undisturbed, SessionsKept, Deleted
    <2> QED
        BY <2>1, UseSafe DEF Undisturbed
<1>5. SessionsKept' /\ StoppedKept' /\ ThreadsKept' /\ ClientsKept'
    BY <1>0 DEF TypeOK, Undisturbed, SessionsKept, StoppedKept, ThreadsKept, ClientsKept,
                NoHandler
<1> QED
    BY <1>1, <1>2, <1>3, <1>4, <1>5 DEF Undisturbed
----------------------------------------------------------------------------
(* The steps about a client.                                               *)

\* A step about a client that leaves the sessions, the threads and Main alone.
LEMMA ClientStep ==
    ASSUME NetInv, UNCHANGED <<port, sessions, threads, main, arg, history>>,
           TypeOK', ClientReceive',
           SafeDelete' /\ ClientsKept'
    PROVE  NetInv'
<1> USE DEF NetInv, sessions, threads, history
<1>0. \A x : Handlers(x)' = Handlers(x)
    BY SameHandlers
<1>1. UdpReceive' /\ Untouched'
    BY <1>0, SameSessions
<1>2. Stopping'
    BY DEF Stopping
<1>3. Undisturbed'
    BY <1>0 DEF Undisturbed, SessionsKept, StoppedKept, ThreadsKept, NoHandler
<1> QED
    BY <1>1, <1>2, <1>3

\* disconnect(true) leaves a client its receive, if it has one, and deletes none.
LEMMA ShutKeeps ==
    ASSUME NetInv, NEW c \in Client, Shut(c), UNCHANGED at
    PROVE  /\ ClientReceive'
           /\ tcp' \in [Client -> {"none", "off", "on", "shut", "deleted"}]
           /\ rel' \in [Client -> BOOLEAN]
           /\ rov' \in [Client -> {"none", "pending", "done"}]
           /\ \A d \in Client : tcp'[d] = "deleted" => tcp[d] = "deleted"
<1>0. \A x : Handlers(x)' = Handlers(x)
    BY SameHandlers
<1>1. /\ tcp' \in [Client -> {"none", "off", "on", "shut", "deleted"}]
      /\ rel' \in [Client -> BOOLEAN]
      /\ rov' \in [Client -> {"none", "pending", "done"}]
      /\ \A d \in Client : tcp'[d] = "deleted" => tcp[d] = "deleted"
    BY DEF NetInv, TypeOK, Shut
<1>2. \A d \in Client : /\ tcp'[d] \in {"on", "shut"} <=> tcp[d] \in {"on", "shut"}
                        /\ rov'[d] = "none" <=> rov[d] = "none"
    BY DEF NetInv, TypeOK, Shut
<1> QED
    BY <1>0, <1>1, <1>2 DEF NetInv, ClientReceive

LEMMA RunClientInv == ASSUME NetInv, NEW c \in Client, RunClient(c) PROVE NetInv'
<1> USE DEF RunClient, threads
<1>0. \A x : Handlers(x)' = Handlers(x)
    BY SameHandlers
<1>1. TypeOK'
    BY DEF NetInv, TypeOK, sessions, history
<1>2. ClientReceive'
    BY <1>0 DEF NetInv, TypeOK, ClientReceive
<1>3. SafeDelete' /\ ClientsKept'
    BY DEF NetInv, TypeOK, Undisturbed, SafeDelete, ClientsKept, history
<1> QED
    BY <1>1, <1>2, <1>3, ClientStep

LEMMA ConnectInv == ASSUME NetInv, NEW c \in Client, Connect(c) PROVE NetInv'
<1> USE DEF Connect, threads
<1>0. \A x : Handlers(x)' = Handlers(x)
    BY SameHandlers
<1>1. TypeOK'
    BY DEF NetInv, TypeOK, sessions, history
<1>2. ClientReceive'
    BY <1>0 DEF NetInv, TypeOK, ClientReceive
<1>3. SafeDelete' /\ ClientsKept'
    BY DEF NetInv, TypeOK, Undisturbed, SafeDelete, ClientsKept, history
<1> QED
    BY <1>1, <1>2, <1>3, ClientStep

LEMMA ArriveClientInv ==
    ASSUME NetInv, NEW c \in Client, ArriveClient(c) PROVE NetInv'
<1> USE DEF ArriveClient, threads
<1>0. \A x : Handlers(x)' = Handlers(x)
    BY SameHandlers
<1>1. TypeOK'
    BY UseTyped DEF NetInv, TypeOK, sessions, history
<1>2. ClientReceive'
    BY <1>0 DEF NetInv, TypeOK, ClientReceive
<1>3. SafeDelete' /\ ClientsKept'
    <2>1. {c} \cap Deleted = {}
        BY NameAssumption DEF NetInv, TypeOK, ClientReceive, Deleted
    <2> QED
        BY <2>1, UseSafe DEF NetInv, Undisturbed, ClientsKept, history
<1> QED
    BY <1>1, <1>2, <1>3, ClientStep

LEMMA ShutInv ==
    ASSUME NetInv, NEW c \in Client,
           StopClient(c) \/ Release(c) \/ DisconnectClient(c)
    PROVE  NetInv'
<1>1. /\ Shut(c)
      /\ UNCHANGED <<port, sessions, threads, main, arg, history>>
      /\ clis' \subseteq clis
      /\ bad' = bad \/ (c \in clis /\ Uses({c}))
    BY DEF StopClient, Release, DisconnectClient
<1>2. ClientReceive' /\ \A d \in Client : tcp'[d] = "deleted" => tcp[d] = "deleted"
    BY <1>1, ShutKeeps DEF threads
<1>3. TypeOK'
    BY <1>1, ShutKeeps, UseTyped DEF NetInv, TypeOK, sessions, threads, history
<1>4. SafeDelete'
    <2>1. c \in clis => {c} \cap Deleted \subseteq stray
        BY NameAssumption DEF NetInv, TypeOK, Undisturbed, ClientsKept, Deleted
    <2>2. CASE bad' = bad
        BY <1>1, <2>2 DEF NetInv, Undisturbed, SafeDelete, history
    <2>3. CASE c \in clis /\ Uses({c})
        BY <1>1, <2>1, <2>3, UseSafe DEF NetInv, Undisturbed, history
    <2> QED
        BY <1>1, <2>2, <2>3
<1>5. ClientsKept'
    BY <1>1, <1>2 DEF NetInv, TypeOK, Undisturbed, ClientsKept, history
<1> QED
    BY <1>1, <1>2, <1>3, <1>4, <1>5, ClientStep

LEMMA DequeueClientInv ==
    ASSUME NetInv, NEW t \in IO, NEW c \in Client, DequeueClient(t, c)
    PROVE  NetInv'
<1> USE DEF NetInv, DequeueClient, sessions, history
<1>1. Handlers(c) = {} /\ \A s \in Session \cup Client : t \notin Handlers(s)
    BY AtWait DEF ClientReceive
<1>2. \A s \in Session \cup Client : Handlers(s)' = IF s = c THEN {t} ELSE Handlers(s)
    <2>1. \A s \in Session \cup Client :
             Handlers(s)' = IF s = c THEN Handlers(s) \cup {t} ELSE Handlers(s) \ {t}
        BY Handled
    <2> QED
        BY <1>1, <2>1
<1>3. TypeOK'
    BY UseTyped, NameAssumption DEF TypeOK, Handling
<1>4. UdpReceive' /\ Untouched'
    BY <1>2, SameSessions, NameAssumption
<1>5. ClientReceive'
    <2>1. Handlers(c)' = {t} /\ rov'[c] = "none" /\ tcp'[c] \in {"on", "shut"}
        BY <1>2 DEF TypeOK, ClientReceive
    <2>2. \A d \in Client \ {c} :
             Handlers(d)' = Handlers(d) /\ rov'[d] = rov[d] /\ tcp'[d] = tcp[d]
        BY <1>2 DEF TypeOK
    <2> QED
        BY <2>1, <2>2 DEF ClientReceive
<1>6. Stopping'
    BY DEF Stopping
<1>7. Undisturbed'
    <2>1. t \in freed => t \in outlasted
        BY DEF Undisturbed, ThreadsKept
    <2>2. {t} \cap Deleted \subseteq outlasted
        BY <2>1, NameAssumption DEF Deleted
    <2>3. SafeDelete'
        BY <2>2, UseSafe DEF Undisturbed
    <2>4. ThreadsKept'
        BY <2>1 DEF TypeOK, Undisturbed, ThreadsKept
    <2>5. SessionsKept'
        BY <1>2, NameAssumption DEF TypeOK, Undisturbed, SessionsKept, NoHandler
    <2>6. StoppedKept' /\ ClientsKept'
        BY DEF Undisturbed, StoppedKept, ClientsKept
    <2> QED
        BY <2>3, <2>4, <2>5, <2>6 DEF Undisturbed
<1> QED
    BY <1>3, <1>4, <1>5, <1>6, <1>7

LEMMA OnRecvClientInv ==
    ASSUME NetInv, NEW t \in IO, OnRecvClient(t) PROVE NetInv'
<1> DEFINE c == at[t]
<1> USE DEF NetInv, OnRecvClient, sessions
<1>1. c \in Client /\ Handlers(c) = {t} /\ rov[c] = "none" /\ tcp[c] \in {"on", "shut"}
    <2>1. c \in Client /\ t \in Handlers(c)
        BY DEF TypeOK, Handlers
    <2> QED
        BY <2>1 DEF ClientReceive
<1>2. \A s \in Session \cup Client : Handlers(s)' = IF s = c THEN {} ELSE Handlers(s)
    <2>1. \A s \in Session \cup Client : Handlers(s)' = Handlers(s) \ {t}
        <3>1. \A s \in Session \cup Client :
                 Handlers(s)' = IF s = NoSession THEN Handlers(s) \cup {t}
                                                 ELSE Handlers(s) \ {t}
            BY Handled
        <3> QED
            BY <3>1, NameAssumption
    <2>2. \A s \in (Session \cup Client) \ {c} : t \notin Handlers(s)
        BY DEF Handlers
    <2>3. \A s \in Session \cup Client : s = c => Handlers(s)' = {}
        BY <1>1, <2>1
    <2>4. \A s \in (Session \cup Client) \ {c} : Handlers(s)' = Handlers(s)
        BY <2>1, <2>2
    <2> QED
        BY <2>3, <2>4
<1>3. TypeOK'
    <2>1. /\ pc' \in [IO -> {"wait", "ended"} \cup Handling]
          /\ at' \in [IO -> Session \cup Client \cup {NoSession}]
          /\ \A u \in IO : /\ pc'[u] \in Handling <=> at'[u] # NoSession
                           /\ pc'[u] = "client" <=> at'[u] \in Client
        BY NameAssumption DEF TypeOK, Handling
    <2>2. /\ tcp' \in [Client -> {"none", "off", "on", "shut", "deleted"}]
          /\ rov' \in [Client -> {"none", "pending", "done"}]
          /\ bad' \subseteq Session \cup Client \cup IO /\ stray' \subseteq Client
        BY <1>1, UseTyped DEF TypeOK
    <2> QED
        BY <2>1, <2>2 DEF TypeOK
<1>4. UdpReceive' /\ Untouched'
    BY <1>1, <1>2, SameSessions, NameAssumption
<1>5. ClientReceive'
    BY <1>1, <1>2 DEF TypeOK, ClientReceive
<1>6. Stopping'
    BY DEF Stopping
<1>7. Undisturbed'
    <2>1. t \in freed => t \in outlasted
        BY DEF Undisturbed, ThreadsKept
    <2>2. {t, c} \cap Deleted \subseteq outlasted
        BY <1>1, <2>1, NameAssumption DEF TypeOK, Deleted
    <2>3. SafeDelete'
        BY <2>2, UseSafe DEF Undisturbed
    <2>4. ThreadsKept'
        BY <2>1 DEF TypeOK, Undisturbed, ThreadsKept
    <2>5. ClientsKept'
        BY <1>1 DEF TypeOK, Undisturbed, ClientsKept
    <2>6. \A s \in Session : Handlers(s)' = Handlers(s)
        BY <1>1, <1>2, NameAssumption
    <2>7. SessionsKept' /\ StoppedKept'
        BY <2>6 DEF Undisturbed, SessionsKept, StoppedKept, NoHandler
    <2> QED
        BY <2>3, <2>4, <2>5, <2>7 DEF Undisturbed
<1> QED
    BY <1>3, <1>4, <1>5, <1>6, <1>7
----------------------------------------------------------------------------
(* The steps of an IOThread about a session.                               *)

LEMMA DequeueInv ==
    ASSUME NetInv, NEW t \in IO, NEW s \in Session, Dequeue(t, s) PROVE NetInv'
<1> USE DEF NetInv, Dequeue, clients, history
<1>0. Handlers(s) = {} /\ \A r \in Session \cup Client : t \notin Handlers(r)
    BY AtWait DEF UdpReceive
<1>1. \A r \in Session \cup Client : Handlers(r)' = IF r = s THEN {t} ELSE Handlers(r)
    <2>1. \A r \in Session \cup Client :
             Handlers(r)' = IF r = s THEN Handlers(r) \cup {t} ELSE Handlers(r) \ {t}
        BY Handled
    <2> QED
        BY <1>0, <2>1
<1>2. TypeOK'
    BY UseTyped, NameAssumption DEF TypeOK, Handling
<1>3. UdpReceive'
    <2>1. Handlers(s)' = {t} /\ recv'[s] = "none"
        BY <1>1 DEF TypeOK
    <2>2. \A r \in Session \ {s} : Handlers(r)' = Handlers(r) /\ recv'[r] = recv[r]
        BY <1>1 DEF TypeOK
    <2> QED
        BY <2>1, <2>2 DEF UdpReceive
<1>4. ClientReceive'
    BY <1>1, SameClients, NameAssumption
<1>5. Untouched' /\ Stopping'
    BY <1>1 DEF TypeOK, Untouched, Stopping
<1>6. Undisturbed'
    <2>1. t \in freed => t \in outlasted
        BY DEF Undisturbed, ThreadsKept
    <2>2. {t} \cap Deleted \subseteq outlasted
        BY <2>1, NameAssumption DEF Deleted
    <2>3. SafeDelete'
        BY <2>2, UseSafe DEF Undisturbed
    <2>4. ThreadsKept'
        BY <2>1 DEF TypeOK, Undisturbed, ThreadsKept
    <2>5. SessionsKept'
        BY <1>1, NameAssumption DEF TypeOK, Undisturbed, SessionsKept, NoHandler, Delivers
    <2>6. StoppedKept' /\ ClientsKept'
        BY DEF Undisturbed, StoppedKept, ClientsKept
    <2> QED
        BY <2>3, <2>4, <2>5, <2>6 DEF Undisturbed
<1> QED
    BY <1>2, <1>3, <1>4, <1>5, <1>6

LEMMA EndInv == ASSUME NetInv, NEW t \in IO, End(t) PROVE NetInv'
<1> USE DEF NetInv, End, sessions, clients, history
<1>0. \A x : Handlers(x)' = Handlers(x)
    BY SameHandlers
<1>1. TypeOK'
    BY UseTyped, AtWait, NameAssumption DEF TypeOK, Handling
<1>2. UdpReceive' /\ Untouched' /\ ClientReceive'
    BY <1>0, SameSessions, SameClients
<1>3. Stopping'
    BY DEF Stopping
<1>4. Undisturbed'
    <2>1. t \in freed => t \in outlasted
        BY DEF Undisturbed, ThreadsKept
    <2>2. {t} \cap Deleted \subseteq outlasted
        BY <2>1, NameAssumption DEF Deleted
    <2>3. SafeDelete'
        BY <2>2, UseSafe DEF Undisturbed
    <2>4. ThreadsKept'
        BY <2>1 DEF TypeOK, Undisturbed, ThreadsKept
    <2>5. SessionsKept'
        BY <1>0, NameAssumption DEF TypeOK, Undisturbed, SessionsKept, NoHandler
    <2>6. StoppedKept' /\ ClientsKept'
        BY DEF Undisturbed, StoppedKept, ClientsKept
    <2> QED
        BY <2>3, <2>4, <2>5, <2>6 DEF Undisturbed
<1> QED
    BY <1>1, <1>2, <1>3, <1>4

\* Where a thread in the handler of a session stands.
OfSession == Handling \ {"client"}

LEMMA InHandler ==
    ASSUME NetInv, NEW t \in IO, pc[t] \in OfSession
    PROVE  /\ at[t] \in Session /\ Handlers(at[t]) = {t}
           /\ recv[at[t]] = "none" /\ life[at[t]] # "none"
           /\ force[at[t]] \/ life[at[t]] = "deleted" => at[t] \in crossed
           /\ t \in freed => t \in outlasted
           /\ {t, at[t]} \cap Deleted \subseteq crossed \cup outlasted
           /\ \A s \in (Session \cup Client) \ {at[t]} : t \notin Handlers(s)
<1>1. at[t] \in Session /\ t \in Handlers(at[t])
    BY DEF NetInv, TypeOK, Handlers, OfSession, Handling
<1>2. Handlers(at[t]) = {t} /\ recv[at[t]] = "none" /\ life[at[t]] # "none"
    BY <1>1 DEF NetInv, UdpReceive, Untouched
<1>3. /\ force[at[t]] \/ life[at[t]] = "deleted" => at[t] \in crossed
      /\ t \in freed => t \in outlasted
    BY <1>1, <1>2 DEF NetInv, Undisturbed, SessionsKept, NoHandler, ThreadsKept,
                      OfSession, Handling
<1>5. {t, at[t]} \cap Deleted \subseteq crossed \cup outlasted
    BY <1>1, <1>3, NameAssumption DEF NetInv, TypeOK, Deleted
<1>4. \A s \in (Session \cup Client) \ {at[t]} : t \notin Handlers(s)
    BY DEF Handlers
<1> QED
    BY <1>1, <1>2, <1>3, <1>4, <1>5

\* A step inside a handler that posts nothing and deletes nothing.
LEMMA GoOnInv ==
    ASSUME NetInv, NEW t \in IO, NEW l \in OfSession, pc[t] \in OfSession,
           GoOn(t, l), Uses({t, at[t]}),
           UNCHANGED <<port, sessions, clients, freed, main, arg, history>>
    PROVE  NetInv'
<1> USE DEF NetInv, GoOn, sessions, clients, history
<1>0. \A x : Handlers(x)' = Handlers(x)
    BY SameHandlers
<1>1. TypeOK'
    <2>1. at[t] \in Session
        BY InHandler
    <2>2. /\ pc' \in [IO -> {"wait", "ended"} \cup Handling]
          /\ \A u \in IO : /\ pc'[u] \in Handling <=> at[u] # NoSession
                           /\ pc'[u] = "client" <=> at[u] \in Client
        BY <2>1, NameAssumption DEF TypeOK, Handling, OfSession
    <2> QED
        BY <2>2, UseTyped DEF TypeOK
<1>2. UdpReceive' /\ Untouched' /\ ClientReceive'
    BY <1>0, SameSessions, SameClients
<1>3. Stopping'
    BY DEF Stopping
<1>4. Undisturbed'
    <2>1. SafeDelete'
        BY InHandler, UseSafe DEF Undisturbed
    <2>2. ThreadsKept'
        BY InHandler DEF TypeOK, Undisturbed, ThreadsKept
    <2>3. SessionsKept' /\ StoppedKept' /\ ClientsKept'
        BY <1>0 DEF Undisturbed, SessionsKept, StoppedKept, ClientsKept, NoHandler
    <2> QED
        BY <2>1, <2>2, <2>3 DEF Undisturbed
<1> QED
    BY <1>1, <1>2, <1>3, <1>4

\* What is left when a thread has left the handler of a session.
LEMMA Left ==
    ASSUME NetInv, NEW t \in IO, pc[t] \in OfSession, Leave(t)
    PROVE  /\ \A s \in Session \cup Client :
                 Handlers(s)' = IF s = at[t] THEN {} ELSE Handlers(s)
           /\ pc' \in [IO -> {"wait", "ended"} \cup Handling]
           /\ at' \in [IO -> Session \cup Client \cup {NoSession}]
           /\ \A u \in IO : /\ pc'[u] \in Handling <=> at'[u] # NoSession
                            /\ pc'[u] = "client" <=> at'[u] \in Client
<1> USE DEF NetInv, Leave
<1>1. \A s \in Session \cup Client : Handlers(s)' = Handlers(s) \ {t}
    <2>1. \A s \in Session \cup Client :
             Handlers(s)' = IF s = NoSession THEN Handlers(s) \cup {t} ELSE Handlers(s) \ {t}
        BY Handled
    <2> QED
        BY <2>1, NameAssumption
<1>2. \A s \in Session \cup Client : Handlers(s)' = IF s = at[t] THEN {} ELSE Handlers(s)
    <2>1. /\ Handlers(at[t]) = {t}
          /\ \A s \in (Session \cup Client) \ {at[t]} : t \notin Handlers(s)
        BY InHandler
    <2> QED
        BY <1>1, <2>1
<1> QED
    BY <1>2, NameAssumption DEF TypeOK, Handling

\* A thread leaves a session that is being closed.
LEMMA LeaveInv ==
    ASSUME NetInv, NEW t \in IO, pc[t] \in OfSession, force[at[t]],
           Leave(t), Uses({t, at[t]}),
           UNCHANGED <<port, force, bound, recv, deaf, clients, freed, main, arg, history>>,
           UNCHANGED life \/ life' = [life EXCEPT ![at[t]] = "deleted"]
    PROVE  NetInv'
<1> USE DEF NetInv, clients, history
<1>0. at[t] \in Session /\ life[at[t]] # "none" /\ at[t] \notin Client
    BY InHandler, NameAssumption
<1>1. \A s \in Session \cup Client : Handlers(s)' = IF s = at[t] THEN {} ELSE Handlers(s)
    BY Left
<1>2. TypeOK'
    BY <1>0, Left, UseTyped DEF TypeOK
<1>3. UdpReceive'
    BY <1>0, <1>1 DEF TypeOK, UdpReceive
<1>4. ClientReceive'
    BY <1>0, <1>1, SameClients
<1>5. Untouched' /\ Stopping'
    BY <1>0, <1>1 DEF TypeOK, Untouched, Stopping
<1>6. Undisturbed'
    <2>1. SafeDelete'
        BY InHandler, UseSafe DEF Undisturbed
    <2>2. ThreadsKept'
        BY InHandler DEF TypeOK, Undisturbed, ThreadsKept, Leave
    <2>3. at[t] \in crossed /\ recv[at[t]] = "none"
        BY InHandler
    <2>4. SessionsKept'
        BY <1>0, <1>1, <2>3 DEF TypeOK, Undisturbed, SessionsKept, NoHandler
    <2>5. StoppedKept' /\ ClientsKept'
        BY <1>0, <2>3 DEF TypeOK, Undisturbed, StoppedKept, ClientsKept, Stopping
    <2> QED
        BY <2>1, <2>2, <2>4, <2>5 DEF Undisturbed
<1> QED
    BY <1>2, <1>3, <1>4, <1>5, <1>6

LEMMA OnRecvInv == ASSUME NetInv, NEW t \in IO, OnRecv(t) PROVE NetInv'
<1>1. CASE force[at[t]]
    BY <1>1, LeaveInv DEF OnRecv, Stops, OfSession, Handling
<1>2. CASE ~force[at[t]]
    BY <1>2, GoOnInv DEF OnRecv, Stops, OfSession, Handling, sessions
<1> QED
    BY <1>1, <1>2

LEMMA CallInv == ASSUME NetInv, NEW t \in IO, Call(t) PROVE NetInv'
    BY GoOnInv DEF Call, OfSession, Handling

LEMMA AgainInv == ASSUME NetInv, NEW t \in IO, Again(t) PROVE NetInv'
<1>1. CASE force[at[t]]
    BY <1>1, LeaveInv DEF Again, Resumes, OfSession, Handling, sessions
<1>2. CASE ~force[at[t]]
    BY <1>2, GoOnInv DEF Again, Resumes, OfSession, Handling
<1> QED
    BY <1>1, <1>2

LEMMA PostInv == ASSUME NetInv, NEW t \in IO, Post(t) PROVE NetInv'
<1>1. CASE force[at[t]]
    BY <1>1, LeaveInv DEF Post, Stops, OfSession, Handling
<1>2. CASE ~force[at[t]]
    <2> USE DEF NetInv, Post, Stops, clients, history
    <2>0. /\ at[t] \in Session /\ life[at[t]] # "none" /\ at[t] \notin Client
          /\ life[at[t]] # "deleted"
        BY <1>2, InHandler, NameAssumption
        DEF OfSession, Handling, Undisturbed, SessionsKept
    <2>1. \A s \in Session \cup Client : Handlers(s)' = IF s = at[t] THEN {} ELSE Handlers(s)
        BY Left DEF OfSession, Handling
    <2>2. TypeOK'
        <3>1. /\ recv' \in [Session -> {"none", "pending", "done"}]
              /\ deaf' \in [Session -> BOOLEAN]
              /\ bad' \subseteq Session \cup Client \cup IO
            BY <2>0, UseTyped DEF TypeOK
        <3> QED
            BY <3>1, Left DEF TypeOK, OfSession, Handling
    <2>3. UdpReceive'
        BY <1>2, <2>0, <2>1 DEF TypeOK, UdpReceive
    <2>4. ClientReceive'
        BY <2>0, <2>1, SameClients
    <2>5. Untouched' /\ Stopping'
        BY <2>0, <2>1 DEF TypeOK, Untouched, Stopping
    <2>6. Undisturbed'
        <3>1. SafeDelete'
            BY InHandler, UseSafe DEF Undisturbed, OfSession, Handling
        <3>2. ThreadsKept'
            BY InHandler DEF TypeOK, Undisturbed, ThreadsKept, Leave, OfSession, Handling
        <3>3. SessionsKept'
            BY <2>0, <2>1 DEF TypeOK, Undisturbed, SessionsKept, NoHandler
        <3>4. StoppedKept' /\ ClientsKept'
            BY DEF Undisturbed, StoppedKept, ClientsKept
        <3> QED
            BY <3>1, <3>2, <3>3, <3>4 DEF Undisturbed
    <2> QED
        BY <2>2, <2>3, <2>4, <2>5, <2>6
<1> QED
    BY <1>1, <1>2
----------------------------------------------------------------------------
LEMMA NextInv == NetInv /\ [Next]_vars => NetInv'
<1> SUFFICES ASSUME NetInv, [Next]_vars PROVE NetInv'
    OBVIOUS
<1>1. CASE UNCHANGED vars
    <2> USE <1>1 DEF vars, sessions, clients, threads, history, NetInv
    <2>0. \A x : Handlers(x)' = Handlers(x)
        BY SameHandlers
    <2>1. TypeOK' /\ Stopping'
        BY DEF TypeOK, Stopping
    <2>2. UdpReceive' /\ Untouched' /\ ClientReceive'
        BY <2>0, SameSessions, SameClients
    <2>3. Undisturbed'
        BY <2>0 DEF Undisturbed, SafeDelete, SessionsKept, StoppedKept,
               ThreadsKept, ClientsKept, NoHandler
    <2> QED
        BY <2>1, <2>2, <2>3
<1>2. ASSUME NEW s \in Session, Run(s) \/ StopPort(s) \/ Arrive(s) PROVE NetInv'
    BY <1>2, RunInv, StopPortInv, ArriveInv
<1>3. ASSUME NEW c \in Client,
             \/ RunClient(c) \/ StopClient(c) \/ Release(c) \/ Connect(c)
             \/ ArriveClient(c) \/ DisconnectClient(c)
      PROVE  NetInv'
    BY <1>3, RunClientInv, ShutInv, ConnectInv, ArriveClientInv
<1>4. CASE StopForce \/ StopDelete \/ Uninit \/ ClosePort
    BY <1>4, StopForceInv, StopDeleteInv, UninitInv
<1>5. ASSUME NEW t \in IO, DeleteThread(t) \/ Thread(t) PROVE NetInv'
    BY <1>5, DeleteThreadInv, DequeueInv, DequeueClientInv, OnRecvClientInv, EndInv,
       OnRecvInv, CallInv, AgainInv, PostInv DEF Thread
<1> QED
    BY <1>1, <1>2, <1>3, <1>4, <1>5 DEF Next

\* The invariant holds for any IOThreads, sessions and clients.
THEOREM NetInvariant == Spec => []NetInv
    BY InitInv, NextInv, PTL DEF Spec

\* Flags, receives and threads keep their types.
THEOREM TypeCorrect == Spec => []TypeOK
<1>1. NetInv => TypeOK
    BY DEF NetInv
<1> QED
    BY <1>1, NetInvariant, PTL

\* No two threads are ever in _on_recv of one session or client; a session that
\* is not stopped keeps listening (session_udp.h:215), and a client has a
\* receive until its teardown (session_tcp.h:316).
THEOREM ReceiveCorrect == Spec => []OneReceive
<1>1. NetInv => OneReceive
    BY DEF NetInv, OneReceive
<1> QED
    BY <1>1, NetInvariant, PTL

\* A session, a client or an IOThread that is used after its delete is itself one
\* of those named: handled or listening as stop_udp deleted it, late to end, or
\* released behind the Net's back (net.h:109-117, 150-162, 223-250).
THEOREM DeleteCorrect == Spec => []SafeDelete
<1>1. NetInv => SafeDelete
    BY DEF NetInv, Undisturbed
<1> QED
    BY <1>1, NetInvariant, PTL
============================================================================

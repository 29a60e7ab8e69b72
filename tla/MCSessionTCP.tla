---------------------------- MODULE MCSessionTCP ----------------------------
(* Small instances of SessionTCP for TLC. *)
EXTENDS SessionTCP

CONSTANTS u1, i1, i2

\* Two IOThreads and an application thread call at the same time.
Threads ==
    [server |-> FALSE, io |-> {i1, i2}, user |-> Call, onConn |-> {"send"},
     onRecv |-> {"send", "disconnect"}, onDisc |-> {"connect", "release"},
     sends |-> 2]

\* One IOThread runs every call, nested in the callbacks: a session of an
\* Acceptor, or of the application.
Callbacks(isServer) ==
    [server |-> isServer, io |-> {i1}, user |-> {"connect"},
     onConn |-> {"send", "disconnect"},
     onRecv |-> {"send", "disconnect", "release"}, onDisc |-> {"connect"},
     sends |-> 3]

MCSetups == {Threads, Callbacks(TRUE), Callbacks(FALSE)}
=============================================================================

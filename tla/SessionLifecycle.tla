-------------------------- MODULE SessionLifecycle --------------------------
(***************************************************************************)
(* How sessions come and go: Listener (accept events), ClientService       *)
(* (ConnectEx), ProcessConnect, the receive loop, Disconnect and           *)
(* ProcessDisconnect, with the two registries a live session is in: the    *)
(* Service's _sessions and the ChatSessionManager's.                       *)
(*                                                                         *)
(* A completion is dispatched by whichever worker dequeues it, also when   *)
(* the operation failed (IocpCore::Dispatch does not pass the error on).   *)
(* Each lock-protected block and each call to Winsock is one step.  Sends  *)
(* are SessionSend's subject; here they are one more source of Disconnect. *)
(*                                                                         *)
(* A session object is used once.  It dies when the last shared_ptr to it  *)
(* goes: the registries, an accept event, the owner field of an            *)
(* outstanding operation or a thread inside one of its functions.          *)
(***************************************************************************)
EXTENDS Integers, FiniteSets

CONSTANTS Events,       \* the Listener's accept events, _maxSessionCount of them
          Sessions,     \* bound: session objects ever created
          None,         \* no session
          Clients,      \* sessions a ClientService may have created at Start
          Faults        \* Winsock failures the run admits

FaultKinds == {"accept",        \* AcceptEx completed with an error, or
                                \*   SO_UPDATE_ACCEPT_CONTEXT or getpeername fails
               "connect",       \* ConnectEx completed with an error
               "recvReset",     \* WSARecv fails at once: connection reset
               "recvOther",     \* WSARecv fails at once with another error
               "disconnect"}    \* DisconnectEx fails at once

ASSUME LifecycleAssumption ==
    /\ IsFiniteSet(Events) /\ IsFiniteSet(Sessions)
    /\ None \notin Sessions /\ Clients \subseteq Sessions
    /\ Faults \subseteq FaultKinds

VARIABLES accepting,    \* AcceptEvent::session of each accept event
          fresh,        \* session objects not created yet
          connected,    \* _connected
          arrived,      \* history: the peer's connection was really established
          stage,        \* where the thread in ProcessConnect is, per session
          event,        \* the accept event that thread re-arms afterwards
          recv,         \* the receive loop: "none", "posted" or "handling"
          disconnect,   \* "none", "posted", "hook" (OnDisconnected), "release"
                        \*   (ReleaseSession) or "done"
          sessions,     \* Service::_sessions
          sessionCount, \* Service::_sessionCount
          managed,      \* ChatSessionManager::_sessions
          ignored,      \* history: <<session, call>> of every WSARecv and
                        \*   DisconnectEx whose failure was only logged
          crashed       \* ReleaseSession's ASSERT_CRASH failed

registries == <<sessions, sessionCount, managed>>
vars == <<accepting, fresh, connected, arrived, stage, event, recv, disconnect,
          sessions, sessionCount, managed, ignored, crashed>>

Stages == {"none", "connecting", "flag", "add", "hook", "recv"}

Init == /\ \E clients \in SUBSET Clients, f \in [Events -> Sessions] :
             /\ \A e \in Events : f[e] \notin clients
             /\ \A e, g \in Events : f[e] = f[g] => e = g
             /\ accepting = f
             /\ fresh = Sessions \ (clients \cup {f[e] : e \in Events})
             /\ stage = [s \in Sessions |-> IF s \in clients THEN "connecting" ELSE "none"]
        /\ connected = [s \in Sessions |-> FALSE]
        /\ arrived = {}
        /\ event = [s \in Sessions |-> None]
        /\ recv = [s \in Sessions |-> "none"]
        /\ disconnect = [s \in Sessions |-> "none"]
        /\ sessions = {} /\ sessionCount = 0 /\ managed = {}
        /\ ignored = {} /\ crashed = FALSE

-----------------------------------------------------------------------------
(* Listener *)

Rearm_SameSession(e) == /\ \E s \in Sessions : /\ event[s] = e
                                              /\ accepting' = [accepting EXCEPT ![e] = s]
                        /\ UNCHANGED fresh
\* RegisterAccept: a new session object waits in the event.
Rearm(e) == \E s \in fresh : /\ accepting' = [accepting EXCEPT ![e] = s]
                             /\ fresh' = fresh \ {s}

\* ProcessAccept when the accepted socket cannot be set up, or RegisterAccept when
\* AcceptEx fails at once.
AcceptFails(e) ==
    /\ "accept" \in Faults /\ accepting[e] # None
    /\ Rearm(e)
    /\ UNCHANGED <<connected, arrived, stage, event, recv, disconnect, registries,
                   ignored, crashed>>

Accept(e) ==
    /\ accepting[e] # None
    /\ LET s == accepting[e] IN
       /\ arrived' = arrived \cup {s}
       /\ stage' = [stage EXCEPT ![s] = "flag"]
       /\ event' = [event EXCEPT ![s] = e]
    /\ accepting' = [accepting EXCEPT ![e] = None]
    /\ UNCHANGED <<fresh, connected, recv, disconnect, registries, ignored, crashed>>

\* ... and the end of ProcessAccept.
RearmAfterConnect(e) ==
    /\ accepting[e] = None
    /\ \A s \in Sessions : event[s] = e => stage[s] = "none"
    /\ Rearm(e)
    /\ UNCHANGED <<connected, arrived, stage, event, recv, disconnect, registries,
                   ignored, crashed>>

\* The completion of a ClientService's ConnectEx.
ConnectCompletes(s) ==
    /\ stage[s] = "connecting"
    /\ \/ arrived' = arrived \cup {s}
       \/ "connect" \in Faults /\ UNCHANGED arrived
    /\ stage' = [stage EXCEPT ![s] = "flag"]
    /\ UNCHANGED <<accepting, fresh, connected, event, recv, disconnect,
                   registries, ignored, crashed>>

-----------------------------------------------------------------------------
(* Session::Disconnect, for the thread that finds _connected true: the     *)
(* exchange lets one of any number of callers through to DisconnectEx.     *)

MayDisconnect_FlagIgnored(s) == TRUE
MayDisconnect(s) == connected[s]

Disconnect(s) ==
    \/ /\ ~MayDisconnect(s)
       /\ UNCHANGED <<connected, disconnect, ignored>>
    \/ /\ MayDisconnect(s)
       /\ connected' = [connected EXCEPT ![s] = FALSE]
       /\ \/ /\ disconnect' = [disconnect EXCEPT ![s] = "posted"]
             /\ UNCHANGED ignored
          \/ /\ "disconnect" \in Faults
             /\ ignored' = ignored \cup {<<s, "disconnect">>}
             /\ UNCHANGED disconnect

HandleError_PrintsOnly(s) == UNCHANGED <<connected, disconnect, ignored>>
\* A reset or aborted connection.
HandleError(s) == Disconnect(s)

\* RegisterRecv: posted, or refused at once; HandleError prints any other error.
RegisterRecv(s) ==
    \/ /\ ~connected[s]
       /\ recv' = [recv EXCEPT ![s] = "none"]
       /\ UNCHANGED <<connected, disconnect, ignored>>
    \/ /\ connected[s] /\ s \in arrived
       /\ recv' = [recv EXCEPT ![s] = "posted"]
       /\ UNCHANGED <<connected, disconnect, ignored>>
    \/ /\ connected[s] /\ "recvReset" \in Faults
       /\ recv' = [recv EXCEPT ![s] = "none"]
       /\ HandleError(s)
    \/ /\ connected[s] /\ ("recvOther" \in Faults \/ s \notin arrived)
       /\ recv' = [recv EXCEPT ![s] = "none"]
       /\ ignored' = ignored \cup {<<s, "recv">>}
       /\ UNCHANGED <<connected, disconnect>>

-----------------------------------------------------------------------------
(* ProcessConnect *)

SetConnected(s) ==
    /\ stage[s] = "flag"
    /\ connected' = [connected EXCEPT ![s] = TRUE]
    /\ stage' = [stage EXCEPT ![s] = "add"]
    /\ UNCHANGED <<accepting, fresh, arrived, event, recv, disconnect, registries,
                   ignored, crashed>>

AddSession(s) ==
    /\ stage[s] = "add"
    /\ sessionCount' = sessionCount + 1
    /\ sessions' = sessions \cup {s}
    /\ stage' = [stage EXCEPT ![s] = "hook"]
    /\ UNCHANGED <<accepting, fresh, connected, arrived, event, recv, disconnect,
                   managed, ignored, crashed>>

OnConnected(s) ==
    /\ stage[s] = "hook"
    /\ managed' = managed \cup {s}
    /\ stage' = [stage EXCEPT ![s] = "recv"]
    /\ UNCHANGED <<accepting, fresh, connected, arrived, event, recv, disconnect,
                   sessions, sessionCount, ignored, crashed>>

FirstRecv(s) ==
    /\ stage[s] = "recv"
    /\ RegisterRecv(s)
    /\ stage' = [stage EXCEPT ![s] = "none"]
    /\ UNCHANGED <<accepting, fresh, arrived, event, registries, crashed>>

-----------------------------------------------------------------------------
(* ProcessRecv *)

\* A completion with data runs the packet handlers, also when the session was
\* disconnected before the completion was dequeued.
RecvData(s) ==
    /\ recv[s] = "posted"
    /\ recv' = [recv EXCEPT ![s] = "handling"]
    /\ UNCHANGED <<accepting, fresh, connected, arrived, stage, event, disconnect,
                   registries, ignored, crashed>>

\* A completion with 0 bytes: the peer closed, an error, or our own DisconnectEx.
RecvZero(s) ==
    /\ recv[s] = "posted"
    /\ recv' = [recv EXCEPT ![s] = "none"]
    /\ Disconnect(s)
    /\ UNCHANGED <<accepting, fresh, arrived, stage, event, registries, crashed>>

NextRecv(s) ==
    /\ recv[s] = "handling"
    /\ RegisterRecv(s)
    /\ UNCHANGED <<accepting, fresh, arrived, stage, event, registries, crashed>>

\* Other threads know the session once its handlers have run, and a client's
\* OnConnected already sends: a failed or empty send may disconnect it any time.
OtherDisconnects(s) ==
    /\ recv[s] # "none" \/ (event[s] = None /\ stage[s] = "recv")
    /\ connected[s]
    /\ Disconnect(s)
    /\ UNCHANGED <<accepting, fresh, arrived, stage, event, recv, registries, crashed>>

-----------------------------------------------------------------------------
(* ProcessDisconnect *)

DisconnectCompletes(s) ==
    /\ disconnect[s] = "posted"
    /\ disconnect' = [disconnect EXCEPT ![s] = "hook"]
    /\ UNCHANGED <<accepting, fresh, connected, arrived, stage, event, recv,
                   registries, ignored, crashed>>

Unmanaged_Kept(s) == managed
Unmanaged(s) == managed \ {s}

OnDisconnected(s) ==
    /\ disconnect[s] = "hook"
    /\ managed' = Unmanaged(s)
    /\ disconnect' = [disconnect EXCEPT ![s] = "release"]
    /\ UNCHANGED <<accepting, fresh, connected, arrived, stage, event, recv,
                   sessions, sessionCount, ignored, crashed>>

Erased_Kept(s) == sessions
Erased(s) == sessions \ {s}

\* ASSERT_CRASH(_sessions.erase(session) != 0), then the count.
ReleaseSession(s) ==
    /\ disconnect[s] = "release"
    /\ crashed' = (s \notin sessions)
    /\ sessions' = Erased(s)
    /\ sessionCount' = IF s \in sessions THEN sessionCount - 1 ELSE sessionCount
    /\ disconnect' = [disconnect EXCEPT ![s] = "done"]
    /\ UNCHANGED <<accepting, fresh, connected, arrived, stage, event, recv, managed,
                   ignored>>

-----------------------------------------------------------------------------
\* A completion of an operation that needs nothing from the peer, or a step of a
\* worker inside one.
Worker(s) == \/ SetConnected(s) \/ AddSession(s) \/ OnConnected(s) \/ FirstRecv(s)
             \/ NextRecv(s)
             \/ DisconnectCompletes(s) \/ OnDisconnected(s) \/ ReleaseSession(s)

Next == /\ ~crashed
        /\ \/ \E e \in Events : Accept(e) \/ AcceptFails(e) \/ RearmAfterConnect(e)
           \/ \E s \in Sessions : \/ Worker(s) \/ ConnectCompletes(s)
                                  \/ RecvData(s) \/ RecvZero(s) \/ OtherDisconnects(s)

Spec == Init /\ [][Next]_vars

\* Workers go on; a receive outstanding on a closed socket completes.
FairSpec == /\ Spec
            /\ \A s \in Sessions : /\ WF_vars(Worker(s) /\ ~crashed)
                                   /\ WF_vars(RecvZero(s) /\ ~connected[s] /\ ~crashed)
-----------------------------------------------------------------------------
(* Properties *)

\* Types of the registries and of each session's operations.
TypeOK ==
    /\ accepting \in [Events -> Sessions \cup {None}]
    /\ fresh \subseteq Sessions /\ arrived \subseteq Sessions
    /\ connected \in [Sessions -> BOOLEAN]
    /\ stage \in [Sessions -> Stages]
    /\ event \in [Sessions -> Events \cup {None}]
    /\ recv \in [Sessions -> {"none", "posted", "handling"}]
    /\ disconnect \in [Sessions -> {"none", "posted", "hook", "release", "done"}]
    /\ sessions \subseteq Sessions /\ managed \subseteq Sessions
    /\ ignored \subseteq Sessions \X {"recv", "disconnect"}
    /\ sessionCount \in Nat
    /\ crashed \in BOOLEAN

\* ReleaseSession finds its session: no interleaving of a disconnect with the
\* steps of ProcessConnect releases a session before it was added, or twice.
NoReleaseCrash == ~crashed

\* The three registries agree while sessions come and go: the count is the size
\* of the service's set, what the manager broadcasts to is in that set, and a
\* session that is set up and connected is in both.  An accept event waits with a
\* session of its own, that no registry and no other event has.
RegistriesAgree ==
    /\ sessionCount = Cardinality(sessions)
    /\ managed \subseteq sessions
    /\ \A s \in Sessions : connected[s] /\ stage[s] = "none" => s \in managed
    /\ \A e, g \in Events : accepting[e] # None /\ accepting[e] = accepting[g] => e = g
    /\ \A e \in Events : accepting[e] # None =>
          /\ accepting[e] \notin sessions \cup fresh
          /\ stage[accepting[e]] = "none" /\ ~connected[accepting[e]]

\* A session that is set up and connected has its receive loop running
\* ("register the receive again: keep the loop", Session.cpp:338), whoever sends
\* or disconnects meanwhile, unless the failure of its WSARecv was ignored.
RecvLoopKept == \A s \in Sessions :
    connected[s] /\ stage[s] = "none" /\ <<s, "recv">> \notin ignored => recv[s] # "none"

\* When the connection has ended the session is released from the service
\* ("session release, called when the connection ends", Service.cpp:61), unless
\* the failure of its DisconnectEx was ignored.
Released == \A s \in Sessions :
    s \in sessions /\ ~connected[s] ~> s \notin sessions \/ <<s, "disconnect">> \in ignored
=============================================================================

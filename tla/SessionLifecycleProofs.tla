------------------------ MODULE SessionLifecycleProofs ------------------------
(***************************************************************************)
(* Proofs about SessionLifecycle for any accept events, session objects,   *)
(* clients and faults.                                                     *)
(*                                                                         *)
(* None of the safety properties is inductive alone.  What they rest on is *)
(* the life of a session object (Life): unused, then through the stages of *)
(* ProcessConnect, where nobody can disconnect it before it is in both     *)
(* registries, then at most one disconnect, which takes it out of the      *)
(* manager first and of the service afterwards.                            *)
(***************************************************************************)
EXTENDS SessionLifecycle, FiniteSetTheorems, TLAPS

\* An object no connection has been brought to yet.
Unused(s) == s \in fresh \/ \E e \in Events : accepting[e] = s

Idle(s) == stage[s] = "none" /\ recv[s] = "none" /\ disconnect[s] = "none"

\* From nothing to set up: registered in order, and not to be disconnected before.
SettingUp(s) ==
    /\ Unused(s) => Idle(s) /\ ~connected[s] /\ s \notin sessions
    /\ stage[s] \in {"connecting", "flag", "add", "hook"} =>
          recv[s] = "none" /\ disconnect[s] = "none" /\ s \notin managed
    /\ stage[s] \in {"connecting", "flag"} => ~connected[s]
    /\ stage[s] \in {"connecting", "flag", "add"} => s \notin sessions
    /\ stage[s] = "hook" => s \in sessions
    /\ stage[s] = "recv" => recv[s] = "none"

\* From set up to released: out of the manager before out of the service.
TakingDown(s) ==
    /\ connected[s] /\ stage[s] \in {"recv", "none"} => s \in managed
    /\ disconnect[s] # "none" => ~connected[s] /\ stage[s] \in {"recv", "none"}
    /\ disconnect[s] \in {"posted", "hook"} => s \in managed
    /\ disconnect[s] = "release" => s \in sessions /\ s \notin managed
    /\ s \in managed => s \in sessions

Life == \A s \in Sessions : SettingUp(s) /\ TakingDown(s)

\* An object waits in one event at most, and not among those not created.
EventsOwn ==
    /\ \A e, g \in Events : accepting[e] # None /\ accepting[e] = accepting[g] => e = g
    /\ \A e \in Events : accepting[e] \notin fresh

IInv == TypeOK /\ EventsOwn /\ Life /\ NoReleaseCrash /\ sessionCount = Cardinality(sessions)

-----------------------------------------------------------------------------
(* Disconnect and RegisterRecv, the helpers every thread goes through *)

\* One caller at most gets through, and it finds the session in the manager.
LEMMA DisconnectFacts ==
  ASSUME TypeOK, NEW s \in Sessions, Disconnect(s)
  PROVE  /\ connected' = [connected EXCEPT ![s] = FALSE]
         /\ \/ disconnect' = disconnect
            \/ connected[s] /\ disconnect' = [disconnect EXCEPT ![s] = "posted"]
         /\ \/ ignored' = ignored
            \/ ignored' = ignored \cup {<<s, "disconnect">>}
  BY DEF TypeOK, Disconnect, MayDisconnect

LEMMA RegisterRecvFacts ==
  ASSUME TypeOK, NEW s \in Sessions, RegisterRecv(s)
  PROVE  /\ \/ connected' = connected
            \/ connected' = [connected EXCEPT ![s] = FALSE]
         /\ \/ disconnect' = disconnect
            \/ connected[s] /\ disconnect' = [disconnect EXCEPT ![s] = "posted"]
               /\ connected' = [connected EXCEPT ![s] = FALSE]
         /\ \/ ignored' = ignored
            \/ ignored' = ignored \cup {<<s, "disconnect">>}
            \/ ignored' = ignored \cup {<<s, "recv">>}
         /\ \/ recv' = [recv EXCEPT ![s] = "none"]
               /\ (~connected'[s] \/ ignored' = ignored \cup {<<s, "recv">>})
            \/ recv' = [recv EXCEPT ![s] = "posted"] /\ connected[s]
<1>1. CASE ~connected[s] /\ recv' = [recv EXCEPT ![s] = "none"]
           /\ UNCHANGED <<connected, disconnect, ignored>>
  BY <1>1
<1>2. CASE connected[s] /\ recv' = [recv EXCEPT ![s] = "posted"]
           /\ UNCHANGED <<connected, disconnect, ignored>>
  BY <1>2
<1>3. CASE connected[s] /\ recv' = [recv EXCEPT ![s] = "none"] /\ Disconnect(s)
  BY <1>3, DisconnectFacts DEF TypeOK
<1>4. CASE connected[s] /\ recv' = [recv EXCEPT ![s] = "none"]
           /\ ignored' = ignored \cup {<<s, "recv">>} /\ UNCHANGED <<connected, disconnect>>
  BY <1>4
<1> QED
  BY <1>1, <1>2, <1>3, <1>4 DEF RegisterRecv, HandleError

-----------------------------------------------------------------------------
(* Types *)

LEMMA InitTypes == Init => TypeOK
<1> SUFFICES ASSUME Init PROVE TypeOK
  OBVIOUS
<1>1. PICK clients \in SUBSET Clients, f \in [Events -> Sessions] :
         /\ accepting = f
         /\ fresh = Sessions \ (clients \cup {f[e] : e \in Events})
         /\ stage = [s \in Sessions |-> IF s \in clients THEN "connecting" ELSE "none"]
  BY DEF Init
<1>2. stage \in [Sessions -> Stages]
  BY <1>1 DEF Stages
<1>3. accepting \in [Events -> Sessions \cup {None}] /\ fresh \subseteq Sessions
  BY <1>1
<1>4. /\ arrived = {} /\ connected \in [Sessions -> BOOLEAN]
      /\ event \in [Sessions -> Events \cup {None}]
      /\ recv \in [Sessions -> {"none", "posted", "handling"}]
      /\ disconnect \in [Sessions -> {"none", "posted", "hook", "release", "done"}]
  BY DEF Init
<1> QED
  BY <1>2, <1>3, <1>4 DEF Init, TypeOK

LEMMA DisconnectTypes ==
  ASSUME TypeOK, NEW s \in Sessions, Disconnect(s)
  PROVE  /\ connected' \in [Sessions -> BOOLEAN]
         /\ disconnect' \in [Sessions -> {"none", "posted", "hook", "release", "done"}]
         /\ ignored' \subseteq Sessions \X {"recv", "disconnect"}
<1>1. connected' \in [Sessions -> BOOLEAN]
  BY DisconnectFacts DEF TypeOK
<1>2. disconnect' \in [Sessions -> {"none", "posted", "hook", "release", "done"}]
  BY DisconnectFacts DEF TypeOK
<1>3. ignored' \subseteq Sessions \X {"recv", "disconnect"}
  BY DisconnectFacts DEF TypeOK
<1> QED
  BY <1>1, <1>2, <1>3

LEMMA RegisterRecvTypes ==
  ASSUME TypeOK, NEW s \in Sessions, RegisterRecv(s)
  PROVE  /\ connected' \in [Sessions -> BOOLEAN]
         /\ disconnect' \in [Sessions -> {"none", "posted", "hook", "release", "done"}]
         /\ ignored' \subseteq Sessions \X {"recv", "disconnect"}
         /\ recv' \in [Sessions -> {"none", "posted", "handling"}]
<1>1. connected' \in [Sessions -> BOOLEAN]
  BY RegisterRecvFacts DEF TypeOK
<1>2. disconnect' \in [Sessions -> {"none", "posted", "hook", "release", "done"}]
  BY RegisterRecvFacts DEF TypeOK
<1>3. ignored' \subseteq Sessions \X {"recv", "disconnect"}
  BY RegisterRecvFacts DEF TypeOK
<1>4. recv' \in [Sessions -> {"none", "posted", "handling"}]
  BY RegisterRecvFacts DEF TypeOK
<1> QED
  BY <1>1, <1>2, <1>3, <1>4

LEMMA CountFacts ==
  ASSUME IInv
  PROVE  /\ IsFiniteSet(sessions)
         /\ \A s \in Sessions :
              /\ s \notin sessions => Cardinality(sessions \cup {s}) = sessionCount + 1
              /\ s \in sessions => /\ Cardinality(sessions \ {s}) = sessionCount - 1
                                   /\ sessionCount - 1 \in Nat
<1>1. IsFiniteSet(sessions)
  BY LifecycleAssumption, FS_Subset DEF IInv, TypeOK
<1> QED
  BY <1>1, FS_AddElement, FS_RemoveElement, FS_CardinalityType DEF IInv

LEMMA NextTypes == IInv /\ [Next]_vars => TypeOK'
<1> SUFFICES ASSUME IInv, [Next]_vars PROVE TypeOK'
  OBVIOUS
<1>0. TypeOK
  BY DEF IInv
<1>1. ASSUME NEW e \in Events, Accept(e) PROVE TypeOK'
  BY <1>0, <1>1 DEF Accept, Stages, TypeOK, registries
<1>2. ASSUME NEW e \in Events, AcceptFails(e) PROVE TypeOK'
  BY <1>0, <1>2 DEF AcceptFails, Rearm, TypeOK, registries
<1>3. ASSUME NEW e \in Events, RearmAfterConnect(e) PROVE TypeOK'
  BY <1>0, <1>3 DEF RearmAfterConnect, Rearm, TypeOK, registries
<1>4. ASSUME NEW s \in Sessions, SetConnected(s) PROVE TypeOK'
  BY <1>0, <1>4 DEF SetConnected, Stages, TypeOK, registries
<1>5. ASSUME NEW s \in Sessions, AddSession(s) PROVE TypeOK'
  BY <1>0, <1>5 DEF AddSession, Stages, TypeOK, registries
<1>6. ASSUME NEW s \in Sessions, OnConnected(s) PROVE TypeOK'
  BY <1>0, <1>6 DEF OnConnected, Stages, TypeOK, registries
<1>7. ASSUME NEW s \in Sessions, FirstRecv(s) PROVE TypeOK'
<2>1. RegisterRecv(s)
  BY <1>7 DEF FirstRecv
<2>2. /\ connected' \in [Sessions -> BOOLEAN]
      /\ disconnect' \in [Sessions -> {"none", "posted", "hook", "release", "done"}]
      /\ ignored' \subseteq Sessions \X {"recv", "disconnect"}
      /\ recv' \in [Sessions -> {"none", "posted", "handling"}]
  BY <1>0, <2>1, RegisterRecvTypes
<2> QED
  BY <1>0, <1>7, <2>2 DEF FirstRecv, Stages, TypeOK, registries
<1>8. ASSUME NEW s \in Sessions, NextRecv(s) PROVE TypeOK'
<2>1. RegisterRecv(s)
  BY <1>8 DEF NextRecv
<2>2. /\ connected' \in [Sessions -> BOOLEAN]
      /\ disconnect' \in [Sessions -> {"none", "posted", "hook", "release", "done"}]
      /\ ignored' \subseteq Sessions \X {"recv", "disconnect"}
      /\ recv' \in [Sessions -> {"none", "posted", "handling"}]
  BY <1>0, <2>1, RegisterRecvTypes
<2> QED
  BY <1>0, <1>8, <2>2 DEF NextRecv, TypeOK, registries
<1>9. ASSUME NEW s \in Sessions, DisconnectCompletes(s) \/ OnDisconnected(s) PROVE TypeOK'
  BY <1>0, <1>9 DEF DisconnectCompletes, OnDisconnected, Unmanaged, TypeOK, registries
<1>10. ASSUME NEW s \in Sessions, ReleaseSession(s) PROVE TypeOK'
  BY <1>0, <1>10, CountFacts DEF ReleaseSession, Erased, TypeOK, registries
<1>11. ASSUME NEW s \in Sessions, ConnectCompletes(s) PROVE TypeOK'
  BY <1>0, <1>11 DEF ConnectCompletes, Stages, TypeOK, registries
<1>12. ASSUME NEW s \in Sessions, RecvData(s) PROVE TypeOK'
  BY <1>0, <1>12 DEF RecvData, TypeOK, registries
<1>13. ASSUME NEW s \in Sessions, RecvZero(s) \/ OtherDisconnects(s) PROVE TypeOK'
<2>1. Disconnect(s)
  BY <1>13 DEF RecvZero, OtherDisconnects
<2>2. /\ connected' \in [Sessions -> BOOLEAN]
      /\ disconnect' \in [Sessions -> {"none", "posted", "hook", "release", "done"}]
      /\ ignored' \subseteq Sessions \X {"recv", "disconnect"}
  BY <1>0, <2>1, DisconnectTypes
<2> QED
  BY <1>0, <1>13, <2>2 DEF RecvZero, OtherDisconnects, TypeOK, registries
<1>14. CASE UNCHANGED vars
  BY <1>0, <1>14 DEF vars, TypeOK, registries
<1> QED
  BY <1>1, <1>2, <1>3, <1>4, <1>5, <1>6, <1>7, <1>8, <1>9, <1>10, <1>11, <1>12, <1>13, <1>14
     DEF Next, Worker

-----------------------------------------------------------------------------
(* The life of a session object *)

LEMMA NextEventsOwn == IInv /\ [Next]_vars => EventsOwn'
<1> SUFFICES ASSUME IInv, [Next]_vars PROVE EventsOwn'
  OBVIOUS
<1>0. TypeOK /\ EventsOwn
  BY DEF IInv
<1>1. ASSUME NEW e \in Events, Accept(e) PROVE EventsOwn'
  BY <1>0, <1>1, LifecycleAssumption DEF Accept, EventsOwn, TypeOK
<1>2. ASSUME NEW e \in Events, Rearm(e) PROVE EventsOwn'
  BY <1>0, <1>2, LifecycleAssumption DEF Rearm, EventsOwn, TypeOK
<1>3. ASSUME UNCHANGED <<accepting, fresh>> PROVE EventsOwn'
  BY <1>0, <1>3 DEF EventsOwn
<1> QED
  BY <1>1, <1>2, <1>3
     DEF Next, Worker, AcceptFails, RearmAfterConnect, SetConnected, AddSession, OnConnected,
         FirstRecv, NextRecv, DisconnectCompletes, OnDisconnected, ReleaseSession,
         ConnectCompletes, RecvData, RecvZero, OtherDisconnects, vars

LEMMA NextLife == IInv /\ [Next]_vars => Life'
<1> SUFFICES ASSUME IInv, [Next]_vars, NEW t \in Sessions PROVE SettingUp(t)' /\ TakingDown(t)'
  BY DEF Life
<1>0. TypeOK /\ EventsOwn /\ Life
  BY DEF IInv
<1>a. SettingUp(t) /\ TakingDown(t)
  BY <1>0 DEF Life
<1> USE DEF SettingUp, TakingDown, Idle, registries
<1>1. ASSUME NEW e \in Events, Accept(e) PROVE SettingUp(t)' /\ TakingDown(t)'
  BY <1>0, <1>a, <1>1, LifecycleAssumption DEF Accept, TypeOK, EventsOwn, Unused, Stages
<1>2. ASSUME NEW e \in Events, AcceptFails(e) PROVE SettingUp(t)' /\ TakingDown(t)'
  BY <1>0, <1>a, <1>2, LifecycleAssumption DEF AcceptFails, Rearm, TypeOK, EventsOwn, Unused, Stages
<1>3. ASSUME NEW e \in Events, RearmAfterConnect(e) PROVE SettingUp(t)' /\ TakingDown(t)'
  BY <1>0, <1>a, <1>3, LifecycleAssumption
     DEF RearmAfterConnect, Rearm, TypeOK, EventsOwn, Unused, Stages
<1>4. ASSUME NEW s \in Sessions, SetConnected(s) PROVE SettingUp(t)' /\ TakingDown(t)'
  BY <1>0, <1>a, <1>4, LifecycleAssumption DEF SetConnected, TypeOK, EventsOwn, Unused, Stages
<1>5. ASSUME NEW s \in Sessions, AddSession(s) PROVE SettingUp(t)' /\ TakingDown(t)'
  BY <1>0, <1>a, <1>5, LifecycleAssumption DEF AddSession, TypeOK, EventsOwn, Unused, Stages
<1>6. ASSUME NEW s \in Sessions, OnConnected(s) PROVE SettingUp(t)' /\ TakingDown(t)'
  BY <1>0, <1>a, <1>6, LifecycleAssumption DEF OnConnected, TypeOK, EventsOwn, Unused, Stages
<1>7. ASSUME NEW s \in Sessions, FirstRecv(s) PROVE SettingUp(t)' /\ TakingDown(t)'
  BY <1>0, <1>a, <1>7, RegisterRecvFacts, LifecycleAssumption
     DEF FirstRecv, TypeOK, EventsOwn, Unused, Stages
<1>8. ASSUME NEW s \in Sessions, NextRecv(s) PROVE SettingUp(t)' /\ TakingDown(t)'
  BY <1>0, <1>a, <1>8, RegisterRecvFacts, LifecycleAssumption
     DEF NextRecv, TypeOK, EventsOwn, Unused, Stages
<1>9. ASSUME NEW s \in Sessions, DisconnectCompletes(s) PROVE SettingUp(t)' /\ TakingDown(t)'
  BY <1>0, <1>a, <1>9, LifecycleAssumption
     DEF DisconnectCompletes, TypeOK, EventsOwn, Unused, Stages
<1>10. ASSUME NEW s \in Sessions, OnDisconnected(s) PROVE SettingUp(t)' /\ TakingDown(t)'
  BY <1>0, <1>a, <1>10, LifecycleAssumption
     DEF OnDisconnected, Unmanaged, TypeOK, EventsOwn, Unused, Stages
<1>11. ASSUME NEW s \in Sessions, ReleaseSession(s) PROVE SettingUp(t)' /\ TakingDown(t)'
  BY <1>0, <1>a, <1>11, LifecycleAssumption
     DEF ReleaseSession, Erased, TypeOK, EventsOwn, Unused, Stages
<1>12. ASSUME NEW s \in Sessions, ConnectCompletes(s) PROVE SettingUp(t)' /\ TakingDown(t)'
  BY <1>0, <1>a, <1>12, LifecycleAssumption DEF ConnectCompletes, TypeOK, EventsOwn, Unused, Stages
<1>13. ASSUME NEW s \in Sessions, RecvData(s) PROVE SettingUp(t)' /\ TakingDown(t)'
  BY <1>0, <1>a, <1>13, LifecycleAssumption DEF RecvData, TypeOK, EventsOwn, Unused, Stages
<1>14. ASSUME NEW s \in Sessions, RecvZero(s) PROVE SettingUp(t)' /\ TakingDown(t)'
  BY <1>0, <1>a, <1>14, DisconnectFacts, LifecycleAssumption
     DEF RecvZero, TypeOK, EventsOwn, Unused, Stages
<1>15. ASSUME NEW s \in Sessions, OtherDisconnects(s) PROVE SettingUp(t)' /\ TakingDown(t)'
  BY <1>0, <1>a, <1>15, DisconnectFacts, LifecycleAssumption
     DEF OtherDisconnects, TypeOK, EventsOwn, Unused, Stages
<1>16. CASE UNCHANGED vars
  BY <1>a, <1>16 DEF vars, Unused
<1> QED
  BY <1>1, <1>2, <1>3, <1>4, <1>5, <1>6, <1>7, <1>8, <1>9, <1>10, <1>11, <1>12,
     <1>13, <1>14, <1>15, <1>16
     DEF Next, Worker

-----------------------------------------------------------------------------
(* The crash and the count *)

LEMMA NextCount ==
  IInv /\ [Next]_vars => NoReleaseCrash' /\ (sessionCount = Cardinality(sessions))'
<1> SUFFICES ASSUME IInv, [Next]_vars
             PROVE  NoReleaseCrash' /\ sessionCount' = Cardinality(sessions')
  OBVIOUS
<1>0. TypeOK /\ Life /\ NoReleaseCrash /\ sessionCount = Cardinality(sessions)
  BY DEF IInv
<1>1. ASSUME NEW s \in Sessions, AddSession(s)
      PROVE  NoReleaseCrash' /\ sessionCount' = Cardinality(sessions')
  <2>1. s \notin sessions
    BY <1>0, <1>1 DEF Life, SettingUp, AddSession
  <2> QED
    BY <1>0, <1>1, <2>1, CountFacts DEF AddSession, NoReleaseCrash
<1>2. ASSUME NEW s \in Sessions, ReleaseSession(s)
      PROVE  NoReleaseCrash' /\ sessionCount' = Cardinality(sessions')
  <2>1. s \in sessions
    BY <1>0, <1>2 DEF Life, TakingDown, ReleaseSession
  <2> QED
    BY <1>2, <2>1, CountFacts DEF ReleaseSession, Erased, NoReleaseCrash
<1>3. ASSUME UNCHANGED <<crashed, sessions, sessionCount>>
      PROVE  NoReleaseCrash' /\ sessionCount' = Cardinality(sessions')
  BY <1>0, <1>3 DEF NoReleaseCrash
<1>4. \/ \E s \in Sessions : AddSession(s) \/ ReleaseSession(s)
      \/ UNCHANGED <<crashed, sessions, sessionCount>>
  BY DEF Next, Worker, Accept, AcceptFails, RearmAfterConnect, SetConnected, OnConnected,
         FirstRecv, NextRecv, DisconnectCompletes, OnDisconnected,
         ConnectCompletes, RecvData, RecvZero, OtherDisconnects, vars, registries
<1> QED
  BY <1>1, <1>2, <1>3, <1>4

-----------------------------------------------------------------------------
(* The invariant *)

LEMMA InitIInv == Init => IInv
<1> SUFFICES ASSUME Init PROVE IInv
  OBVIOUS
<1>1. PICK clients \in SUBSET Clients, f \in [Events -> Sessions] :
         /\ \A e \in Events : f[e] \notin clients
         /\ \A e, g \in Events : f[e] = f[g] => e = g
         /\ accepting = f
         /\ fresh = Sessions \ (clients \cup {f[e] : e \in Events})
         /\ stage = [s \in Sessions |-> IF s \in clients THEN "connecting" ELSE "none"]
  BY DEF Init
<1>2. EventsOwn
  BY <1>1 DEF EventsOwn
<1>3. ASSUME NEW s \in Sessions PROVE SettingUp(s) /\ TakingDown(s)
  <2>1. Unused(s) => s \notin clients
    BY <1>1 DEF Unused
  <2>2. /\ ~connected[s] /\ recv[s] = "none" /\ disconnect[s] = "none"
        /\ sessions = {} /\ managed = {}
    BY DEF Init
  <2> QED
    BY <1>1, <2>1, <2>2 DEF SettingUp, TakingDown, Idle
<1>4. sessionCount = Cardinality(sessions) /\ NoReleaseCrash
  BY FS_EmptySet DEF Init, NoReleaseCrash
<1> QED
  BY InitTypes, <1>2, <1>3, <1>4 DEF IInv, Life

LEMMA LifecycleInvariant == Spec => []IInv
<1>1. IInv /\ [Next]_vars => IInv'
  BY NextTypes, NextEventsOwn, NextLife, NextCount DEF IInv
<1> QED
  BY InitIInv, <1>1, PTL DEF Spec

\* For any accept events, session objects and Winsock failures, every variable of
\* Listener, Session and the two registries keeps its type.
THEOREM LifecycleTypes == Spec => []TypeOK
<1>1. IInv => TypeOK
  BY DEF IInv
<1> QED
  BY LifecycleInvariant, <1>1, PTL

\* ReleaseSession's ASSERT_CRASH never fires: a disconnect that reaches it belongs
\* to a session ProcessConnect has added, and no session is released twice.
THEOREM NeverReleaseCrash == Spec => []NoReleaseCrash
<1>1. IInv => NoReleaseCrash
  BY DEF IInv
<1> QED
  BY LifecycleInvariant, <1>1, PTL

\* Service::_sessions, its count, the ChatSessionManager and the accept events
\* agree between any two steps.
THEOREM RegistriesAlwaysAgree == Spec => []RegistriesAgree
<1>1. ASSUME IInv PROVE RegistriesAgree
  <2>0. TypeOK /\ EventsOwn /\ Life /\ sessionCount = Cardinality(sessions)
    BY <1>1 DEF IInv
  <2>1. managed \subseteq sessions
    BY <2>0 DEF TypeOK, Life, TakingDown
  <2>2. \A s \in Sessions : connected[s] /\ stage[s] = "none" => s \in managed
    BY <2>0 DEF Life, TakingDown
  <2>3. ASSUME NEW e \in Events, accepting[e] # None
        PROVE  /\ accepting[e] \notin sessions \cup fresh
               /\ stage[accepting[e]] = "none" /\ ~connected[accepting[e]]
    <3>1. accepting[e] \in Sessions
      BY <2>0, <2>3 DEF TypeOK
    <3>2. Unused(accepting[e]) /\ SettingUp(accepting[e])
      BY <2>0, <3>1 DEF Unused, Life
    <3> QED
      BY <2>0, <3>2 DEF SettingUp, Idle, EventsOwn
  <2> QED
    BY <2>0, <2>1, <2>2, <2>3 DEF RegistriesAgree, EventsOwn
<1> QED
  BY LifecycleInvariant, <1>1, PTL

-----------------------------------------------------------------------------
(* The receive loop *)

LEMMA NextRecvLoop == IInv /\ RecvLoopKept /\ [Next]_vars => RecvLoopKept'
<1> SUFFICES ASSUME IInv, RecvLoopKept, [Next]_vars, NEW t \in Sessions,
                    connected'[t], stage'[t] = "none", <<t, "recv">> \notin ignored'
             PROVE  recv'[t] # "none"
  BY DEF RecvLoopKept
<1>0. TypeOK /\ EventsOwn /\ Life /\ SettingUp(t) /\ TakingDown(t)
  BY DEF IInv, Life
<1>a. connected[t] /\ stage[t] = "none" /\ <<t, "recv">> \notin ignored => recv[t] # "none"
  BY DEF RecvLoopKept
<1> USE DEF registries
<1>1. ASSUME NEW e \in Events, Accept(e) PROVE recv'[t] # "none"
  BY <1>0, <1>1, <1>a DEF Accept, TypeOK
<1>2. ASSUME NEW s \in Sessions,
             ConnectCompletes(s) \/ SetConnected(s) \/ AddSession(s) \/ OnConnected(s)
      PROVE  recv'[t] # "none"
  BY <1>0, <1>a, <1>2 DEF ConnectCompletes, SetConnected, AddSession, OnConnected, TypeOK, Stages
<1>3. ASSUME NEW s \in Sessions, FirstRecv(s)
      PROVE  recv'[t] # "none"
  BY <1>0, <1>a, <1>3, RegisterRecvFacts DEF FirstRecv, TypeOK, Stages
<1>4. ASSUME NEW s \in Sessions, NextRecv(s)
      PROVE  recv'[t] # "none"
  BY <1>0, <1>a, <1>4, RegisterRecvFacts DEF NextRecv, TypeOK, Stages
<1>5. ASSUME NEW s \in Sessions, RecvZero(s)
      PROVE  recv'[t] # "none"
  BY <1>0, <1>a, <1>5, DisconnectFacts DEF RecvZero, TypeOK, Stages
<1>6. ASSUME NEW s \in Sessions, OtherDisconnects(s)
      PROVE  recv'[t] # "none"
  BY <1>0, <1>a, <1>6, DisconnectFacts DEF OtherDisconnects, TypeOK, Stages
<1>7. ASSUME NEW s \in Sessions, RecvData(s)
      PROVE  recv'[t] # "none"
  BY <1>0, <1>a, <1>7 DEF RecvData, TypeOK, Stages
<1>8. CASE UNCHANGED <<connected, stage, recv, ignored>>
  BY <1>a, <1>8
<1>9. \/ \E e \in Events : Accept(e)
      \/ \E s \in Sessions : \/ ConnectCompletes(s) \/ SetConnected(s) \/ AddSession(s)
                              \/ OnConnected(s) \/ FirstRecv(s) \/ NextRecv(s)
                              \/ RecvZero(s) \/ OtherDisconnects(s) \/ RecvData(s)
      \/ UNCHANGED <<connected, stage, recv, ignored>>
  BY DEF Next, Worker, AcceptFails, RearmAfterConnect, DisconnectCompletes, OnDisconnected,
         ReleaseSession, vars
<1> QED
  BY <1>1, <1>2, <1>3, <1>4, <1>5, <1>6, <1>7, <1>8, <1>9

\* A session that is set up and connected has a receive posted or being handled,
\* whoever sends or disconnects meanwhile, unless its WSARecv's failure was ignored.
THEOREM RecvLoopAlwaysKept == Spec => []RecvLoopKept
<1>1. Init => RecvLoopKept
  BY DEF Init, RecvLoopKept
<1> QED
  BY LifecycleInvariant, <1>1, NextRecvLoop, PTL DEF Spec
=============================================================================

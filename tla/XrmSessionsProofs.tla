-------------------------- MODULE XrmSessionsProofs --------------------------
(***************************************************************************)
(* For any number of contexts: every client that holds resources has a     *)
(* session that will recycle it, and no other session will.                *)
(***************************************************************************)
EXTENDS XrmSessions, TLAPS, FiniteSetTheorems

(* recycleResource keeps the types, and forgets client i alone.            *)
LEMMA RecycleOne ==
  ASSUME TypeOK, IsFiniteSet(holders), NEW i \in Nat, Recycle(i)
  PROVE  /\ holders' = holders \ {i}
         /\ holders' \in SUBSET (Nat \ {0})
         /\ IsFiniteSet(holders')
         /\ numConcurrentClient' \in Nat
<1>1. holders' = holders \ {i}
  BY DEF Recycle, TypeOK
<1>2. IsFiniteSet(holders \ {i})
  BY FS_RemoveElement
<1>3. numConcurrentClient' \in Nat
  BY DEF Recycle, Decremented, TypeOK
<1> QED BY <1>1, <1>2, <1>3 DEF TypeOK

(* With no connection yet, everything is in order. *)
LEMMA InitProtocol == Init => HoldersInOrder
BY FS_EmptySet DEF Init, HoldersInOrder, TypeOK, HoldersConnected, InProtocol, Waiting, Requests

(* The application's steps: what they send is in the protocol's order.     *)
LEMMA AppInProtocol ==
  ASSUME HoldersInOrder, NEW k \in Conns, AppStep(k)
  PROVE  HoldersInOrder'
<1> USE DEF HoldersInOrder, TypeOK, HoldersConnected, InProtocol, Known, Send, Waiting, Requests
<1>1. CASE Connect(k)
  BY <1>1 DEF Connect
<1>2. CASE Call(k)
  BY <1>2 DEF Call
<1>3. CASE DestroyContext(k)
  BY <1>3 DEF DestroyContext
<1>4. CASE Crash(k)
  BY <1>4 DEF Crash
<1> QED BY <1>1, <1>2, <1>3, <1>4 DEF AppStep

(* The daemon's steps. *)
LEMMA DaemonInProtocol ==
  ASSUME HoldersInOrder, NEW k \in Conns, DaemonStep(k)
  PROVE  HoldersInOrder'
<1> USE DEF HoldersInOrder, TypeOK, HoldersConnected, InProtocol, Known, Send, Waiting, Requests
<1>1. CASE HandleCreate(k)
  BY <1>1 DEF HandleCreate, Handle
<1>2. CASE HandleEcho(k)
  <2>1. recorded[k] = 0 /\ recorded' = [recorded EXCEPT ![k] = id[k]]
    BY <1>2 DEF HandleEcho, Handle
  <2>2. TypeOK' /\ IsFiniteSet(holders')
    BY <1>2 DEF HandleEcho, Handle
  <2>3. HoldersConnected'
    <3>1. \A i \in holders : \E j \in Conns \ {k} :
             recorded[j] = i /\ session[j] \notin {"none", "ended"}
      BY <2>1
    <3> QED BY <1>2, <2>1, <3>1 DEF HandleEcho, Handle
  <2>4. \A j \in Conns : InProtocol(j)'
    BY <1>2 DEF HandleEcho, Handle
  <2> QED BY <2>2, <2>3, <2>4
<1>3. CASE HandleCall(k)
  <2>1. id[k] \in Nat \ {0} /\ recorded[k] = id[k]
    BY <1>3 DEF HandleCall, Handle
  <2>2. IsFiniteSet(holders') /\ holders' \in SUBSET (Nat \ {0})
    BY <1>3, <2>1, FS_AddElement, FS_RemoveElement DEF HandleCall
  <2>3. TypeOK'
    BY <1>3, <2>2 DEF HandleCall, Handle
  <2>4. HoldersConnected'
    <3>1. \A i \in holders' : i \in holders \/ i = id[k]
      BY <1>3 DEF HandleCall
    <3>2. \A j \in Conns : session[j] \notin {"none", "ended"} =>
                            session'[j] \notin {"none", "ended"}
      BY <1>3 DEF HandleCall, Handle
    <3>3. recorded' = recorded /\ session'[k] = "writing"
      BY <1>3 DEF HandleCall, Handle
    <3> QED BY <2>1, <3>1, <3>2, <3>3
  <2>5. \A j \in Conns : InProtocol(j)'
    BY <1>3 DEF HandleCall, Handle
  <2> QED BY <2>2, <2>3, <2>4, <2>5
<1>4. CASE HandleDestroy(k)
  <2>1. /\ holders' = holders \ {id[k]}
        /\ holders' \in SUBSET (Nat \ {0})
        /\ IsFiniteSet(holders')
        /\ numConcurrentClient' \in Nat
    BY <1>4, RecycleOne DEF HandleDestroy
  <2>2. TypeOK'
    BY <1>4, <2>1 DEF HandleDestroy, Handle
  <2>3. HoldersConnected'
    BY <1>4, <2>1 DEF HandleDestroy, Handle
  <2>4. \A j \in Conns : InProtocol(j)'
    BY <1>4 DEF HandleDestroy, Handle
  <2> QED BY <2>1, <2>2, <2>3, <2>4
<1>5. CASE Answer(k)
  <2>1. TypeOK' /\ IsFiniteSet(holders')
    BY <1>5 DEF Answer
  <2>2. HoldersConnected'
    BY <1>5 DEF Answer
  <2>3. InProtocol(k)'
    BY <1>5 DEF Answer
  <2>4. \A j \in Conns \ {k} : InProtocol(j)'
    BY <1>5 DEF Answer
  <2> QED BY <2>1, <2>2, <2>3, <2>4
<1>6. CASE AnswerLost(k)
  <2>1. /\ holders' \in SUBSET holders
        /\ session'[k] = "ended" => holders' = holders \ {recorded[k]} 
        /\ IsFiniteSet(holders')
        /\ numConcurrentClient' \in Nat
    BY <1>6, RecycleOne DEF AnswerLost
  <2>2. TypeOK'
    BY <1>6, <2>1 DEF AnswerLost
  <2>3. HoldersConnected'
    BY <1>6, <2>1 DEF AnswerLost
  <2>4. \A j \in Conns : InProtocol(j)'
    BY <1>6 DEF AnswerLost
  <2> QED BY <2>1, <2>2, <2>3, <2>4
<1>7. CASE ReadEnd(k)
  <2>1. /\ holders' = holders \ {recorded[k]}
        /\ IsFiniteSet(holders')
        /\ numConcurrentClient' \in Nat
    BY <1>7, RecycleOne DEF ReadEnd
  <2>2. TypeOK'
    BY <1>7, <2>1 DEF ReadEnd
  <2>3. HoldersConnected'
    BY <1>7, <2>1 DEF ReadEnd
  <2>4. \A j \in Conns : InProtocol(j)'
    BY <1>7 DEF ReadEnd
  <2> QED BY <2>1, <2>2, <2>3, <2>4
<1> QED BY <1>1, <1>2, <1>3, <1>4, <1>5, <1>6, <1>7 DEF DaemonStep

(* The reset worker only takes from the holders. *)
LEMMA ResetInProtocol ==
  ASSUME HoldersInOrder, ResetWorker
  PROVE  HoldersInOrder'
<1> USE DEF HoldersInOrder, TypeOK
<1>1. PICK S \in SUBSET holders : /\ holders' = holders \ S
                                  /\ numConcurrentClient' = Decremented(Cardinality(S))
  BY DEF ResetWorker
<1>2. IsFiniteSet(S) /\ Cardinality(S) \in Nat /\ IsFiniteSet(holders')
  BY <1>1, FS_Subset, FS_CardinalityType
<1>3. TypeOK'
  BY <1>1, <1>2 DEF ResetWorker, Decremented
<1>4. HoldersConnected'
  BY <1>1 DEF ResetWorker, HoldersConnected
<1>5. \A k \in Conns : InProtocol(k)'
  BY DEF ResetWorker, InProtocol, Known
<1> QED BY <1>2, <1>3, <1>4, <1>5

(* Whatever the order of requests, responses, crashes, lost writes and     *)
(* resets, every client that holds resources has a session that has        *)
(* recorded its id and has not ended: HoldersInOrder is inductive.         *)
THEOREM SessionsInProtocol == Spec => []HoldersInOrder
<1>1. HoldersInOrder /\ [Next]_vars => HoldersInOrder'
  <2> SUFFICES ASSUME HoldersInOrder, [Next]_vars PROVE HoldersInOrder'
    OBVIOUS
  <2>1. CASE Next
    BY <2>1, AppInProtocol, DaemonInProtocol, ResetInProtocol DEF Next
  <2>2. CASE UNCHANGED vars
    BY <2>2 DEF vars, HoldersInOrder, TypeOK, HoldersConnected, InProtocol, Known
  <2> QED BY <2>1, <2>2
<1> QED BY InitProtocol, <1>1, PTL DEF Spec

(* Whoever holds resources has a session, with its id, that will see the   *)
(* connection end and recycle it.                                          *)
THEOREM HoldersStayConnected == Spec => []HoldersConnected
<1>1. HoldersInOrder => HoldersConnected
  BY DEF HoldersInOrder
<1> QED BY <1>1, SessionsInProtocol, PTL

----------------------------------------------------------------------------
(* Client ids.                                                             *)

(* A step of context k that gives it no new id, and shows the id it has to *)
(* its session at most, leaves the ids in order.                           *)
LEMMA SameIds ==
  ASSUME IdsInOrder, NEW k \in Conns, GivenOnce(k)',
         \A j \in Conns \ {k} : /\ app'[j] = app[j]
                               /\ request'[j] = request[j]
                               /\ id'[j] = id[j]
                               /\ session'[j] = session[j]
                               /\ reply'[j] = reply[j]
                               /\ recorded'[j] = recorded[j],
         IdsOf(k)' \subseteq IdsOf(k), lastId' = lastId
  PROVE  IdsInOrder'
<1>1. \A j \in Conns : GivenOnce(j)'
  BY DEF IdsInOrder, GivenOnce
<1>2. \A j \in Conns : IdsOf(j)' \subseteq IdsOf(j)
  BY DEF IdsOf
<1> QED BY <1>1, <1>2 DEF IdsInOrder

(* No application's step touches an id. *)
LEMMA AppKeepsIds ==
  ASSUME IInv, NEW k \in Conns, AppStep(k)
  PROVE  IdsInOrder'
<1> USE DEF IInv, HoldersInOrder, TypeOK, InProtocol, Send, Waiting, Requests
<1>1. /\ GivenOnce(k)' /\ IdsOf(k)' = IdsOf(k) /\ lastId' = lastId
      /\ \A j \in Conns \ {k} : /\ app'[j] = app[j]
                                /\ request'[j] = request[j]
                                /\ id'[j] = id[j]
                                /\ session'[j] = session[j]
                                /\ reply'[j] = reply[j]
                                /\ recorded'[j] = recorded[j]
  <2> USE DEF IdsInOrder, GivenOnce, IdsOf
  <2>1. CASE Connect(k)
    BY <2>1 DEF Connect
  <2>2. CASE Call(k)
    BY <2>2 DEF Call
  <2>3. CASE DestroyContext(k)
    BY <2>3 DEF DestroyContext
  <2>4. CASE Crash(k)
    BY <2>4 DEF Crash
  <2> QED BY <2>1, <2>2, <2>3, <2>4 DEF AppStep
<1> QED BY <1>1, SameIds

(* A new context is given an id that nobody has been given. *)
LEMMA CreateIsNew ==
  ASSUME IInv, NEW k \in Conns, HandleCreate(k)
  PROVE  IdsInOrder'
<1> USE DEF IInv, HoldersInOrder, TypeOK, InProtocol, Waiting, Requests
<1>1. /\ id' = id /\ recorded' = recorded /\ app' = app
      /\ request' = [request EXCEPT ![k] = "none"]
      /\ session' = [session EXCEPT ![k] = "writing"]
      /\ id[k] = 0
  BY DEF HandleCreate, Handle, IdsInOrder, GivenOnce
<1>2. \/ lastId' = lastId + 1 /\ reply' = [reply EXCEPT ![k] = lastId + 1]
      \/ lastId' = lastId /\ reply' = [reply EXCEPT ![k] = 0]
  BY DEF HandleCreate
<1>3. \A j \in Conns : GivenOnce(j)'
  BY <1>1, <1>2 DEF IdsInOrder, GivenOnce
<1>4. \A j \in Conns \ {k} : IdsOf(j)' = IdsOf(j) /\ \A i \in IdsOf(j) : i <= lastId
  BY <1>1, <1>2 DEF IdsInOrder, GivenOnce, IdsOf
<1>5. IdsOf(k)' \subseteq {lastId + 1} /\ lastId \in Nat
  BY <1>1, <1>2 DEF IdsOf
<1>6. \A j \in Conns \ {k} : IdsOf(j)' \cap IdsOf(k)' = {}
  BY <1>4, <1>5
<1>7. \A i, j \in Conns : i # j => IdsOf(i)' \cap IdsOf(j)' = {}
  BY <1>4, <1>6 DEF IdsInOrder
<1> QED BY <1>3, <1>7 DEF IdsInOrder

(* After that an id only travels: to the application with the response,    *)
(* and back to the session with the echo.                                  *)
LEMMA DaemonKeepsIds ==
  ASSUME IInv, NEW k \in Conns, DaemonStep(k)
  PROVE  IdsInOrder'
<1>1. CASE HandleCreate(k)
  BY <1>1, CreateIsNew
<1>2. CASE ~HandleCreate(k)
  <2> USE DEF IInv, HoldersInOrder, TypeOK, InProtocol, Known, Send, Waiting, Requests
  <2>1. /\ GivenOnce(k)' /\ IdsOf(k)' \subseteq IdsOf(k) /\ lastId' = lastId
        /\ \A j \in Conns \ {k} : /\ app'[j] = app[j]
                                  /\ request'[j] = request[j]
                                  /\ id'[j] = id[j]
                                  /\ session'[j] = session[j]
                                  /\ reply'[j] = reply[j]
                                  /\ recorded'[j] = recorded[j]
    <3> USE DEF IdsInOrder, GivenOnce, IdsOf
    <3>1. CASE HandleEcho(k)
      BY <3>1 DEF HandleEcho, Handle
    <3>2. CASE HandleCall(k)
      BY <3>2 DEF HandleCall, Handle
    <3>3. CASE HandleDestroy(k)
      BY <3>3 DEF HandleDestroy, Handle
    <3>4. CASE Answer(k)
      BY <3>4 DEF Answer
    <3>5. CASE AnswerLost(k)
      BY <3>5 DEF AnswerLost
    <3>6. CASE ReadEnd(k)
      BY <3>6 DEF ReadEnd
    <3> QED BY <1>2, <3>1, <3>2, <3>3, <3>4, <3>5, <3>6 DEF DaemonStep
  <2> QED BY <2>1, SameIds
<1> QED BY <1>1, <1>2

(* The whole invariant is inductive, whatever is created, refused,         *)
(* abandoned or reset at the same time.                                    *)
THEOREM SessionsInOrder == Spec => []IInv
<1>1. Init => IdsInOrder
  BY DEF Init, IdsInOrder, GivenOnce, IdsOf
<1>2. HoldersInOrder /\ IdsInOrder /\ [Next]_vars => IdsInOrder'
  <2> SUFFICES ASSUME IInv, [Next]_vars PROVE IdsInOrder'
    BY DEF IInv
  <2>1. CASE Next
    <3>1. CASE ResetWorker
      BY <3>1 DEF ResetWorker, IInv, IdsInOrder, GivenOnce, IdsOf
    <3> QED BY <2>1, <3>1, AppKeepsIds, DaemonKeepsIds DEF Next
  <2>2. CASE UNCHANGED vars
    BY <2>2 DEF vars, IInv, IdsInOrder, GivenOnce, IdsOf
  <2> QED BY <2>1, <2>2
<1>3. HoldersInOrder /\ IdsInOrder => IInv
  BY DEF IInv
<1> QED BY <1>1, <1>2, <1>3, SessionsInProtocol, PTL DEF Spec

(* The end of a connection recycles its own client: no session has         *)
(* recorded an id that another context was given.                          *)
THEOREM IdsAlwaysUnique == Spec => []IdsUnique
<1>1. IInv => IdsUnique
  BY DEF IInv, IdsInOrder, GivenOnce, IdsOf, IdsUnique
<1> QED BY <1>1, SessionsInOrder, PTL

=============================================================================

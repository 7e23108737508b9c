----------------------------- MODULE XrmSessions -----------------------------
(***************************************************************************)
(* The life of a context, from xrmCreateContext to the end of its          *)
(* connection: the application's side (lib/xrm.cpp), the daemon's session  *)
(* (xrm_tcp_session.cpp), and what of xrm::system they touch: the client   *)
(* ids, the count of concurrent clients, and who holds resources.  The     *)
(* resources themselves are XrmSystem's: here a client holds some or none. *)
(*                                                                         *)
(* One connection carries one context and at most one request at a time    *)
(* (xrmJsonRequest waits for the response under xrmMutex).  A response     *)
(* reaches the application in the step in which its writing ends.          *)
(***************************************************************************)
EXTENDS Integers, FiniteSets

CONSTANTS
    Conns,          \* the contexts applications create
    Limit,          \* m_limitConcurrentClient
    DevicesFail     \* whether devices go offline, so that the worker resets them

ASSUME SessionAssumption ==
    /\ IsFiniteSet(Conns)
    /\ Limit \in Nat \ {0}
    /\ DevicesFail \in BOOLEAN

VARIABLES
    app,        \* what the application does with its context
    request,    \* the request the daemon has received and not yet read
    id,         \* ctx->xrmClientId, 0 before it is known
    session,    \* what the daemon's session waits for
    reply,      \* the client id in a createContext response being written
    recorded,   \* the session's m_clientId
    holders,    \* the clients that hold channels or reservations
    lastId,     \* m_clientId of the system
    numConcurrentClient

vars == <<app, request, id, session, reply, recorded, holders, lastId, numConcurrentClient>>

Waiting == {"creating", "echoing", "calling", "destroying"}

Requests == {"create", "echo", "call", "destroy"}

TypeOK ==
    /\ app \in [Conns -> Waiting \cup {"none", "ready", "gone"}]
    /\ request \in [Conns -> Requests \cup {"none"}]
    /\ id \in [Conns -> Nat]
    /\ session \in [Conns -> {"none", "reading", "writing", "ended"}]
    /\ reply \in [Conns -> Nat]
    /\ recorded \in [Conns -> Nat]
    /\ holders \in SUBSET (Nat \ {0})
    /\ lastId \in Nat
    /\ numConcurrentClient \in Nat

Init ==
    /\ app = [k \in Conns |-> "none"]
    /\ request = [k \in Conns |-> "none"]
    /\ id = [k \in Conns |-> 0]
    /\ session = [k \in Conns |-> "none"]
    /\ reply = [k \in Conns |-> 0]
    /\ recorded = [k \in Conns |-> 0]
    /\ holders = {}
    /\ lastId = 0
    /\ numConcurrentClient = 0

----------------------------------------------------------------------------
(* The application.                                                        *)

Send(k, stage, req) ==
    /\ app' = [app EXCEPT ![k] = stage]
    /\ request' = [request EXCEPT ![k] = req]

(* xrmCreateContext connects, which starts a session, and asks for an id.  *)
Connect(k) ==
    /\ app[k] = "none"
    /\ Send(k, "creating", "create")
    /\ session' = [session EXCEPT ![k] = "reading"]
    /\ UNCHANGED <<id, reply, recorded, holders, lastId, numConcurrentClient>>

(* Any call that allocates, reserves, releases or relinquishes. *)
Call(k) ==
    /\ app[k] = "ready"
    /\ Send(k, "calling", "call")
    /\ UNCHANGED <<id, session, reply, recorded, holders, lastId, numConcurrentClient>>

(* xrmDestroyContext sends its request, waits, and closes the socket.      *)
DestroyContext(k) ==
    /\ app[k] = "ready"
    /\ Send(k, "destroying", "destroy")
    /\ UNCHANGED <<id, session, reply, recorded, holders, lastId, numConcurrentClient>>

(* The process dies.  If the connection is reset, what the daemon had      *)
(* received and not read may be lost.                                      *)
Crash(k) ==
    /\ app[k] \in Waiting \cup {"ready"}
    /\ \E req \in {request[k], "none"} : Send(k, "gone", req)
    /\ UNCHANGED <<id, session, reply, recorded, holders, lastId, numConcurrentClient>>

----------------------------------------------------------------------------
(* The daemon.                                                             *)

(* decNumConcurrentClient, n times. *)
Decremented(n) == IF numConcurrentClient > n THEN numConcurrentClient - n ELSE 0

(* recycleResource for client i, unless i is 0: nothing is left, and the   *)
(* count goes down.                                                        *)
Recycle(i) ==
    IF i = 0
    THEN UNCHANGED <<holders, numConcurrentClient>>
    ELSE /\ holders' = holders \ {i}
         /\ numConcurrentClient' = Decremented(1)

(* handleCmd: the request is read and carried out under the lock, and the  *)
(* response is written.                                                    *)
Handle(k, req) ==
    /\ session[k] = "reading"
    /\ request[k] = req
    /\ request' = [request EXCEPT ![k] = "none"]
    /\ session' = [session EXCEPT ![k] = "writing"]
    /\ UNCHANGED <<app, id>>

(* Mutant: the number of clients serves as the new client's id. *)
HandleCreateById(k) ==
    /\ Handle(k, "create")
    /\ numConcurrentClient < Limit
    /\ numConcurrentClient' = numConcurrentClient + 1
    /\ reply' = [reply EXCEPT ![k] = numConcurrentClient + 1]
    /\ UNCHANGED <<recorded, holders, lastId>>

(* createContext (incNumConcurrentClient, getNewClientId). *)
HandleCreate(k) ==
    /\ Handle(k, "create")
    /\ IF numConcurrentClient < Limit
       THEN /\ numConcurrentClient' = numConcurrentClient + 1
            /\ lastId' = lastId + 1
            /\ reply' = [reply EXCEPT ![k] = lastId + 1]
       ELSE /\ reply' = [reply EXCEPT ![k] = 0]
            /\ UNCHANGED <<numConcurrentClient, lastId>>
    /\ UNCHANGED <<recorded, holders>>

(* Mutant: the client's id is not recorded with its session. *)
HandleEchoOnly(k) ==
    /\ Handle(k, "echo")
    /\ UNCHANGED <<reply, recorded, holders, lastId, numConcurrentClient>>

(* echoContext carries recordClientId. *)
HandleEcho(k) ==
    /\ Handle(k, "echo")
    /\ recorded' = [recorded EXCEPT ![k] = id[k]]
    /\ UNCHANGED <<reply, holders, lastId, numConcurrentClient>>

(* A call on behalf of the client: it may leave it holding something.      *)
HandleCall(k) ==
    /\ Handle(k, "call")
    /\ holders' \in {holders, holders \cup {id[k]}, holders \ {id[k]}}
    /\ UNCHANGED <<reply, recorded, lastId, numConcurrentClient>>

HandleDestroy(k) ==
    /\ Handle(k, "destroy")
    /\ Recycle(id[k])
    /\ UNCHANGED <<reply, recorded, lastId>>

(* Mutant: after a response the session reads no more. *)
AnswerOnce(k) ==
    /\ session[k] = "writing"
    /\ app[k] \in {"echoing", "calling"}
    /\ session' = [session EXCEPT ![k] = "ended"]
    /\ app' = [app EXCEPT ![k] = "ready"]
    /\ UNCHANGED <<request, id, reply, recorded, holders, lastId, numConcurrentClient>>

(* The response has been written, and the application, which waits for it, *)
(* goes on: it reads its id and sends it back with echoContext (or gives   *)
(* the context up, with client id 0, if it was refused); it is done with   *)
(* its call; it closes the socket.  The session waits for more.            *)
Answer(k) ==
    /\ session[k] = "writing"
    /\ app[k] # "gone"
    /\ session' = [session EXCEPT ![k] = "reading"]
    /\ \/ /\ app[k] = "creating"
          /\ id' = [id EXCEPT ![k] = reply[k]]
          /\ IF reply[k] = 0 THEN Send(k, "destroying", "destroy")
                             ELSE Send(k, "echoing", "echo")
       \/ /\ app[k] \in {"echoing", "calling"}
          /\ app' = [app EXCEPT ![k] = "ready"]
          /\ UNCHANGED <<request, id>>
       \/ /\ app[k] = "destroying"
          /\ app' = [app EXCEPT ![k] = "gone"]
          /\ UNCHANGED <<request, id>>
    /\ reply' = [reply EXCEPT ![k] = 0]
    /\ UNCHANGED <<recorded, holders, lastId, numConcurrentClient>>

(* Mutant: a failed write ends the session without recycling. *)
AnswerLostAndForgotten(k) ==
    /\ session[k] = "writing"
    /\ app[k] = "gone"
    /\ session' = [session EXCEPT ![k] = "ended"]
    /\ UNCHANGED <<app, request, id, reply, recorded, holders, lastId, numConcurrentClient>>

(* The application is gone: the write fails, which ends the session after  *)
(* recycling, or it succeeds all the same and the session waits for more.  *)
AnswerLost(k) ==
    /\ session[k] = "writing"
    /\ app[k] = "gone"
    /\ \/ /\ session' = [session EXCEPT ![k] = "ended"]
          /\ Recycle(recorded[k])
       \/ /\ session' = [session EXCEPT ![k] = "reading"]
          /\ UNCHANGED <<holders, numConcurrentClient>>
    /\ reply' = [reply EXCEPT ![k] = 0]
    /\ UNCHANGED <<app, request, id, recorded, lastId>>

(* Mutant: the end of a connection is not noticed. *)
ReadEndUnnoticed(k) == FALSE /\ UNCHANGED vars

(* doRead gets the end of the connection (eof or connection_reset).        *)
ReadEnd(k) ==
    /\ session[k] = "reading"
    /\ request[k] = "none"
    /\ app[k] = "gone"
    /\ session' = [session EXCEPT ![k] = "ended"]
    /\ Recycle(recorded[k])
    /\ UNCHANGED <<app, request, id, reply, recorded, lastId>>

(* The reset worker recycles the clients that use an offline device.       *)
ResetWorker ==
    /\ DevicesFail
    /\ \E S \in SUBSET holders \ {{}} :
          /\ holders' = holders \ S
          /\ numConcurrentClient' = Decremented(Cardinality(S))
    /\ UNCHANGED <<app, request, id, session, reply, recorded, lastId>>

----------------------------------------------------------------------------
AppStep(k) == Connect(k) \/ Call(k) \/ DestroyContext(k) \/ Crash(k)

DaemonStep(k) ==
    \/ HandleCreate(k) \/ HandleEcho(k) \/ HandleCall(k) \/ HandleDestroy(k)
    \/ Answer(k) \/ AnswerLost(k) \/ ReadEnd(k)

Next == (\E k \in Conns : AppStep(k) \/ DaemonStep(k)) \/ ResetWorker

(* The io_service thread runs every handler that is ready, and no handler  *)
(* blocks: the lock is never held across a wait.  Applications may stop.   *)
Fairness == \A k \in Conns : WF_vars(DaemonStep(k))

Spec == Init /\ [][Next]_vars /\ Fairness

----------------------------------------------------------------------------
(* Every client that holds resources has a session that knows its id and   *)
(* will still see the connection end: recycling is never missed, whichever *)
(* of the request, the response, the crash and the reset come first.       *)
HoldersConnected ==
    \A i \in holders : \E k \in Conns : recorded[k] = i /\ session[k] \notin {"none", "ended"}

(* The session knows the client's id. *)
Known(k) == recorded[k] = id[k] /\ id[k] # 0

(* Why HoldersConnected holds: the id is recorded before the first call    *)
(* that can allocate, which no other order of messages and crashes upsets. *)
InProtocol(k) ==
    /\ app[k] = "none" => session[k] = "none" /\ recorded[k] = 0
    /\ app[k] = "creating" => recorded[k] = 0
    /\ app[k] = "echoing" => id[k] # 0 /\ (Known(k) \/ request[k] = "echo")
    /\ app[k] = "ready" => session[k] = "reading" /\ request[k] = "none"
    /\ app[k] \in {"ready", "calling"} => Known(k)
    /\ request[k] = "echo" => recorded[k] = 0 /\ app[k] \in {"echoing", "gone"}
    /\ request[k] = "call" => Known(k)
    /\ session[k] = "writing" => request[k] = "none"

(* HoldersConnected and what it rests on. *)
HoldersInOrder ==
    /\ TypeOK
    /\ IsFiniteSet(holders)
    /\ HoldersConnected
    /\ \A k \in Conns : InProtocol(k)

(* The ids a context has been given: its own, or the one on its way to it. *)
IdsOf(k) == {id[k], reply[k]} \ {0}

(* A context is given an id once, and its session records no other.        *)
GivenOnce(k) ==
    /\ id[k] <= lastId
    /\ reply[k] <= lastId
    /\ recorded[k] \in {0, id[k]}
    /\ app[k] \in {"none", "creating"} => id[k] = 0
    /\ request[k] = "create" => id[k] = 0
    /\ reply[k] # 0 => id[k] = 0 /\ session[k] = "writing"
    /\ session[k] = "writing" => request[k] = "none"

(* Why IdsUnique holds: no id is given twice, whichever contexts are being *)
(* created, refused or abandoned at the same time.                         *)
IdsInOrder ==
    /\ \A k \in Conns : GivenOnce(k)
    /\ \A j, k \in Conns : j # k => IdsOf(j) \cap IdsOf(k) = {}

(* The inductive invariant. *)
IInv == HoldersInOrder /\ IdsInOrder

(* A session that recycles at its end recycles its own client, not that of *)
(* a context created since.                                                *)
IdsUnique ==
    \A j, k \in Conns : id[j] = recorded[k] /\ id[j] # 0 => j = k

(* "XRM will detect the crash / connection broken and recycle the resource *)
(* allocated automatically": once the application is gone, its client ends *)
(* up holding nothing, for good, though requests of it may still be        *)
(* carried out after it died.                                              *)
BrokenRecycled == \A k \in Conns : app[k] = "gone" ~> [](id[k] \notin holders)

(* An application that waits for the daemon gets on.                       *)
Answered == \A k \in Conns : app[k] \in Waiting ~> app[k] \in {"ready", "gone"}

----------------------------------------------------------------------------
(* What comments of the code say of the count of concurrent clients, and   *)
(* the code does not do.                                                   *)

(* Contexts that applications can use. *)
LiveContexts == {k \in Conns : app[k] \in {"echoing", "ready", "calling"}}

(* There are never more clients at a time than limitConcurrentClient       *)
(* (xrm_limits.h: "default limit concurrent client").                      *)
WithinLimit == Cardinality(LiveContexts) <= Limit

=============================================================================

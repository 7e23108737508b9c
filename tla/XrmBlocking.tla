----------------------------- MODULE XrmBlocking -----------------------------
(***************************************************************************)
(* The blocking allocations of the library (xrmCuBlockingAlloc,            *)
(* xrmCuListBlockingAlloc, xrmCuGroupBlockingAlloc) on top of XrmSessions: *)
(* the application asks once whether what it wants exists, and then        *)
(* allocates again and again until that succeeds.  The daemon keeps no     *)
(* queue: every attempt is a call of its own, and others may come between. *)
(* What is wanted is a CU, a list or a group; here it is one of Units      *)
(* units, and a client holds one at most.                                  *)
(***************************************************************************)
EXTENDS XrmSessions

CONSTANTS
    Units           \* how many clients can hold what is wanted at a time

ASSUME BlockingAssumption == Units \in Nat \ {0}

VARIABLES
    goal,       \* what a blocking call of the application is at
    answer,     \* the outcome in the response to it
    offered     \* what is wanted exists: an xclbin is loaded, a group declared

blockingVars == <<vars, goal, answer, offered>>

Blocked(k) == goal[k] # "none"

BlockingInit ==
    /\ Init
    /\ goal = [k \in Conns |-> "none"]
    /\ answer = [k \in Conns |-> FALSE]
    /\ offered \in BOOLEAN

----------------------------------------------------------------------------
(* The application.                                                        *)

(* A blocking call starts with xrmIsCuExisting or one of its variants.  An *)
(* application that holds a unit and blocks for more is left out: it may   *)
(* wait for itself.                                                        *)
BlockingAlloc(k) ==
    /\ ~Blocked(k)
    /\ id[k] \notin holders
    /\ Call(k)
    /\ goal' = [goal EXCEPT ![k] = "asking"]
    /\ UNCHANGED <<answer, offered>>

(* Mutant: the next attempt does not wait for the response. *)
TryAtOnce(k) ==
    /\ goal[k] = "trying"
    /\ app[k] \in {"ready", "calling"}
    /\ Send(k, "calling", "call")
    /\ UNCHANGED <<id, session, reply, recorded, holders, lastId, numConcurrentClient,
                   goal, answer, offered>>

(* One more round of the loop, after usleep or sched_yield. *)
Try(k) ==
    /\ goal[k] = "trying"
    /\ Call(k)
    /\ UNCHANGED <<goal, answer, offered>>

(* A crash ends a blocking call; other calls are not made during one.      *)
OtherAppStep(k) ==
    /\ \/ Connect(k)
       \/ ~Blocked(k) /\ (Call(k) \/ DestroyContext(k))
       \/ Crash(k)
    /\ goal' = [goal EXCEPT ![k] = IF app[k]' = "gone" THEN "none" ELSE @]
    /\ UNCHANGED <<answer, offered>>

----------------------------------------------------------------------------
(* The daemon.                                                             *)

(* isCuExisting, isCuListExisting, isCuGroupExisting *)
HandleExisting(k) ==
    /\ goal[k] = "asking"
    /\ HandleCall(k)
    /\ holders' = holders
    /\ answer' = [answer EXCEPT ![k] = offered]
    /\ UNCHANGED <<goal, offered>>

(* cuAlloc, cuListAlloc, cuGroupAlloc *)
HandleTry(k) ==
    /\ goal[k] = "trying"
    /\ HandleCall(k)
    /\ LET had == offered /\ Cardinality(holders) < Units
       IN  /\ holders' = IF had THEN holders \cup {id[k]} ELSE holders
           /\ answer' = [answer EXCEPT ![k] = had]
    /\ UNCHANGED <<goal, offered>>

(* Any other call, or the last one of an application that crashed.         *)
HandleOther(k) ==
    /\ ~Blocked(k)
    /\ HandleCall(k)
    /\ holders' \subseteq holders \/ (offered /\ Cardinality(holders) < Units)
    /\ UNCHANGED <<goal, answer, offered>>

(* What the application does with the answer: if there is no such thing,   *)
(* the call fails; when an allocation succeeds, it returns.                *)
AfterAnswer(k) ==
    IF (goal[k] = "asking" /\ answer[k]) \/ (goal[k] = "trying" /\ ~answer[k])
    THEN "trying"
    ELSE "none"

(* The response to a call reaches the application (also that to the create *)
(* and echo requests, when there is no goal yet).                          *)
AnswerBlocked(k) ==
    /\ Answer(k)
    /\ goal' = [goal EXCEPT ![k] = AfterAnswer(k)]
    /\ answer' = [answer EXCEPT ![k] = FALSE]
    /\ UNCHANGED offered

BlockingDaemonStep(k) ==
    \/ HandleExisting(k) \/ HandleTry(k) \/ HandleOther(k)
    \/ AnswerBlocked(k)
    \/ /\ HandleCreate(k) \/ HandleEcho(k) \/ HandleDestroy(k) \/ AnswerLost(k) \/ ReadEnd(k)
       /\ UNCHANGED <<goal, answer, offered>>

(* A group is declared or undeclared, an xclbin loaded or, when nobody     *)
(* holds anything of it, unloaded.                                         *)
Offer ==
    /\ offered' = ~offered
    /\ UNCHANGED <<vars, goal, answer>>

BlockingNext ==
    \/ \E k \in Conns : \/ BlockingAlloc(k) \/ Try(k) \/ OtherAppStep(k)
                        \/ BlockingDaemonStep(k)
    \/ ResetWorker /\ UNCHANGED <<goal, answer, offered>>
    \/ Offer

(* As in XrmSessions; and an application that lives in the loop goes on    *)
(* with it.                                                                *)
BlockingFairness ==
    \A k \in Conns : WF_blockingVars(BlockingDaemonStep(k)) /\ WF_blockingVars(Try(k))

BlockingSpec == BlockingInit /\ [][BlockingNext]_blockingVars /\ BlockingFairness

----------------------------------------------------------------------------
(* Properties.                                                             *)

(* The exchange of requests and responses is that of XrmSessions, with its *)
(* fairness: applications that block and retry do not hold up the daemon.  *)
ImplementsSessions == Spec

(* "This function will try to do cu allocation until success" (xrm.h):     *)
(* nobody is kept waiting by the dead, nor by no one at all.  As long as a *)
(* blocking call goes on while what it wants exists, applications that are *)
(* alive hold it, again and again.                                         *)
BlockedByLiving ==
    \A k \in Conns :
        []<>\/ goal[k] # "trying"
            \/ ~offered
            \/ \E j \in Conns : id[j] \in holders /\ app[j] # "gone"

=============================================================================

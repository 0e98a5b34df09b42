------------------------------- MODULE Fleet --------------------------------
(***************************************************************************)
(* Launching, finding and terminating servers: ServerSpec.LaunchServer and *)
(* the lookups of server.go, called by several clients of one ECS cluster. *)
(* A server is a task whose container environment carries its name; the    *)
(* library keeps no state of its own beyond the Server values it returns,  *)
(* which are copies of what ECS said when they were made.                  *)
(*                                                                         *)
(* ECS is external.  A task is listed while it is pending or running, its  *)
(* ports are bound once it runs, and a task that has stopped stays stopped.*)
(***************************************************************************)
EXTENDS Integers, FiniteSets

CONSTANTS
    Clients,   \* the processes that use the library on the cluster
    Tasks,     \* the task ARNs ECS may hand out: bounds the launches
    Names,     \* server names
    Bad,       \* names launched from a task definition that lacks the roles
    Faults,    \* a subset of AllFaults
    None

\* lost: RunTask starts the task and its answer is lost; aws: a call of ECS
\* fails and does nothing; failures: ECS reports failures beside the task;
\* stop: a task stops by itself.
AllFaults == {"lost", "aws", "failures", "stop"}

ASSUME BadAssumption == Bad \subseteq Names
ASSUME FleetFaultsAssumption == Faults \subseteq AllFaults
ASSUME NoneAssumption == None \notin Names \cup Tasks \cup Clients

VARIABLES
    state,   \* of each task: free (not handed out), pending, running, stopped
    name,    \* SERVER_NAME of each task
    by,      \* history: the client whose RunTask started it
    seen,    \* history: the tasks handed out when that client checked the names
    pc,      \* where each client's call is
    want,    \* the name the client is launching or looking for
    arn,     \* the task the client's call is about
    before,  \* history: the tasks handed out when the names were checked
    server,  \* the Server the client holds: its task, and whether it has ports
    result   \* how the client's last call ended

tasks == <<state, name, by, seen>>
vars == <<state, name, by, seen, pc, want, arn, before, server, result>>

Handles == [arn : Tasks, ports : BOOLEAN, waited : BOOLEAN]
Results == {"none", "ok", "error", "taskerror", "panic"}

TypeOK ==
    /\ state \in [Tasks -> {"free", "pending", "running", "stopped"}]
    /\ name \in [Tasks -> Names \cup {None}]
    /\ by \in [Tasks -> Clients \cup {None}]
    /\ seen \in [Tasks -> SUBSET Tasks]
    /\ pc \in [Clients -> {"idle", "check", "run", "launched", "wait", "get"}]
    /\ want \in [Clients -> Names \cup {None}]
    /\ arn \in [Clients -> Tasks \cup {None}]
    /\ before \in [Clients -> SUBSET Tasks]
    /\ server \in [Clients -> Handles \cup {None}]
    /\ result \in [Clients -> Results]

Init ==
    /\ state = [t \in Tasks |-> "free"]
    /\ name = [t \in Tasks |-> None]
    /\ by = [t \in Tasks |-> None]
    /\ seen = [t \in Tasks |-> {}]
    /\ pc = [c \in Clients |-> "idle"]
    /\ want = [c \in Clients |-> None]
    /\ arn = [c \in Clients |-> None]
    /\ before = [c \in Clients |-> {}]
    /\ server = [c \in Clients |-> None]
    /\ result = [c \in Clients |-> "none"]

-----------------------------------------------------------------------------
(***************************************************************************)
(* The cluster (external).                                                 *)
(***************************************************************************)
Active(t) == state[t] \in {"pending", "running"}
HandedOut == {t \in Tasks : state[t] # "free"}

TaskRuns(t) ==
    /\ state[t] = "pending"
    /\ state' = [state EXCEPT ![t] = "running"]
    /\ UNCHANGED <<name, by, seen, pc, want, arn, before, server, result>>

TaskStops(t) ==
    /\ "stop" \in Faults
    /\ Active(t)
    /\ state' = [state EXCEPT ![t] = "stopped"]
    /\ UNCHANGED <<name, by, seen, pc, want, arn, before, server, result>>

-----------------------------------------------------------------------------
Goto(c, l) ==
    /\ pc' = [pc EXCEPT ![c] = l]
    /\ UNCHANGED <<want, arn, before, server, result>>

\* A call ends; s is the Server it leaves the client with.
Return(c, r, s) ==
    /\ pc' = [pc EXCEPT ![c] = "idle"]
    /\ want' = [want EXCEPT ![c] = None]
    /\ arn' = [arn EXCEPT ![c] = None]
    /\ before' = [before EXCEPT ![c] = {}]
    /\ server' = [server EXCEPT ![c] = s]
    /\ result' = [result EXCEPT ![c] = r]

\* Variant: only the tasks that run already are listed.
ServersRunning == {t \in Tasks : state[t] = "running"}

\* GetServers: every active task with a server container.
GetServers == {t \in Tasks : Active(t)}

\* GetServerFromTask: the ports are those ECS has bound so far, 0 if none.
ServerFromTask(t, waited) ==
    [arn |-> t, ports |-> state[t] = "running", waited |-> waited]

(***************************************************************************)
(* LaunchServer: check the names, run the task, get the server.            *)
(***************************************************************************)
LaunchServer(c, n) ==
    /\ pc[c] = "idle"
    /\ pc' = [pc EXCEPT ![c] = "check"]
    /\ want' = [want EXCEPT ![c] = n]
    /\ UNCHANGED <<tasks, arn, before, server, result>>

\* Variant: the name is compared with those of the client's own servers.
NameTakenOwn(c) == \E t \in GetServers : name[t] = want[c] /\ by[t] = c

NameTaken(c) == \E t \in GetServers : name[t] = want[c]

\* Listing fails, or finds the name: a plain error.  ContainerEnvironmentMap
\* then fails when the task definition has no container of a role.
CheckNames(c) ==
    /\ pc[c] = "check"
    /\ \/ ("aws" \in Faults \/ NameTaken(c)) /\ Return(c, "error", server[c])
       \/ ~NameTaken(c) /\ want[c] \in Bad /\ Return(c, "taskerror", server[c])
       \/ /\ ~NameTaken(c) /\ want[c] \notin Bad
          /\ pc' = [pc EXCEPT ![c] = "run"]
          /\ before' = [before EXCEPT ![c] = HandedOut]
          /\ UNCHANGED <<want, arn, server, result>>
    /\ UNCHANGED tasks

\* Variant: SERVER_NAME is filled with the user.
StartedUser(c, t) ==
    /\ state[t] = "free"
    /\ state' = [state EXCEPT ![t] = "pending"]
    /\ name' = [name EXCEPT ![t] = c]
    /\ by' = [by EXCEPT ![t] = c]
    /\ seen' = [seen EXCEPT ![t] = before[c]]

\* The task ECS starts, with the environment of the ServerSpec.
Started(c, t) ==
    /\ state[t] = "free"
    /\ state' = [state EXCEPT ![t] = "pending"]
    /\ name' = [name EXCEPT ![t] = want[c]]
    /\ by' = [by EXCEPT ![t] = c]
    /\ seen' = [seen EXCEPT ![t] = before[c]]

\* Failures beside the task make an error of a launch that took place.
RunTask(c) ==
    /\ pc[c] = "run"
    /\ \/ \E t \in Tasks :
            /\ Started(c, t)
            /\ \/ /\ pc' = [pc EXCEPT ![c] = "launched"]
                  /\ arn' = [arn EXCEPT ![c] = t]
                  /\ UNCHANGED <<want, before, server, result>>
               \/ Faults \cap {"lost", "failures"} # {} /\ Return(c, "taskerror", server[c])
       \/ "aws" \in Faults /\ Return(c, "taskerror", server[c]) /\ UNCHANGED tasks

\* GetServer of the new task.  When it fails there is no Server, and the log
\* fields are taken of it all the same: the process panics.
GetLaunched(c) ==
    /\ pc[c] = "launched"
    /\ \/ Active(arn[c]) /\ Return(c, "ok", ServerFromTask(arn[c], FALSE))
       \/ ("aws" \in Faults \/ ~Active(arn[c])) /\ Return(c, "panic", None)
    /\ UNCHANGED tasks

-----------------------------------------------------------------------------
(***************************************************************************)
(* Lookups.  GetServer of an ARN the client learnt from somewhere;         *)
(* GetServerWait, which waits for the task to run before it; and           *)
(* GetServerFromName.                                                      *)
(***************************************************************************)
GetServer(c, t) ==
    /\ pc[c] = "idle" /\ t \in HandedOut
    /\ \/ Active(t) /\ Return(c, "ok", ServerFromTask(t, FALSE))
       \/ ("aws" \in Faults \/ ~Active(t)) /\ Return(c, "error", server[c])
    /\ UNCHANGED tasks

\* Variant: the server is fetched without a wait.
GetServerWaitNot(c, t) ==
    /\ pc[c] = "idle" /\ t \in HandedOut
    /\ pc' = [pc EXCEPT ![c] = "get"]
    /\ arn' = [arn EXCEPT ![c] = t]
    /\ UNCHANGED <<tasks, want, before, server, result>>

\* The ARN given is waited for first.
GetServerWait(c, t) ==
    /\ pc[c] = "idle" /\ t \in HandedOut
    /\ pc' = [pc EXCEPT ![c] = "wait"]
    /\ arn' = [arn EXCEPT ![c] = t]
    /\ UNCHANGED <<tasks, want, before, server, result>>

\* awslib's waiter (external): over when the task runs; a stopped task, or a
\* failed call, is an error.
WaitForTask(c) ==
    /\ pc[c] = "wait"
    /\ \/ state[arn[c]] = "running" /\ Goto(c, "get")
       \/ ("aws" \in Faults \/ state[arn[c]] = "stopped") /\ Return(c, "error", server[c])
    /\ UNCHANGED tasks

GetWaited(c) ==
    /\ pc[c] = "get"
    /\ \/ Active(arn[c]) /\ Return(c, "ok", ServerFromTask(arn[c], TRUE))
       \/ ("aws" \in Faults \/ ~Active(arn[c])) /\ Return(c, "error", server[c])
    /\ UNCHANGED tasks

\* An error if there is no such server, or more than one.
GetServerFromName(c, n) ==
    /\ pc[c] = "idle"
    /\ LET found == {t \in GetServers : name[t] = n}
       IN  \/ \E t \in found : found = {t} /\ Return(c, "ok", ServerFromTask(t, FALSE))
           \/ ("aws" \in Faults \/ Cardinality(found) # 1) /\ Return(c, "error", server[c])
    /\ UNCHANGED tasks

\* Stop the task of the Server the client holds, which it goes on holding.
Terminate(c) ==
    /\ pc[c] = "idle" /\ server[c] # None
    /\ \/ /\ state' = [state EXCEPT ![server[c].arn] = "stopped"]
          /\ Return(c, "ok", server[c])
       \/ "aws" \in Faults /\ Return(c, "error", server[c]) /\ UNCHANGED state
    /\ UNCHANGED <<name, by, seen>>

-----------------------------------------------------------------------------
Next ==
    \/ \E t \in Tasks : TaskRuns(t) \/ TaskStops(t)
    \/ \E c \in Clients :
         \/ \E n \in Names : LaunchServer(c, n) \/ GetServerFromName(c, n)
         \/ \E t \in Tasks : GetServer(c, t) \/ GetServerWait(c, t)
         \/ CheckNames(c) \/ RunTask(c) \/ GetLaunched(c)
         \/ WaitForTask(c) \/ GetWaited(c) \/ Terminate(c)

Spec == Init /\ [][Next]_vars

-----------------------------------------------------------------------------
(***************************************************************************)
(* Properties.                                                             *)
(***************************************************************************)

\* A client that tries again after any error, one after a launch that took
\* place included, never has two servers of one name.
RetrySafe ==
    \A t, u \in Tasks :
        Active(t) /\ Active(u) /\ name[t] = name[u] /\ by[t] = by[u] => t = u

\* Two servers of one name can only come from launches that overlapped: each
\* checked the names before the other's task existed.
DuplicatesOverlap ==
    \A t, u \in Tasks :
        Active(t) /\ Active(u) /\ name[t] = name[u] /\ t # u => t \notin seen[u]

\* A Server from GetServerWait has its ports, however late it was fetched
\* after the wait.
WaitedHasPorts ==
    \A c \in Clients : server[c] # None /\ server[c].waited => server[c].ports

\* "Can't launch, server name already exists": no two servers share a name.
UniqueNames ==
    \A t, u \in Tasks : Active(t) /\ Active(u) /\ name[t] = name[u] => t = u
=============================================================================

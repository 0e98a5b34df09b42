---------------------------- MODULE FleetProofs -----------------------------
(***************************************************************************)
(* Theorems about Fleet, for any number of clients, tasks and names: what  *)
(* the check of the names in LaunchServer does guarantee.                  *)
(***************************************************************************)
EXTENDS Fleet, TLAPS

(***************************************************************************)
(* The part of the type invariant that matters here.                       *)
(***************************************************************************)
TaskTypeOK ==
    /\ state \in [Tasks -> {"free", "pending", "running", "stopped"}]
    /\ name \in [Tasks -> Names \cup {None}]
    /\ by \in [Tasks -> Clients \cup {None}]
    /\ seen \in [Tasks -> SUBSET Tasks]
    /\ pc \in [Clients -> {"idle", "check", "run", "launched", "wait", "get"}]
    /\ want \in [Clients -> Names \cup {None}]
    /\ before \in [Clients -> SUBSET Tasks]

(***************************************************************************)
(* A call that is about to run a task has seen every task its client ever  *)
(* started, and every other server of that name started after it looked.   *)
(***************************************************************************)
Checked(c) ==
    pc[c] = "run" =>
        /\ before[c] \subseteq HandedOut
        /\ \A t \in Tasks : Active(t) /\ name[t] = want[c] => t \notin before[c]
        /\ \A t \in HandedOut : by[t] = c => t \in before[c]

\* Of two tasks of one client the later one was started knowing the other.
KnowsOwn ==
    \A t, u \in HandedOut : t # u /\ by[t] = by[u] => t \in seen[u] \/ u \in seen[t]

FleetInv ==
    /\ TaskTypeOK
    /\ \A c \in Clients : Checked(c)
    /\ \A t \in HandedOut : by[t] \in Clients /\ seen[t] \subseteq HandedOut
    /\ KnowsOwn
    /\ DuplicatesOverlap

(***************************************************************************)
(* What a client's calls and Servers are about are tasks ECS handed out.   *)
(***************************************************************************)
Known(c) ==
    /\ pc[c] \in {"launched", "wait", "get"} => arn[c] \in HandedOut
    /\ server[c] # None => server[c] \in Handles /\ server[c].arn \in HandedOut

KnownInv ==
    /\ state \in [Tasks -> {"free", "pending", "running", "stopped"}]
    /\ DOMAIN pc = Clients /\ pc = [c \in Clients |-> pc[c]]
    /\ DOMAIN arn = Clients /\ arn = [c \in Clients |-> arn[c]]
    /\ DOMAIN server = Clients /\ server = [c \in Clients |-> server[c]]
    /\ \A c \in Clients : Known(c)

LEMMA HandlesFromTasks ==
  ASSUME NEW t \in Tasks, NEW w \in BOOLEAN
  PROVE  /\ ServerFromTask(t, w) \in Handles
         /\ ServerFromTask(t, w).arn = t /\ ServerFromTask(t, w).waited = w
         /\ ServerFromTask(t, w).ports = (state[t] = "running")
BY DEF ServerFromTask, Handles

LEMMA KnownNext == KnownInv /\ [Next]_vars => KnownInv'
<1> SUFFICES ASSUME KnownInv, [Next]_vars PROVE KnownInv'
  OBVIOUS
<1> USE DEF KnownInv
<1>0. \A t \in Tasks : Active(t) => t \in HandedOut
  BY DEF Active, HandedOut
<1>1. ASSUME NEW t \in Tasks, TaskRuns(t) \/ TaskStops(t) PROVE KnownInv'
  BY <1>1 DEF TaskRuns, TaskStops, Known, HandedOut
\* A call that ends, with the Server it had or with that of a task in use.
<1>2. ASSUME NEW c \in Clients, NEW r, NEW s, Return(c, r, s),
             state' \in [Tasks -> {"free", "pending", "running", "stopped"}],
             HandedOut \subseteq HandedOut',
             s # None => s \in Handles /\ s.arn \in HandedOut
      PROVE  KnownInv'
  BY <1>2 DEF Return, Known
\* A call that goes on, about the same task or another one in use.
<1>3. ASSUME NEW c \in Clients, NEW l, pc' = [pc EXCEPT ![c] = l], UNCHANGED server,
             state' \in [Tasks -> {"free", "pending", "running", "stopped"}],
             HandedOut \subseteq HandedOut',
             \/ UNCHANGED arn /\ (pc[c] = "wait" \/ l \in {"check", "run"})
             \/ \E t \in HandedOut' : arn' = [arn EXCEPT ![c] = t]
      PROVE  KnownInv'
  BY <1>3 DEF Known
<1>4. ASSUME NEW c \in Clients, NEW n \in Names, LaunchServer(c, n) PROVE KnownInv'
  BY <1>3, <1>4 DEF LaunchServer, tasks, HandedOut
<1>5. ASSUME NEW c \in Clients, CheckNames(c) PROVE KnownInv'
  BY <1>2, <1>3, <1>5 DEF CheckNames, tasks, HandedOut, Known
<1>6. ASSUME NEW c \in Clients, RunTask(c) PROVE KnownInv'
  <2>1. CASE UNCHANGED tasks
    BY <1>2, <1>6, <2>1 DEF RunTask, tasks, HandedOut, Known, Started
  <2>2. ASSUME NEW t \in Tasks, Started(c, t)
        PROVE  /\ state' \in [Tasks -> {"free", "pending", "running", "stopped"}]
               /\ HandedOut \subseteq HandedOut' /\ t \in HandedOut'
    BY <2>2 DEF Started, HandedOut
  <2>3. server[c] # None => server[c] \in Handles /\ server[c].arn \in HandedOut
    BY DEF Known
  <2> QED
    BY <1>2, <1>3, <1>6, <2>1, <2>2, <2>3 DEF RunTask
<1>7. ASSUME NEW c \in Clients, GetLaunched(c) \/ WaitForTask(c) \/ GetWaited(c)
      PROVE  KnownInv'
  <2>1. arn[c] \in HandedOut /\ HandedOut \subseteq Tasks
    BY <1>7 DEF GetLaunched, WaitForTask, GetWaited, Known, HandedOut
  <2>2. UNCHANGED tasks /\ HandedOut' = HandedOut /\ UNCHANGED state
    BY <1>7 DEF GetLaunched, WaitForTask, GetWaited, tasks, HandedOut
  <2>3. server[c] # None => server[c] \in Handles /\ server[c].arn \in HandedOut
    BY DEF Known
  <2>4. CASE WaitForTask(c)
    BY <1>2, <1>3, <2>2, <2>3, <2>4 DEF WaitForTask, Goto
  <2>5. CASE GetLaunched(c) \/ GetWaited(c)
    BY <1>2, <2>1, <2>2, <2>3, <2>5, HandlesFromTasks DEF GetLaunched, GetWaited
  <2> QED
    BY <1>7, <2>4, <2>5
<1>8. ASSUME NEW c \in Clients,
             \/ \E n \in Names : GetServerFromName(c, n)
             \/ \E t \in Tasks : GetServer(c, t) \/ GetServerWait(c, t)
      PROVE  KnownInv'
  <2>1. UNCHANGED tasks /\ HandedOut' = HandedOut /\ UNCHANGED state
    BY <1>8 DEF GetServerFromName, GetServer, GetServerWait, tasks, HandedOut
  <2>2. server[c] # None => server[c] \in Handles /\ server[c].arn \in HandedOut
    BY DEF Known
  <2>3. CASE \E t \in Tasks : GetServerWait(c, t)
    BY <1>3, <2>1, <2>3 DEF GetServerWait
  <2>4. CASE \E t \in Tasks : GetServer(c, t)
    BY <1>2, <2>1, <2>2, <2>4, HandlesFromTasks DEF GetServer
  <2>5. CASE \E n \in Names : GetServerFromName(c, n)
    BY <1>0, <1>2, <2>1, <2>2, <2>5, HandlesFromTasks DEF GetServerFromName, GetServers
  <2> QED
    BY <1>8, <2>3, <2>4, <2>5
<1>9. ASSUME NEW c \in Clients, Terminate(c) PROVE KnownInv'
  <2>1. server[c] \in Handles /\ server[c].arn \in HandedOut
    BY <1>9 DEF Terminate, Known
  <2>2. /\ state' \in [Tasks -> {"free", "pending", "running", "stopped"}]
        /\ HandedOut \subseteq HandedOut'
    BY <1>9, <2>1 DEF Terminate, HandedOut, Handles
  <2> QED
    BY <1>2, <1>9, <2>1, <2>2 DEF Terminate
<1>10. CASE UNCHANGED vars
  BY <1>10 DEF vars, Known, HandedOut
<1> QED
  BY <1>1, <1>4, <1>5, <1>6, <1>7, <1>8, <1>9, <1>10 DEF Next

(***************************************************************************)
(* Most steps start no task: they change the state of one task at most,    *)
(* to one it does not come back from, and a call that gets to "run" in one *)
(* has just checked the names.                                             *)
(***************************************************************************)
NoStart ==
    /\ UNCHANGED <<name, by, seen>>
    /\ state' \in [Tasks -> {"free", "pending", "running", "stopped"}]
    /\ HandedOut' = HandedOut
    /\ \A t \in Tasks : Active(t)' => Active(t)
    /\ pc' \in [Clients -> {"idle", "check", "run", "launched", "wait", "get"}]
    /\ want' \in [Clients -> Names \cup {None}]
    /\ before' \in [Clients -> SUBSET Tasks]

Kept(c) == pc'[c] = "run" => UNCHANGED <<pc[c], want[c], before[c]>>

LEMMA NoStartInv ==
  ASSUME FleetInv, NoStart, \A c \in Clients : Kept(c) \/ Checked(c)'
  PROVE  FleetInv'
<1>1. TaskTypeOK'
  BY DEF FleetInv, TaskTypeOK, NoStart
<1>2. ASSUME NEW c \in Clients PROVE Checked(c)'
  BY <1>2 DEF FleetInv, NoStart, Kept, Checked
<1>3. KnowsOwn' /\ DuplicatesOverlap'
  BY DEF FleetInv, NoStart, KnowsOwn, DuplicatesOverlap
<1>4. \A t \in HandedOut' : by'[t] \in Clients /\ seen'[t] \subseteq HandedOut'
  BY DEF FleetInv, NoStart
<1> QED
  BY <1>1, <1>2, <1>3, <1>4 DEF FleetInv

\* A task that stops or starts running.
LEMMA TaskSteps ==
  ASSUME FleetInv, NEW t \in Tasks, TaskRuns(t) \/ TaskStops(t)
  PROVE  FleetInv'
<1>1. NoStart
  BY DEF FleetInv, TaskTypeOK, NoStart, TaskRuns, TaskStops, Active, HandedOut
<1>2. \A c \in Clients : Kept(c)
  BY DEF TaskRuns, TaskStops, Kept
<1> QED
  BY <1>1, <1>2, NoStartInv

\* A step of a call that changes no task and does not lead to "run".
LEMMA CallSteps ==
  ASSUME FleetInv, NEW c \in Clients, UNCHANGED tasks,
         pc'[c] # "run", \A d \in Clients \ {c} : Kept(d),
         pc' \in [Clients -> {"idle", "check", "run", "launched", "wait", "get"}],
         want' \in [Clients -> Names \cup {None}],
         before' \in [Clients -> SUBSET Tasks]
  PROVE  FleetInv'
<1>1. NoStart
  BY DEF FleetInv, TaskTypeOK, NoStart, Active, HandedOut, tasks
<1>2. \A d \in Clients : Kept(d)
  BY DEF Kept
<1> QED
  BY <1>1, <1>2, NoStartInv

LEMMA Returning ==
  ASSUME FleetInv, NEW c \in Clients, NEW r, NEW s, Return(c, r, s)
  PROVE  /\ pc'[c] = "idle" /\ \A d \in Clients \ {c} : Kept(d)
         /\ pc' \in [Clients -> {"idle", "check", "run", "launched", "wait", "get"}]
         /\ want' \in [Clients -> Names \cup {None}]
         /\ before' \in [Clients -> SUBSET Tasks]
BY DEF FleetInv, TaskTypeOK, Return, Kept

\* A task is started: the one step that may make a duplicate.
LEMMA RunTaskInv ==
  ASSUME FleetInv, NoneAssumption, NEW c \in Clients, RunTask(c)
  PROVE  FleetInv'
<1>0. FleetInv /\ pc[c] = "run" /\ Checked(c)
  BY DEF FleetInv, RunTask
<1>1. CASE UNCHANGED tasks /\ Return(c, "taskerror", server[c])
  BY <1>1, Returning, CallSteps
<1>2. ASSUME NEW t \in Tasks, Started(c, t),
             \/ pc' = [pc EXCEPT ![c] = "launched"] /\ UNCHANGED <<want, before>>
             \/ Return(c, "taskerror", server[c])
      PROVE  FleetInv'
  <2>1. /\ TaskTypeOK' /\ pc'[c] # "run"
        /\ \A d \in Clients \ {c} :
             pc'[d] = pc[d] /\ want'[d] = want[d] /\ before'[d] = before[d]
    BY <1>0, <1>2 DEF FleetInv, TaskTypeOK, Started, Return
  <2>2. /\ t \notin HandedOut /\ HandedOut' = HandedOut \cup {t}
        /\ name'[t] = want[c] /\ by'[t] = c /\ seen'[t] = before[c]
        /\ \A u \in Tasks \ {t} : /\ state'[u] = state[u] /\ name'[u] = name[u]
                                  /\ by'[u] = by[u] /\ seen'[u] = seen[u]
    BY <1>0, <1>2 DEF FleetInv, TaskTypeOK, Started, HandedOut
  <2>3. \A u \in Tasks \ {t} : Active(u)' <=> Active(u)
    BY <2>2 DEF Active
  <2>4. \A u \in Tasks : Active(u) => u \in HandedOut
    BY DEF Active, HandedOut
  <2>5. ASSUME NEW d \in Clients PROVE Checked(d)'
    <3>1. CASE d = c
      BY <2>1, <3>1 DEF Checked
    <3>2. CASE d # c
      <4> SUFFICES ASSUME pc[d] = "run"
                   PROVE  /\ before[d] \subseteq HandedOut'
                          /\ \A u \in Tasks :
                               Active(u)' /\ name'[u] = want[d] => u \notin before[d]
                          /\ \A u \in HandedOut' : by'[u] = d => u \in before[d]
        BY <2>1, <3>2 DEF Checked
      <4>1. /\ before[d] \subseteq HandedOut
            /\ \A u \in Tasks : Active(u) /\ name[u] = want[d] => u \notin before[d]
            /\ \A u \in HandedOut : by[u] = d => u \in before[d]
        BY <1>0 DEF FleetInv, Checked
      <4>2. HandedOut \subseteq Tasks
        BY DEF HandedOut
      <4> QED
        BY <2>2, <2>3, <3>2, <4>1, <4>2
    <3> QED
      BY <3>1, <3>2
  <2>6. ASSUME NEW u \in HandedOut' PROVE by'[u] \in Clients /\ seen'[u] \subseteq HandedOut'
    <3>1. CASE u = t
      BY <1>0, <2>2, <3>1 DEF Checked
    <3>2. CASE u # t
      <4>1. u \in HandedOut /\ u \in Tasks \ {t}
        BY <2>2, <3>2 DEF HandedOut
      <4> QED
        BY <1>0, <2>2, <4>1 DEF FleetInv
    <3> QED
      BY <3>1, <3>2
  <2>7. KnowsOwn'
    <3>1. HandedOut \subseteq Tasks
      BY DEF HandedOut
    <3> QED
      BY <1>0, <2>2, <3>1 DEF FleetInv, KnowsOwn, Checked
  <2>8. DuplicatesOverlap'
    <3> SUFFICES ASSUME NEW u \in Tasks, NEW w \in Tasks,
                        Active(u)', Active(w)', name'[u] = name'[w], u # w
                 PROVE  u \notin seen'[w]
      BY DEF DuplicatesOverlap
    <3>1. CASE u # t /\ w # t
      BY <1>0, <2>2, <2>3, <3>1 DEF FleetInv, DuplicatesOverlap
    <3>2. CASE w = t
      BY <1>0, <2>2, <2>3, <3>2 DEF Checked
    <3>3. CASE u = t
      BY <1>0, <2>2, <2>3, <2>4, <3>3 DEF FleetInv
    <3> QED
      BY <3>1, <3>2, <3>3
  <2> QED
    BY <2>1, <2>5, <2>6, <2>7, <2>8 DEF FleetInv
<1> QED
  BY <1>1, <1>2 DEF RunTask

LEMMA FleetNext == NoneAssumption /\ KnownInv /\ FleetInv /\ [Next]_vars => FleetInv'
<1> SUFFICES ASSUME NoneAssumption, KnownInv, FleetInv, [Next]_vars PROVE FleetInv'
  OBVIOUS
<1>1. ASSUME NEW t \in Tasks, TaskRuns(t) \/ TaskStops(t) PROVE FleetInv'
  BY <1>1, TaskSteps
<1>2. ASSUME NEW c \in Clients, NEW n \in Names, LaunchServer(c, n) PROVE FleetInv'
  BY <1>2, CallSteps DEF LaunchServer, FleetInv, TaskTypeOK, Kept
<1>3. ASSUME NEW c \in Clients, CheckNames(c) PROVE FleetInv'
  <2>1. CASE \E r \in Results : Return(c, r, server[c])
    BY <1>3, <2>1, Returning, CallSteps DEF CheckNames
  <2>2. CASE /\ ~NameTaken(c)
             /\ pc' = [pc EXCEPT ![c] = "run"]
             /\ before' = [before EXCEPT ![c] = HandedOut]
             /\ UNCHANGED want
    <3>1. HandedOut \subseteq Tasks
      BY DEF HandedOut
    <3>2. NoStart
      BY <1>3, <2>2, <3>1
         DEF CheckNames, FleetInv, TaskTypeOK, NoStart, Active, HandedOut, tasks
    <3>3. Checked(c)'
      BY <1>3, <2>2 DEF CheckNames, Checked, FleetInv, TaskTypeOK, NameTaken,
         GetServers, HandedOut, Active, tasks
    <3>4. \A d \in Clients \ {c} : Kept(d)
      BY <2>2 DEF Kept, FleetInv, TaskTypeOK
    <3> QED
      BY <3>2, <3>3, <3>4, NoStartInv
  <2> QED
    BY <1>3, <2>1, <2>2 DEF CheckNames, Results
<1>4. ASSUME NEW c \in Clients, RunTask(c) PROVE FleetInv'
  BY <1>4, RunTaskInv
<1>5. ASSUME NEW c \in Clients,
             \/ GetLaunched(c) \/ WaitForTask(c) \/ GetWaited(c)
             \/ \E n \in Names : GetServerFromName(c, n)
             \/ \E t \in Tasks : GetServer(c, t) \/ GetServerWait(c, t)
      PROVE  FleetInv'
  <2>1. CASE \E r \in Results : \E s : Return(c, r, s)
    BY <1>5, <2>1, Returning, CallSteps
       DEF GetLaunched, WaitForTask, GetWaited, GetServerFromName, GetServer,
           GetServerWait
  <2>2. CASE \E l \in {"wait", "get"} :
               pc' = [pc EXCEPT ![c] = l] /\ UNCHANGED <<tasks, want, before>>
    BY <2>2, CallSteps DEF FleetInv, TaskTypeOK, Kept
  <2> QED
    BY <1>5, <2>1, <2>2
       DEF GetLaunched, WaitForTask, GetWaited, GetServerFromName, GetServer,
           GetServerWait, Goto, Results
<1>6. ASSUME NEW c \in Clients, Terminate(c) PROVE FleetInv'
  <2>1. PICK r \in Results : Return(c, r, server[c])
    BY <1>6 DEF Terminate, Results
  <2>2. server[c].arn \in HandedOut
    BY <1>6 DEF Terminate, KnownInv, Known
  <2>3. /\ UNCHANGED <<name, by, seen>> /\ HandedOut' = HandedOut
        /\ state' \in [Tasks -> {"free", "pending", "running", "stopped"}]
        /\ \A t \in Tasks : Active(t)' => Active(t)
    BY <1>6, <2>2 DEF Terminate, FleetInv, TaskTypeOK, Active, HandedOut
  <2>4. NoStart
    BY <2>1, <2>3, Returning DEF NoStart
  <2>5. \A d \in Clients : Kept(d)
    BY <2>1, Returning DEF Kept
  <2> QED
    BY <2>4, <2>5, NoStartInv
<1>7. CASE UNCHANGED vars
  BY <1>7 DEF vars, FleetInv, TaskTypeOK, Checked, KnowsOwn, DuplicatesOverlap,
     HandedOut, Active
<1> QED
  BY <1>1, <1>2, <1>3, <1>4, <1>5, <1>6, <1>7 DEF Next

LEMMA FleetInvariant == Spec => [](FleetInv /\ KnownInv)
<1>1. Init => FleetInv /\ KnownInv
  BY DEF Init, FleetInv, TaskTypeOK, Checked, KnowsOwn, DuplicatesOverlap, Active,
     HandedOut, KnownInv, Known
<1>2. FleetInv /\ KnownInv /\ [Next]_vars => (FleetInv /\ KnownInv)'
  BY NoneAssumption, FleetNext, KnownNext
<1> QED
  BY <1>1, <1>2, PTL DEF Spec

(***************************************************************************)
(* Two servers of one name can only come from launches that overlapped.    *)
(***************************************************************************)
THEOREM DuplicateLaunchesOverlap == Spec => []DuplicatesOverlap
<1>1. FleetInv => DuplicatesOverlap
  BY DEF FleetInv
<1> QED
  BY <1>1, FleetInvariant, PTL

(***************************************************************************)
(* A client that retries a launch after an error never has two servers of  *)
(* one name: one of its launches saw the other's task in the listing.      *)
(***************************************************************************)
THEOREM RetriesAreSafe == Spec => []RetrySafe
<1>1. FleetInv => RetrySafe
  <2>1. \A t \in Tasks : Active(t) => t \in HandedOut
    BY DEF Active, HandedOut
  <2> QED
    BY <2>1 DEF FleetInv, KnowsOwn, DuplicatesOverlap, RetrySafe
<1> QED
  BY <1>1, FleetInvariant, PTL

(***************************************************************************)
(* Where one client does all the launching, however often it tries again,  *)
(* no two servers share a name: what LaunchServer's error says.            *)
(***************************************************************************)
THEOREM OneClientUniqueNames ==
  ASSUME \A c, d \in Clients : c = d
  PROVE  Spec => []UniqueNames
<1>1. FleetInv => UniqueNames
  <2>1. FleetInv => \A t \in Tasks : Active(t) => by[t] \in Clients
    BY DEF FleetInv, Active, HandedOut
  <2>2. FleetInv => \A t \in Tasks : Active(t) => t \in HandedOut
    BY DEF Active, HandedOut
  <2> QED
    BY <2>1, <2>2 DEF FleetInv, KnowsOwn, DuplicatesOverlap, UniqueNames
<1> QED
  BY <1>1, FleetInvariant, PTL

(***************************************************************************)
(* A task waited for ran when the wait ended, and a task that ran can only *)
(* stop: if it is still found when the server is fetched, it runs, and its *)
(* ports are bound.                                                        *)
(***************************************************************************)
Ran(t) == state[t] \in {"running", "stopped"}

WaitInv ==
    /\ arn \in [Clients -> Tasks \cup {None}]
    /\ server \in [Clients -> Handles \cup {None}]
    /\ result \in [Clients -> Results]
    /\ \A c \in Clients : pc[c] = "get" => arn[c] \in Tasks /\ Ran(arn[c])
    /\ WaitedHasPorts

LEMMA RanStays ==
  ASSUME KnownInv, [Next]_vars, NEW t \in Tasks, Ran(t)
  PROVE  Ran(t)'
<1>1. CASE \E u \in Tasks : TaskRuns(u) \/ TaskStops(u)
  BY <1>1 DEF KnownInv, TaskRuns, TaskStops, Active, Ran
<1>2. CASE \E c \in Clients : RunTask(c)
  BY <1>2 DEF KnownInv, RunTask, Started, Ran, tasks
<1>3. CASE \E c \in Clients : Terminate(c)
  BY <1>3 DEF KnownInv, Terminate, Ran
<1>4. CASE UNCHANGED state
  BY <1>4 DEF Ran
<1> QED
  BY <1>1, <1>2, <1>3, <1>4
     DEF Next, vars, tasks, LaunchServer, GetServerFromName, GetServer, GetServerWait,
         CheckNames, GetLaunched, WaitForTask, GetWaited

\* A call that ends with a Server that has its ports if it was waited for.
LEMMA WaitReturn ==
  ASSUME WaitInv, TaskTypeOK, \A t \in Tasks : Ran(t) => Ran(t)',
         NEW c \in Clients, NEW r \in Results, NEW s \in Handles \cup {None},
         s # None /\ s.waited => s.ports, Return(c, r, s)
  PROVE  WaitInv'
<1>1. /\ arn' \in [Clients -> Tasks \cup {None}]
      /\ server' \in [Clients -> Handles \cup {None}]
      /\ result' \in [Clients -> Results]
  BY DEF WaitInv, Return
<1>2. ASSUME NEW d \in Clients, pc'[d] = "get"
      PROVE  arn'[d] \in Tasks /\ Ran(arn[d])' /\ arn'[d] = arn[d]
  <2>1. pc[d] = "get" /\ arn'[d] = arn[d]
    BY <1>2 DEF Return, TaskTypeOK, WaitInv
  <2>2. arn[d] \in Tasks /\ Ran(arn[d])
    BY <2>1 DEF WaitInv
  <2> QED
    BY <2>1, <2>2 DEF Ran
<1>3. WaitedHasPorts'
  BY DEF WaitInv, WaitedHasPorts, Return
<1>4. \A d \in Clients : pc'[d] = "get" => arn'[d] \in Tasks /\ state'[arn'[d]] \in {"running", "stopped"}
  BY <1>2 DEF Ran
<1> QED
  BY <1>1, <1>3, <1>4 DEF WaitInv, Ran

\* A call that goes on, anywhere but to the fetch, about a task or none.
LEMMA WaitGoesOn ==
  ASSUME WaitInv, TaskTypeOK, \A t \in Tasks : Ran(t) => Ran(t)',
         NEW c \in Clients, NEW l, l # "get", pc' = [pc EXCEPT ![c] = l],
         UNCHANGED <<server, result>>,
         UNCHANGED arn \/ \E t \in Tasks : arn' = [arn EXCEPT ![c] = t]
  PROVE  WaitInv'
<1>1. /\ arn' \in [Clients -> Tasks \cup {None}]
      /\ server' \in [Clients -> Handles \cup {None}]
      /\ result' \in [Clients -> Results]
  BY DEF WaitInv
<1>2. ASSUME NEW d \in Clients, pc'[d] = "get"
      PROVE  arn'[d] \in Tasks /\ state'[arn'[d]] \in {"running", "stopped"}
  <2>1. pc[d] = "get" /\ arn'[d] = arn[d]
    BY <1>2 DEF TaskTypeOK, WaitInv
  <2>2. arn[d] \in Tasks /\ Ran(arn[d])
    BY <2>1 DEF WaitInv
  <2> QED
    BY <2>1, <2>2 DEF Ran
<1>3. WaitedHasPorts'
  BY DEF WaitInv, WaitedHasPorts
<1> QED
  BY <1>1, <1>2, <1>3 DEF WaitInv, Ran

LEMMA WaitNext == KnownInv /\ TaskTypeOK /\ WaitInv /\ [Next]_vars => WaitInv'
<1> SUFFICES ASSUME KnownInv, TaskTypeOK, WaitInv, [Next]_vars
             PROVE  WaitInv'
  OBVIOUS
<1>1. \A t \in Tasks : Ran(t) => Ran(t)'
  BY RanStays
<1>2. ASSUME NEW c \in Clients
      PROVE  /\ server[c] \in Handles \cup {None}
             /\ server[c] # None /\ server[c].waited => server[c].ports
  BY DEF WaitInv, WaitedHasPorts
<1>3. {"none", "ok", "error", "taskerror", "panic"} = Results
  BY DEF Results
\* A step that fetches a server without a wait, or keeps the one there is.
<1>4. ASSUME NEW c \in Clients, NEW t \in Tasks, Return(c, "ok", ServerFromTask(t, FALSE))
      PROVE  WaitInv'
  BY <1>1, <1>3, <1>4, HandlesFromTasks, WaitReturn
<1>5. ASSUME NEW c \in Clients, NEW r \in Results, Return(c, r, server[c])
      PROVE  WaitInv'
  BY <1>1, <1>2, <1>5, WaitReturn
<1>6. ASSUME NEW t \in Tasks, TaskRuns(t) \/ TaskStops(t)
      PROVE  WaitInv'
  BY <1>1, <1>6 DEF TaskRuns, TaskStops, WaitInv, Ran, WaitedHasPorts
<1>7. ASSUME NEW c \in Clients, NEW n \in Names, LaunchServer(c, n)
      PROVE  WaitInv'
  BY <1>1, <1>7, WaitGoesOn DEF LaunchServer
<1>8. ASSUME NEW c \in Clients, CheckNames(c)
      PROVE  WaitInv'
  <2>1. CASE \E r \in Results : Return(c, r, server[c])
    BY <2>1, <1>5
  <2>2. CASE pc' = [pc EXCEPT ![c] = "run"] /\ UNCHANGED <<want, arn, server, result>>
    BY <1>1, <2>2, WaitGoesOn
  <2> QED
    BY <1>3, <1>8, <2>1, <2>2 DEF CheckNames
<1>9. ASSUME NEW c \in Clients, RunTask(c)
      PROVE  WaitInv'
  <2>1. CASE Return(c, "taskerror", server[c])
    BY <1>3, <1>5, <2>1
  <2>2. CASE \E t \in Tasks : /\ pc' = [pc EXCEPT ![c] = "launched"]
                             /\ arn' = [arn EXCEPT ![c] = t]
                             /\ UNCHANGED <<want, before, server, result>>
    BY <1>1, <2>2, WaitGoesOn
  <2> QED
    BY <1>9, <2>1, <2>2 DEF RunTask
<1>10. ASSUME NEW c \in Clients, GetLaunched(c)
       PROVE  WaitInv'
  <2>1. arn[c] \in Tasks
    BY <1>10 DEF GetLaunched, KnownInv, Known, HandedOut
  <2>2. CASE Return(c, "panic", None)
    BY <1>1, <1>3, <2>2, WaitReturn
  <2> QED
    BY <1>4, <1>10, <2>1, <2>2 DEF GetLaunched
<1>11. ASSUME NEW c \in Clients,
              \/ \E n \in Names : GetServerFromName(c, n)
              \/ \E t \in Tasks : GetServer(c, t)
              \/ Terminate(c)
       PROVE  WaitInv'
  BY <1>3, <1>4, <1>5, <1>11 DEF GetServerFromName, GetServer, Terminate, GetServers
<1>12. ASSUME NEW c \in Clients, NEW t \in Tasks, GetServerWait(c, t)
       PROVE  WaitInv'
  BY <1>1, <1>12, WaitGoesOn DEF GetServerWait
<1>13. ASSUME NEW c \in Clients, WaitForTask(c)
       PROVE  WaitInv'
  <2>1. CASE Return(c, "error", server[c])
    BY <1>3, <1>5, <2>1
  <2>2. CASE state[arn[c]] = "running" /\ Goto(c, "get")
    <3>1. arn[c] \in Tasks /\ Ran(arn[c])
      BY <1>13, <2>2 DEF WaitForTask, KnownInv, Known, HandedOut, Ran
    <3>2. UNCHANGED state
      BY <1>13 DEF WaitForTask, tasks
    <3>3. \A d \in Clients \ {c} : pc'[d] = pc[d]
      BY <2>2 DEF Goto, TaskTypeOK
    <3> QED
      BY <2>2, <3>1, <3>2, <3>3 DEF Goto, WaitInv, Ran, WaitedHasPorts
  <2> QED
    BY <1>13, <2>1, <2>2 DEF WaitForTask
\* The task waited for is found, so it has not stopped: it runs.
<1>14. ASSUME NEW c \in Clients, GetWaited(c)
       PROVE  WaitInv'
  <2>1. CASE Return(c, "error", server[c])
    BY <1>3, <1>5, <2>1
  <2>2. CASE Active(arn[c]) /\ Return(c, "ok", ServerFromTask(arn[c], TRUE))
    <3>1. arn[c] \in Tasks /\ state[arn[c]] = "running"
      BY <1>14, <2>2 DEF GetWaited, WaitInv, Ran, Active
    <3> QED
      BY <1>1, <1>3, <2>2, <3>1, HandlesFromTasks, WaitReturn
  <2> QED
    BY <1>14, <2>1, <2>2 DEF GetWaited
<1>15. CASE UNCHANGED vars
  BY <1>15 DEF vars, WaitInv, Ran, WaitedHasPorts
<1> QED
  BY <1>6, <1>7, <1>8, <1>9, <1>10, <1>11, <1>12, <1>13, <1>14, <1>15 DEF Next

LEMMA WaitInvariant == Spec => [](FleetInv /\ WaitInv)
<1>1. Init => WaitInv
  BY DEF Init, WaitInv, Results, WaitedHasPorts
<1>2. FleetInv => TaskTypeOK
  BY DEF FleetInv
<1> QED
  BY <1>1, <1>2, FleetInvariant, WaitNext, PTL DEF Spec

(***************************************************************************)
(* Every variable keeps its type.                                          *)
(***************************************************************************)
THEOREM FleetTypeCorrect == Spec => []TypeOK
<1>1. FleetInv /\ WaitInv => TypeOK
  BY DEF FleetInv, TaskTypeOK, WaitInv, TypeOK
<1> QED
  BY <1>1, WaitInvariant, PTL

(***************************************************************************)
(* A Server from GetServerWait has its ports.                              *)
(***************************************************************************)
THEOREM WaitedServersHavePorts == Spec => []WaitedHasPorts
<1>1. WaitInv => WaitedHasPorts
  BY DEF WaitInv
<1> QED
  BY <1>1, WaitInvariant, PTL
=============================================================================

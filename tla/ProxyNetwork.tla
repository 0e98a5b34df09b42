---------------------------- MODULE ProxyNetwork ----------------------------
(***************************************************************************)
(* One bungee proxy and the DNS that leads players to it: proxy.go and the *)
(* proxy's half of dns.go, called by several administrators.               *)
(*                                                                         *)
(* An administrator works with a Proxy and Servers it fetched at some time *)
(* and keeps; the proxy's task is relaunched under them with an empty      *)
(* configuration, on another host or on the same one, and a server's on    *)
(* another port.  A server's address is named by the number of its launch, *)
(* 0 stands for a server whose port is not bound.                          *)
(*                                                                         *)
(* External: Route 53 (upsert, and delete of a record with its value), the *)
(* bungee proxy's rcon commands, ECS.  A proxy that stops takes its rcon   *)
(* connections with it; one made later to its host may reach the next.     *)
(***************************************************************************)
EXTENDS Naturals

CONSTANTS
    Admins,      \* the processes that use the library
    Servers,     \* server names
    LabelOf,     \* nameToDNSForm: two names may have one form
    Faults,      \* a subset of AllFaults
    MaxProxies,  \* bounds the launches of the proxy
    IpOf,        \* the public IP of the EC2 host of each launch of the proxy
    MaxRuns,     \* bounds the launches of a server
    None

\* rcon: a connection breaks, the command in it executed or not; aws: a DNS
\* call fails, its change made or not.
AllFaults == {"rcon", "aws"}

ASSUME ProxyFaultsAssumption == Faults \subseteq AllFaults
ASSUME LaunchesAssumption == MaxProxies \in Nat \ {0} /\ MaxRuns \in Nat \ {0}

\* Launches may share a host, and 0 is no address.
ASSUME IpAssumption == IpOf \in [1..MaxProxies -> Nat \ {0}]
ASSUME ServersAssumption == None \notin Servers

Ips == {IpOf[i] : i \in 1..MaxProxies}
Labels == {LabelOf[s] : s \in Servers}

\* A server's FQDN under the proxy: its label, and whether a dot is left at
\* the end, which bungee, comparing host names, does not forgive.
FQDNs == Labels \X BOOLEAN

VARIABLES
    proxy,      \* the launch of the proxy that runs
    access,     \* of the running proxy: the address of each server it has
    forced,     \* of the running proxy: the server each FQDN is forced to
    addr,       \* where each server listens, 0 while its port is not bound
    proxyDns,   \* the proxy's A record, 0 if none
    serverDns,  \* the A record of each label under the proxy, 0 if none
    task,       \* of each admin's Proxy: the launch it was fetched of
    rcon,       \* of each admin's Proxy: Rcon, nil, open or broken
    known,      \* of each admin's Servers: the address
    call,       \* what each admin has called
    alone,      \* history: whether no other call on the label overlapped it
    answer      \* history: what the calls that went well settled, see Settle

network == <<proxy, access, forced, addr, proxyDns, serverDns>>
vars == <<proxy, access, forced, addr, proxyDns, serverDns, task, rcon, known,
          call, alone, answer>>

Ops == {"AddServerAccess", "RemoveServerAccess", "StartProxyForServer",
        "StopProxyForServer", "AttachToProxyNetwork", "DetachFromProxyNetwork"}
Parts == {"access", "host", "record"}
Steps == {"dns", "rcon", "names", "send", "change"}
NoCall == [op |-> "none", server |-> None, at |-> "idle", fqdn |-> None]

TypeOK ==
    /\ proxy \in 1..MaxProxies
    /\ access \in [Servers -> 1..MaxRuns \cup {None}]
    /\ forced \in [FQDNs -> Servers \cup {None}]
    /\ addr \in [Servers -> 0..MaxRuns]
    /\ proxyDns \in Ips \cup {0}
    /\ serverDns \in [Labels -> Ips \cup {0}]
    /\ task \in [Admins -> 1..MaxProxies]
    /\ rcon \in [Admins -> {"nil", "open", "broken"}]
    /\ known \in [Admins -> [Servers -> 0..MaxRuns]]
    /\ call \in [Admins -> {NoCall} \cup
                           [op : Ops, server : Servers, at : Steps, fqdn : FQDNs \cup {None}]]
    /\ alone \in [Admins -> BOOLEAN]
    /\ answer \in [Servers -> [Parts -> {"in", "out", "unknown"}]]

Init ==
    /\ proxy = 1
    /\ access = [s \in Servers |-> None]
    /\ forced = [f \in FQDNs |-> None]
    /\ addr = [s \in Servers |-> 0]
    /\ proxyDns = 0
    /\ serverDns = [l \in Labels |-> 0]
    /\ task = [a \in Admins |-> 1]
    /\ rcon = [a \in Admins |-> "nil"]
    /\ known = [a \in Admins |-> [s \in Servers |-> 0]]
    /\ call = [a \in Admins |-> NoCall]
    /\ alone = [a \in Admins |-> FALSE]
    /\ answer = [s \in Servers |-> [x \in Parts |-> "unknown"]]

-----------------------------------------------------------------------------
(***************************************************************************)
(* The tasks (external) and the values an administrator fetches.           *)
(***************************************************************************)
Doubt(s, parts) ==
    [x \in Parts |-> IF x \in parts /\ answer[s][x] = "in" THEN "unknown" ELSE answer[s][x]]

ProxyRelaunched ==
    /\ proxy < MaxProxies
    /\ proxy' = proxy + 1
    /\ access' = [s \in Servers |-> None]
    /\ forced' = [f \in FQDNs |-> None]
    /\ answer' = [s \in Servers |-> Doubt(s, Parts)]
    /\ rcon' = [a \in Admins |-> IF rcon[a] = "open" THEN "broken" ELSE rcon[a]]
    /\ UNCHANGED <<addr, proxyDns, serverDns, task, known, call, alone>>

ServerListens(s) ==
    /\ addr[s] < MaxRuns
    /\ addr' = [addr EXCEPT ![s] = @ + 1]
    /\ answer' = [answer EXCEPT ![s] = Doubt(s, {"access"})]
    /\ UNCHANGED <<proxy, access, forced, proxyDns, serverDns, task, rcon, known, call, alone>>

GetProxyFromName(a) ==
    /\ call[a] = NoCall
    /\ task' = [task EXCEPT ![a] = proxy]
    /\ rcon' = [rcon EXCEPT ![a] = "nil"]
    /\ UNCHANGED <<network, known, call, alone, answer>>

GetServerFromName(a, s) ==
    /\ call[a] = NoCall
    /\ known' = [known EXCEPT ![a][s] = addr[s]]
    /\ UNCHANGED <<network, task, rcon, call, alone, answer>>

-----------------------------------------------------------------------------
(***************************************************************************)
(* Calls.  Two calls are about the same thing if they change the same part *)
(* of what leads to one label.                                             *)
(***************************************************************************)
Part(op) ==
    CASE op \in {"AddServerAccess", "RemoveServerAccess"} -> "access"
      [] op \in {"StartProxyForServer", "StopProxyForServer"} -> "host"
      [] op \in {"AttachToProxyNetwork", "DetachFromProxyNetwork"} -> "record"

SameThing(op, s) ==
    {b \in Admins : /\ call[b] # NoCall
                    /\ Part(call[b].op) = Part(op)
                    /\ LabelOf[call[b].server] = LabelOf[s]}

First(op) ==
    CASE op \in {"AddServerAccess", "RemoveServerAccess", "StopProxyForServer"} -> "rcon"
      [] op \in {"StartProxyForServer", "DetachFromProxyNetwork"} -> "dns"
      [] op = "AttachToProxyNetwork" -> "change"

\* Variant: the port is not looked at.
InvalidPortNever(a, op, s) == FALSE

\* A server without a port is not added: the call ends in an error at once.
InvalidPort(a, op, s) == op = "AddServerAccess" /\ known[a][s] = 0

Call(a, op, s) ==
    /\ call[a] = NoCall
    /\ ~InvalidPort(a, op, s)
    /\ call' = [call EXCEPT ![a] = [op |-> op, server |-> s, at |-> First(op), fqdn |-> None]]
    /\ alone' = [b \in Admins |-> IF b = a THEN SameThing(op, s) = {}
                                  ELSE alone[b] /\ b \notin SameThing(op, s)]
    /\ answer' = [t \in Servers |->
                    IF LabelOf[t] = LabelOf[s] THEN [answer[t] EXCEPT ![Part(op)] = "unknown"]
                    ELSE answer[t]]
    /\ UNCHANGED <<network, task, rcon, known>>

Goto(a, l) == call' = [call EXCEPT ![a].at = l] /\ UNCHANGED <<alone, answer>>

\* The field of a's Proxy, the IP of the host its task ran on.
PublicProxyIp(a) == IpOf[task[a]]

Over(a) ==
    /\ call' = [call EXCEPT ![a] = NoCall]
    /\ alone' = [alone EXCEPT ![a] = FALSE]

Fail(a) == Over(a) /\ UNCHANGED answer

(***************************************************************************)
(* The call went well.  If no other was about the same thing meanwhile,    *)
(* the part is settled: in, for what a Proxy with the host's address and a *)
(* current Server put there; or out.                                       *)
(***************************************************************************)
Settle(a) ==
    LET s == call[a].server  op == call[a].op
        now == CASE op \in {"RemoveServerAccess", "StopProxyForServer",
                            "DetachFromProxyNetwork"} -> "out"
                 [] op = "AddServerAccess" /\ known[a][s] # addr[s] -> "unknown"
                 [] OTHER -> IF PublicProxyIp(a) = IpOf[proxy] THEN "in" ELSE "unknown"
    IN  /\ Over(a)
        /\ answer' = IF alone[a] THEN [answer EXCEPT ![s][Part(op)] = now] ELSE answer

-----------------------------------------------------------------------------
(***************************************************************************)
(* DNS.                                                                    *)
(***************************************************************************)

\* Proxy.PublicDNS: the proxy's own record has the IP the Proxy knows.
PublicDNS(a) == proxyDns = PublicProxyIp(a)

\* Variant: the dot that ends a record's name is left on.
ProxiedServerFQDNDot(s) == <<LabelOf[s], TRUE>>

\* The name is that of the record found, its dot trimmed.
ProxiedServerFQDN(s) == <<LabelOf[s], FALSE>>

attachedServerFQDN(s) == <<LabelOf[s], FALSE>>

LookUp(a) ==
    LET s == call[a].server  op == call[a].op
        next == CASE op = "StartProxyForServer" -> "rcon"
                  [] op = "StopProxyForServer" -> "send"
                  [] op = "DetachFromProxyNetwork" -> "change"
        proceed(f) == /\ call' = [call EXCEPT ![a].at = next, ![a].fqdn = f]
                      /\ UNCHANGED <<alone, answer>>
    IN  /\ call[a].at = "dns"
        /\ \/ PublicDNS(a) /\ proceed(ProxiedServerFQDN(s))
           \/ /\ "aws" \in Faults \/ ~PublicDNS(a)
              /\ IF op = "StopProxyForServer" THEN proceed(attachedServerFQDN(s)) ELSE Fail(a)
        /\ UNCHANGED <<network, task, rcon, known>>

\* The proxy's own record; the call is a single change, so one step.
AttachToNetwork(a) ==
    /\ call[a] = NoCall
    /\ proxyDns' = PublicProxyIp(a)
    /\ UNCHANGED <<proxy, access, forced, addr, serverDns, task, rcon, known, call, alone, answer>>

\* Route 53 deletes a record only if its value is the one given.
Deletable(a, l) == serverDns[l] = PublicProxyIp(a)

\* The upsert of AttachToProxyNetwork, the delete of DetachFromProxyNetwork.
Change(a) ==
    LET l == LabelOf[call[a].server]
        record == IF call[a].op = "AttachToProxyNetwork" THEN PublicProxyIp(a) ELSE 0
        possible == call[a].op = "AttachToProxyNetwork" \/ Deletable(a, l)
    IN  /\ call[a].at = "change"
        /\ \/ /\ possible
              /\ serverDns' = [serverDns EXCEPT ![l] = record]
              /\ Settle(a) \/ ("aws" \in Faults /\ Fail(a))
           \/ ("aws" \in Faults \/ ~possible) /\ Fail(a) /\ UNCHANGED serverDns
        /\ UNCHANGED <<proxy, access, forced, addr, proxyDns, task, rcon, known>>

-----------------------------------------------------------------------------
(***************************************************************************)
(* Rcon.  A connection works while the proxy it was made to runs.  A Proxy *)
(* fetched before a relaunch reaches the new one if that has its host and  *)
(* its port.                                                               *)
(***************************************************************************)
Works(a) == rcon[a] = "open"

\* The Proxy's connection if it has one, a new one if not.
GetRcon(a) ==
    LET op == call[a].op
        next == CASE op = "RemoveServerAccess" -> "names"
                  [] op = "StopProxyForServer" -> "dns"
                  [] OTHER -> "send"
    IN  /\ call[a].at = "rcon"
        /\ \/ rcon[a] # "nil" /\ Goto(a, next) /\ UNCHANGED rcon
           \/ /\ rcon[a] = "nil" /\ PublicProxyIp(a) = IpOf[proxy]
              /\ rcon' = [rcon EXCEPT ![a] = "open"]
              /\ Goto(a, next)
           \/ /\ rcon[a] = "nil" /\ ("rcon" \in Faults \/ task[a] # proxy)
              /\ Fail(a) /\ UNCHANGED rcon
        /\ UNCHANGED <<network, task, known>>

\* IsServerProxied, from ServerNames.
ServerNames(a) ==
    /\ call[a].at = "names"
    /\ \/ /\ Works(a)
          /\ IF access[call[a].server] # None THEN Goto(a, "send") ELSE Fail(a)
          /\ UNCHANGED rcon
       \/ /\ "rcon" \in Faults \/ ~Works(a)
          /\ rcon' = [rcon EXCEPT ![a] = "broken"]
          /\ Fail(a)
    /\ UNCHANGED <<network, task, known>>

\* What each operation's command does to the proxy.
Command(a) ==
    LET op == call[a].op  s == call[a].server  f == call[a].fqdn
    IN  /\ access' = CASE op = "AddServerAccess" -> [access EXCEPT ![s] = known[a][s]]
                       [] op = "RemoveServerAccess" -> [access EXCEPT ![s] = None]
                       [] OTHER -> access
        /\ forced' = CASE op = "StartProxyForServer" -> [forced EXCEPT ![<<LabelOf[s], f[2]>>] = s]
                       [] op = "StopProxyForServer" -> [forced EXCEPT ![f] = None]
                       [] OTHER -> forced

Send(a) ==
    /\ call[a].at = "send"
    /\ \/ Works(a) /\ Command(a) /\ Settle(a) /\ UNCHANGED rcon
       \/ /\ "rcon" \in Faults \/ ~Works(a)
          /\ (Works(a) /\ Command(a)) \/ UNCHANGED <<access, forced>>
          /\ rcon' = [rcon EXCEPT ![a] = "broken"]
          /\ Fail(a)
    /\ UNCHANGED <<proxy, addr, proxyDns, serverDns, task, known>>

-----------------------------------------------------------------------------
Next ==
    \/ ProxyRelaunched
    \/ \E s \in Servers : ServerListens(s)
    \/ \E a \in Admins :
         \/ \E s \in Servers : GetServerFromName(a, s) \/ \E op \in Ops : Call(a, op, s)
         \/ GetProxyFromName(a) \/ AttachToNetwork(a)
         \/ LookUp(a) \/ Change(a) \/ GetRcon(a) \/ ServerNames(a) \/ Send(a)

Spec == Init /\ [][Next]_vars

-----------------------------------------------------------------------------
(***************************************************************************)
(* Properties.                                                             *)
(***************************************************************************)

\* What a call without an error says of the network stays true until the
\* next call about the same thing: a server added with a current Server is
\* reached at the port it listens on, one removed not at all; a started one
\* is what its name is forced to, a stopped one is under neither form of its
\* name; an attached name leads to the running proxy, a detached one nowhere.
\* Relaunches, stale Proxies, broken connections and other calls may intervene.
AnswersHold ==
    \A s \in Servers :
        LET l == LabelOf[s]
        IN  /\ answer[s]["access"] = "in" => access[s] = addr[s]
            /\ answer[s]["access"] = "out" => access[s] = None
            /\ answer[s]["host"] = "in" => forced[<<l, FALSE>>] = s
            /\ answer[s]["host"] = "out" => \A dot \in BOOLEAN : forced[<<l, dot>>] # s
            /\ answer[s]["record"] = "in" => serverDns[l] = IpOf[proxy]
            /\ answer[s]["record"] = "out" => serverDns[l] = 0

\* "This looks for a DNS record as created by AttachToProxyNetwork and removes
\* it. Fails if it can't find the DNS record": it does not fail where there is
\* one.
DetachFindsRecord ==
    [][\A a \in Admins :
         /\ call[a].op = "DetachFromProxyNetwork" /\ call[a].at = "dns"
         /\ call'[a] = NoCall
         => serverDns[LabelOf[call[a].server]] # PublicProxyIp(a)]_vars

\* "Get Rcon returns a working rcon connection and will reuse an existing one
\* if possible."
GetRconWorks ==
    [][\A a \in Admins :
         call[a].at = "rcon" /\ call'[a].at \notin {"rcon", "idle"} => Works(a)']_vars
=============================================================================

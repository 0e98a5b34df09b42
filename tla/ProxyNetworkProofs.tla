------------------------- MODULE ProxyNetworkProofs -------------------------
(***************************************************************************)
(* Theorems about ProxyNetwork, for any number of administrators, servers  *)
(* and launches, on any hosts: what a call without an error says stays     *)
(* true, and a Proxy fetched since the last relaunch, where no connection  *)
(* breaks by itself, is handed one that works.                             *)
(***************************************************************************)
EXTENDS ProxyNetwork, TLAPS

(***************************************************************************)
(* What a call has in hand at each of its steps.                           *)
(***************************************************************************)
RconOps == {"AddServerAccess", "RemoveServerAccess", "StartProxyForServer", "StopProxyForServer"}
LookUpOps == {"StartProxyForServer", "StopProxyForServer", "DetachFromProxyNetwork"}

CallOK(a) ==
    /\ call[a].at = "dns" => call[a].op \in LookUpOps
    /\ call[a].at \in {"rcon", "send"} => call[a].op \in RconOps
    /\ call[a].at = "names" => call[a].op = "RemoveServerAccess"
    /\ call[a].at = "change" =>
         call[a].op \in {"AttachToProxyNetwork", "DetachFromProxyNetwork"}
    /\ call[a].op = "AddServerAccess" => known[a][call[a].server] # 0
    /\ \/ call[a].op = "StartProxyForServer" /\ call[a].at \in {"rcon", "send"}
       \/ call[a].op = "StopProxyForServer" /\ call[a].at = "send"
       => call[a].fqdn = <<LabelOf[call[a].server], FALSE>>

(***************************************************************************)
(* While a call runs nothing is settled about its label in its part; and a *)
(* call that is alone is the only one about the same thing.                *)
(***************************************************************************)
InDoubt(a) ==
    call[a] # NoCall =>
        \A t \in Servers :
            LabelOf[t] = LabelOf[call[a].server] => answer[t][Part(call[a].op)] = "unknown"

AloneOK(a) ==
    call[a] # NoCall /\ alone[a] =>
        \A b \in Admins \ {a} : b \notin SameThing(call[a].op, call[a].server)

\* No name is ever forced with its dot.
NoDots == \A l \in Labels : forced[<<l, TRUE>>] = None

NetworkInv ==
    /\ TypeOK
    /\ \A a \in Admins : CallOK(a) /\ InDoubt(a) /\ AloneOK(a)
    /\ NoDots
    /\ AnswersHold

(***************************************************************************)
(* The records a call is kept in.                                          *)
(***************************************************************************)
Calls == [op : Ops, server : Servers, at : Steps, fqdn : FQDNs \cup {None}]
Said == {"in", "out", "unknown"}

LEMMA CallRecords ==
  ASSUME TypeOK, NEW a \in Admins
  PROVE  /\ call[a] # NoCall <=> call[a] \in Calls
         /\ call[a].at # "idle" => call[a] \in Calls
         /\ call[a] \in Calls \cup {NoCall}
BY DEF TypeOK, Calls, NoCall, Steps

\* What a Proxy has for an IP is one of a host.
LEMMA PublicIps ==
  ASSUME TypeOK, NEW a \in Admins
  PROVE  PublicProxyIp(a) \in Ips
BY DEF TypeOK, PublicProxyIp, Ips

LEMMA CallFields ==
  ASSUME NEW c \in Calls
  PROVE  /\ c.op \in Ops /\ c.server \in Servers /\ c.at \in Steps
         /\ c.fqdn \in FQDNs \cup {None}
         /\ Part(c.op) \in Parts /\ LabelOf[c.server] \in Labels
         /\ c # NoCall
BY DEF Calls, Ops, Part, Parts, Labels, NoCall, Steps

LEMMA FQDNFacts ==
  ASSUME NEW s \in Servers
  PROVE  /\ <<LabelOf[s], FALSE>> \in FQDNs /\ <<LabelOf[s], TRUE>> \in FQDNs
         /\ LabelOf[s] \in Labels
BY DEF FQDNs, Labels

(***************************************************************************)
(* A call that goes on: the record of one administrator changes, about the *)
(* same thing.                                                             *)
(***************************************************************************)
GoesOn(a, c) ==
    /\ call[a] \in Calls /\ c \in Calls
    /\ c.op = call[a].op /\ c.server = call[a].server
    /\ call' = [call EXCEPT ![a] = c]
    /\ UNCHANGED <<known, alone, answer>>

LEMMA GoingOn ==
  ASSUME NetworkInv, NEW a \in Admins, NEW c, GoesOn(a, c)
  PROVE  /\ \A b \in Admins : call'[b] = IF b = a THEN c ELSE call[b]
         /\ \A b \in Admins : InDoubt(b)' /\ AloneOK(b)'
         /\ \A b \in Admins \ {a} : CallOK(b)'
         /\ call' \in [Admins -> {NoCall} \cup Calls]
<1>1. /\ \A b \in Admins : call'[b] = IF b = a THEN c ELSE call[b]
      /\ call' \in [Admins -> {NoCall} \cup Calls]
  BY DEF GoesOn, NetworkInv, TypeOK, Calls
<1>2. call[a] # NoCall /\ c # NoCall
  BY CallFields DEF GoesOn
<1>3. ASSUME NEW b \in Admins
      PROVE  /\ call'[b] # NoCall <=> call[b] # NoCall
             /\ call'[b].op = call[b].op /\ call'[b].server = call[b].server
  BY <1>1, <1>2 DEF GoesOn
<1>4. ASSUME NEW b \in Admins
      PROVE  InDoubt(b)' /\ AloneOK(b)'
  BY <1>3 DEF NetworkInv, GoesOn, InDoubt, AloneOK, SameThing
<1>5. ASSUME NEW b \in Admins \ {a}
      PROVE  CallOK(b)'
  BY <1>1 DEF NetworkInv, GoesOn, CallOK
<1> QED
  BY <1>1, <1>4, <1>5

\* The two forms of a step to another label.
LEMMA StepRecord ==
  ASSUME NetworkInv, NEW a \in Admins, call[a] \in Calls, NEW l \in Steps,
         call' = [call EXCEPT ![a].at = l], UNCHANGED <<known, alone, answer>>
  PROVE  \E c : GoesOn(a, c) /\ c.at = l /\ c.fqdn = call[a].fqdn
<1> DEFINE c == [call[a] EXCEPT !.at = l]
<1>1. call' = [call EXCEPT ![a] = c]
  BY DEF NetworkInv, TypeOK
<1>2. /\ c \in Calls /\ c.op = call[a].op /\ c.server = call[a].server
      /\ c.at = l /\ c.fqdn = call[a].fqdn
  BY DEF Calls
<1> HIDE DEF c
<1> QED
  BY <1>1, <1>2 DEF GoesOn

LookedUp(a, l, f) == [call EXCEPT ![a].at = l, ![a].fqdn = f]

LEMMA LookUpRecord ==
  ASSUME NetworkInv, NEW a \in Admins, call[a] \in Calls, NEW l \in Steps, NEW f \in FQDNs,
         call' = LookedUp(a, l, f), UNCHANGED <<known, alone, answer>>
  PROVE  \E c : GoesOn(a, c) /\ c.at = l /\ c.fqdn = f
<1> DEFINE c == [call[a] EXCEPT !.at = l, !.fqdn = f]
<1>1. call' = [call EXCEPT ![a] = c]
  BY DEF NetworkInv, TypeOK, LookedUp
<1>2. /\ c \in Calls /\ c.op = call[a].op /\ c.server = call[a].server
      /\ c.at = l /\ c.fqdn = f
  BY DEF Calls
<1> HIDE DEF c
<1> QED
  BY <1>1, <1>2 DEF GoesOn

(***************************************************************************)
(* A call that ends, with or without its part settled.                     *)
(***************************************************************************)
LEMMA Ending ==
  ASSUME NetworkInv, NEW a \in Admins, call[a] \in Calls, Over(a), UNCHANGED known,
         \/ UNCHANGED answer
         \/ alone[a] /\ \E x : answer' = [answer EXCEPT ![call[a].server][Part(call[a].op)] = x]
  PROVE  /\ \A b \in Admins : CallOK(b)' /\ InDoubt(b)' /\ AloneOK(b)'
         /\ call' \in [Admins -> {NoCall} \cup Calls] /\ alone' \in [Admins -> BOOLEAN]
<1>1. /\ \A b \in Admins : call'[b] = IF b = a THEN NoCall ELSE call[b]
      /\ \A b \in Admins : alone'[b] = IF b = a THEN FALSE ELSE alone[b]
      /\ call' \in [Admins -> {NoCall} \cup Calls] /\ alone' \in [Admins -> BOOLEAN]
  BY DEF Over, NetworkInv, TypeOK, Calls
<1>2. ASSUME NEW b \in Admins
      PROVE  CallOK(b)'
  <2>1. CASE b = a
    <3>1. call'[b].at = "idle" /\ call'[b].op = "none"
      BY <1>1, <2>1 DEF NoCall
    <3> QED
      BY <3>1 DEF CallOK
  <2>2. CASE b # a
    BY <1>1, <2>2 DEF CallOK, NetworkInv
  <2> QED
    BY <2>1, <2>2
<1>3. ASSUME NEW b \in Admins
      PROVE  AloneOK(b)'
  <2>1. CASE b = a
    BY <1>1, <2>1 DEF AloneOK
  <2>2. CASE b # a
    <3> SUFFICES ASSUME call[b] # NoCall, alone[b], NEW d \in Admins \ {b}
                 PROVE  (d \notin SameThing(call[b].op, call[b].server))'
      BY <1>1, <2>2 DEF AloneOK
    <3>1. d \notin SameThing(call[b].op, call[b].server)
      BY DEF NetworkInv, AloneOK
    <3> QED
      BY <1>1, <2>2, <3>1 DEF SameThing
  <2> QED
    BY <2>1, <2>2
<1>4. ASSUME NEW b \in Admins
      PROVE  InDoubt(b)'
  <2>1. CASE b = a
    BY <1>1, <2>1 DEF InDoubt
  <2>2. CASE b # a
    <3> SUFFICES ASSUME call[b] # NoCall, NEW t \in Servers,
                        LabelOf[t] = LabelOf[call[b].server]
                 PROVE  answer'[t][Part(call[b].op)] = "unknown"
      BY <1>1, <2>2 DEF InDoubt
    <3>1. answer[t][Part(call[b].op)] = "unknown"
      BY DEF NetworkInv, InDoubt
    <3>2. CASE UNCHANGED answer
      BY <3>1, <3>2
    <3>3. CASE alone[a] /\ \E x : answer' = [answer EXCEPT ![call[a].server][Part(call[a].op)] = x]
      <4>1. b \notin SameThing(call[a].op, call[a].server)
        BY <2>2, <3>3, CallRecords DEF NetworkInv, AloneOK
      <4>2. t # call[a].server \/ Part(call[b].op) # Part(call[a].op)
        BY <4>1 DEF SameThing
      <4> QED
        BY <3>1, <3>3, <4>2 DEF NetworkInv, TypeOK
    <3> QED
      BY <3>2, <3>3
  <2> QED
    BY <2>1, <2>2
<1> QED
  BY <1>1, <1>2, <1>3, <1>4

(***************************************************************************)
(* Steps of no call, and the beginning of one.                             *)
(***************************************************************************)
LEMMA CallsUntouched ==
  ASSUME NetworkInv, UNCHANGED <<call, alone>>,
         \A a \in Admins : call[a] # NoCall => known'[a] = known[a],
         \A s \in Servers, x \in Parts : answer[s][x] = "unknown" => answer'[s][x] = "unknown"
  PROVE  \A a \in Admins : CallOK(a)' /\ InDoubt(a)' /\ AloneOK(a)'
<1> SUFFICES ASSUME NEW a \in Admins
             PROVE  CallOK(a)' /\ InDoubt(a)' /\ AloneOK(a)'
  OBVIOUS
<1>1. AloneOK(a)'
  BY DEF NetworkInv, AloneOK, SameThing
<1>2. CASE call[a] = NoCall
  <2>1. call'[a].at = "idle" /\ call'[a].op = "none"
    BY <1>2 DEF NoCall
  <2>2. CallOK(a)'
    BY <2>1 DEF CallOK
  <2> QED
    BY <1>1, <1>2, <2>2 DEF InDoubt
<1>3. CASE call[a] # NoCall
  <2>1. Part(call[a].op) \in Parts
    BY <1>3, CallRecords, CallFields DEF NetworkInv
  <2>2. CallOK(a)'
    BY <1>3 DEF NetworkInv, CallOK
  <2>3. InDoubt(a)'
    BY <1>3, <2>1 DEF NetworkInv, InDoubt
  <2> QED
    BY <1>1, <2>2, <2>3
<1> QED
  BY <1>2, <1>3

LEMMA Beginning ==
  ASSUME NetworkInv, NEW a \in Admins, NEW op \in Ops, NEW s \in Servers, Call(a, op, s)
  PROVE  /\ \A b \in Admins : CallOK(b)' /\ InDoubt(b)' /\ AloneOK(b)'
         /\ call' \in [Admins -> {NoCall} \cup Calls] /\ alone' \in [Admins -> BOOLEAN]
         /\ \A t \in Servers, x \in Parts : answer'[t][x] \in {answer[t][x], "unknown"}
         /\ answer' \in [Servers -> [Parts -> Said]]
<1> DEFINE c == [op |-> op, server |-> s, at |-> First(op), fqdn |-> None]
<1>1. c \in Calls /\ c # NoCall /\ c.op = op /\ c.server = s /\ c.at = First(op)
  BY DEF Calls, Ops, First, Steps, NoCall
<1> HIDE DEF c
<1>2. /\ \A b \in Admins : call'[b] = IF b = a THEN c ELSE call[b]
      /\ call' \in [Admins -> {NoCall} \cup Calls]
  BY <1>1 DEF Call, NetworkInv, TypeOK, Calls, c
<1>3. Part(op) \in Parts
  BY DEF Part, Parts, Ops
<1>4. /\ answer' \in [Servers -> [Parts -> Said]]
      /\ \A t \in Servers, x \in Parts :
           answer'[t][x] = IF LabelOf[t] = LabelOf[s] /\ x = Part(op) THEN "unknown"
                           ELSE answer[t][x]
  BY <1>3 DEF Call, NetworkInv, TypeOK, Said
<1>5. /\ alone' \in [Admins -> BOOLEAN]
      /\ \A b \in Admins : alone'[b] => IF b = a THEN SameThing(op, s) = {}
                                      ELSE alone[b] /\ b \notin SameThing(op, s)
  BY DEF Call, NetworkInv, TypeOK
<1>6. ASSUME NEW b \in Admins
      PROVE  CallOK(b)'
  <2>1. CASE b = a
    <3>1. op = "AddServerAccess" => known[a][s] # 0
      BY DEF Call, InvalidPort
    <3>2. call'[b].op = op /\ call'[b].server = s /\ call'[b].at = First(op)
      BY <1>1, <1>2, <2>1
    <3>3. /\ First(op) = "dns" => op \in LookUpOps
          /\ First(op) = "rcon" => op \in RconOps /\ op # "StartProxyForServer"
          /\ First(op) = "change" => op \in {"AttachToProxyNetwork", "DetachFromProxyNetwork"}
          /\ First(op) \notin {"names", "send"}
      BY DEF First, Ops, RconOps, LookUpOps
    <3>4. known'[b][s] = known[a][s]
      BY <2>1 DEF Call
    <3> QED
      BY <3>1, <3>2, <3>3, <3>4 DEF CallOK
  <2>2. CASE b # a
    BY <1>2, <2>2 DEF NetworkInv, CallOK, Call
  <2> QED
    BY <2>1, <2>2
<1>7. ASSUME NEW b \in Admins
      PROVE  InDoubt(b)'
  <2>1. CASE b = a
    BY <1>1, <1>2, <1>3, <1>4, <2>1 DEF InDoubt
  <2>2. CASE b # a
    <3> SUFFICES ASSUME call[b] # NoCall, NEW t \in Servers,
                        LabelOf[t] = LabelOf[call[b].server]
                 PROVE  answer'[t][Part(call[b].op)] = "unknown"
      BY <1>2, <2>2 DEF InDoubt
    <3>1. answer[t][Part(call[b].op)] = "unknown"
      BY DEF NetworkInv, InDoubt
    <3>2. Part(call[b].op) \in Parts
      BY CallRecords, CallFields DEF NetworkInv
    <3> QED
      BY <1>4, <3>1, <3>2
  <2> QED
    BY <2>1, <2>2
<1>8. ASSUME NEW b \in Admins
      PROVE  AloneOK(b)'
  <2> SUFFICES ASSUME call'[b] # NoCall, alone'[b], NEW d \in Admins \ {b}
               PROVE  (d \notin SameThing(call[b].op, call[b].server))'
    BY DEF AloneOK
  <2>1. CASE b = a
    <3>1. d \notin SameThing(op, s)
      BY <1>5, <2>1
    <3> QED
      BY <1>1, <1>2, <2>1, <3>1 DEF SameThing
  <2>2. CASE b # a /\ d = a
    <3>1. b \notin SameThing(op, s) /\ call[b] # NoCall
      BY <1>2, <1>5, <2>2
    <3> QED
      BY <1>1, <1>2, <2>2, <3>1 DEF SameThing
  <2>3. CASE b # a /\ d # a
    <3>1. d \notin SameThing(call[b].op, call[b].server)
      BY <1>2, <1>5, <2>3 DEF NetworkInv, AloneOK
    <3> QED
      BY <1>2, <2>3, <3>1 DEF SameThing
  <2> QED
    BY <2>1, <2>2, <2>3
<1> QED
  BY <1>2, <1>4, <1>5, <1>6, <1>7, <1>8

(***************************************************************************)
(* What an answer about a part of what leads to a server holds to.         *)
(***************************************************************************)
PartHolds(s, x) ==
    /\ x = "access" => /\ answer[s][x] = "in" => access[s] = addr[s]
                       /\ answer[s][x] = "out" => access[s] = None
    /\ x = "host" => /\ answer[s][x] = "in" => forced[<<LabelOf[s], FALSE>>] = s
                     /\ answer[s][x] = "out" =>
                          \A dot \in BOOLEAN : forced[<<LabelOf[s], dot>>] # s
    /\ x = "record" => /\ answer[s][x] = "in" => serverDns[LabelOf[s]] = IpOf[proxy]
                       /\ answer[s][x] = "out" => serverDns[LabelOf[s]] = 0

LEMMA ByParts == AnswersHold <=> \A s \in Servers, x \in Parts : PartHolds(s, x)
BY DEF AnswersHold, PartHolds, Parts

LEMMA ByPartsNext == AnswersHold' <=> \A s \in Servers, x \in Parts : PartHolds(s, x)'
BY DEF AnswersHold, PartHolds, Parts

\* What a call's step may change: its own part of what leads to its label.
Touches(a) ==
    LET s == call[a].server  x == Part(call[a].op)
    IN  /\ UNCHANGED <<proxy, addr>>
        /\ \A t \in Servers : access'[t] # access[t] => t = s /\ x = "access"
        /\ \A f \in FQDNs : forced'[f] # forced[f] => f[1] = LabelOf[s] /\ x = "host"
        /\ \A l \in Labels : serverDns'[l] # serverDns[l] => l = LabelOf[s] /\ x = "record"

LEMMA OthersHold ==
  ASSUME NetworkInv, NEW a \in Admins, call[a] \in Calls, Touches(a),
         NEW s \in Servers, NEW x \in Parts, answer'[s][x] \in {answer[s][x], "unknown"}
  PROVE  PartHolds(s, x)'
<1>1. CASE answer'[s][x] = "unknown"
  BY <1>1 DEF PartHolds
<1>2. CASE answer'[s][x] = answer[s][x] /\ answer[s][x] # "unknown"
  <2>1. x # Part(call[a].op) \/ LabelOf[s] # LabelOf[call[a].server]
    BY <1>2, CallFields DEF NetworkInv, InDoubt
  <2>2. PartHolds(s, x)
    BY ByParts DEF NetworkInv
  <2>3. CASE x = "access"
    BY <1>2, <2>1, <2>2, <2>3 DEF Touches, PartHolds
  <2>4. CASE x = "host"
    <3>1. \A dot \in BOOLEAN : forced'[<<LabelOf[s], dot>>] = forced[<<LabelOf[s], dot>>]
      <4>1. \A dot \in BOOLEAN : <<LabelOf[s], dot>> \in FQDNs /\ <<LabelOf[s], dot>>[1] = LabelOf[s]
        BY DEF FQDNs, Labels
      <4> QED
        BY <2>1, <2>4, <4>1 DEF Touches
    <3> QED
      BY <1>2, <2>2, <2>4, <3>1 DEF PartHolds
  <2>5. CASE x = "record"
    <3>1. serverDns'[LabelOf[s]] = serverDns[LabelOf[s]] /\ proxy' = proxy
      BY <2>1, <2>5, FQDNFacts DEF Touches
    <3> QED
      BY <1>2, <2>2, <2>5, <3>1 DEF PartHolds
  <2> QED
    BY <2>3, <2>4, <2>5 DEF Parts
<1> QED
  BY <1>1, <1>2

(***************************************************************************)
(* A step of a call that settles nothing, and one that does.               *)
(***************************************************************************)
NetworkTypeOK ==
    /\ proxy \in 1..MaxProxies
    /\ access \in [Servers -> 1..MaxRuns \cup {None}]
    /\ forced \in [FQDNs -> Servers \cup {None}]
    /\ addr \in [Servers -> 0..MaxRuns]
    /\ proxyDns \in Ips \cup {0}
    /\ serverDns \in [Labels -> Ips \cup {0}]
    /\ task \in [Admins -> 1..MaxProxies]
    /\ rcon \in [Admins -> {"nil", "open", "broken"}]
    /\ known \in [Admins -> [Servers -> 0..MaxRuns]]

LEMMA TypeParts ==
  TypeOK <=> /\ NetworkTypeOK
             /\ call \in [Admins -> {NoCall} \cup Calls]
             /\ alone \in [Admins -> BOOLEAN]
             /\ answer \in [Servers -> [Parts -> Said]]
BY DEF TypeOK, NetworkTypeOK, Calls, Said

LEMMA TypePartsNext ==
  TypeOK' <=> /\ NetworkTypeOK'
              /\ call' \in [Admins -> {NoCall} \cup Calls]
              /\ alone' \in [Admins -> BOOLEAN]
              /\ answer' \in [Servers -> [Parts -> Said]]
BY DEF TypeOK, NetworkTypeOK, Calls, Said

LEMMA Unsettled ==
  ASSUME NetworkInv, NEW a \in Admins, call[a] \in Calls, Touches(a),
         NetworkTypeOK', NoDots', UNCHANGED <<known, answer>>,
         Over(a) \/ \E c : GoesOn(a, c) /\ CallOK(a)'
  PROVE  NetworkInv'
<1>1. \A s \in Servers, x \in Parts : PartHolds(s, x)'
  BY OthersHold
<1>2. AnswersHold'
  BY <1>1, ByPartsNext
<1>3. answer' \in [Servers -> [Parts -> Said]]
  BY TypeParts DEF NetworkInv
<1>4. CASE Over(a)
  <2>1. /\ \A b \in Admins : CallOK(b)' /\ InDoubt(b)' /\ AloneOK(b)'
        /\ call' \in [Admins -> {NoCall} \cup Calls] /\ alone' \in [Admins -> BOOLEAN]
    BY <1>4, Ending
  <2> QED
    BY <1>2, <1>3, <2>1, TypePartsNext DEF NetworkInv
<1>5. CASE \E c : GoesOn(a, c) /\ CallOK(a)'
  <2>1. PICK c : GoesOn(a, c) /\ CallOK(a)'
    BY <1>5
  <2>2. /\ \A b \in Admins : InDoubt(b)' /\ AloneOK(b)'
        /\ \A b \in Admins \ {a} : CallOK(b)'
        /\ call' \in [Admins -> {NoCall} \cup Calls]
    BY <2>1, GoingOn
  <2>3. alone' \in [Admins -> BOOLEAN]
    BY <2>1, TypeParts DEF NetworkInv, GoesOn
  <2> QED
    BY <1>2, <1>3, <2>1, <2>2, <2>3, TypePartsNext DEF NetworkInv
<1> QED
  BY <1>4, <1>5

\* What a call that went well says of its part.
Settlement(a) ==
    CASE call[a].op \in {"RemoveServerAccess", "StopProxyForServer",
                         "DetachFromProxyNetwork"} -> "out"
      [] call[a].op = "AddServerAccess"
         /\ known[a][call[a].server] # addr[call[a].server] -> "unknown"
      [] OTHER -> IF PublicProxyIp(a) = IpOf[proxy] THEN "in" ELSE "unknown"

LEMMA SettlementSays == \A a \in Admins : Settlement(a) \in Said
BY DEF Settlement, Said

LEMMA Settled ==
  ASSUME NetworkInv, NEW a \in Admins, call[a] \in Calls, Touches(a),
         NetworkTypeOK', NoDots', UNCHANGED known, Settle(a),
         NEW s, NEW x, s = call[a].server, x = Part(call[a].op),
         answer'[s][x] = Settlement(a) => PartHolds(s, x)'
  PROVE  NetworkInv'
<1>1. s \in Servers /\ x \in Parts
  BY CallFields
<1>2. Over(a) /\ answer' = IF alone[a] THEN [answer EXCEPT ![s][x] = Settlement(a)] ELSE answer
  BY DEF Settle, Settlement
<1>3. answer \in [Servers -> [Parts -> Said]]
  BY TypeParts DEF NetworkInv
<1>4. answer' \in [Servers -> [Parts -> Said]]
  BY <1>1, <1>2, <1>3, SettlementSays
<1>5. \A t \in Servers, y \in Parts : t # s \/ y # x => answer'[t][y] = answer[t][y]
  BY <1>1, <1>2, <1>3
<1>6. answer'[s][x] \in {Settlement(a), answer[s][x]}
  BY <1>1, <1>2, <1>3
<1>7. ASSUME NEW t \in Servers, NEW y \in Parts
      PROVE  PartHolds(t, y)'
  <2>1. CASE t = s /\ y = x /\ answer'[s][x] = Settlement(a)
    BY <2>1
  <2>2. CASE answer'[t][y] = answer[t][y]
    BY <2>2, OthersHold
  <2> QED
    BY <1>5, <1>6, <2>1, <2>2
<1>8. AnswersHold'
  BY <1>7, ByPartsNext
<1>9. \/ UNCHANGED answer
      \/ alone[a] /\ \E z : answer' = [answer EXCEPT ![call[a].server][Part(call[a].op)] = z]
  <2>1. CASE alone[a]
    BY <1>2, <2>1
  <2>2. CASE ~alone[a]
    BY <1>2, <2>2
  <2> QED
    BY <2>1, <2>2
<1>10. /\ \A b \in Admins : CallOK(b)' /\ InDoubt(b)' /\ AloneOK(b)'
       /\ call' \in [Admins -> {NoCall} \cup Calls] /\ alone' \in [Admins -> BOOLEAN]
  BY <1>2, <1>9, Ending
<1> QED
  BY <1>4, <1>8, <1>10, TypePartsNext DEF NetworkInv

(***************************************************************************)
(* The steps of a call.                                                    *)
(***************************************************************************)
LEMMA NetworkKept ==
  ASSUME NetworkInv, NEW a \in Admins, UNCHANGED <<network, task, known>>,
         rcon' \in [Admins -> {"nil", "open", "broken"}]
  PROVE  Touches(a) /\ NetworkTypeOK' /\ NoDots'
BY DEF NetworkInv, TypeOK, NetworkTypeOK, NoDots, Touches, network

LEMMA RconTypes ==
  ASSUME NetworkInv, NEW a \in Admins, NEW r \in {"nil", "open", "broken"},
         UNCHANGED rcon \/ rcon' = [rcon EXCEPT ![a] = r]
  PROVE  rcon' \in [Admins -> {"nil", "open", "broken"}]
BY DEF NetworkInv, TypeOK

LEMMA LookUpOK ==
  ASSUME NetworkInv, NEW a \in Admins, LookUp(a)
  PROVE  NetworkInv'
<1> DEFINE s == call[a].server
           op == call[a].op
           next == CASE op = "StartProxyForServer" -> "rcon"
                     [] op = "StopProxyForServer" -> "send"
                     [] op = "DetachFromProxyNetwork" -> "change"
           f == <<LabelOf[s], FALSE>>
<1>1. call[a] \in Calls /\ op \in LookUpOps /\ call[a].at = "dns"
  BY CallRecords DEF LookUp, NetworkInv, CallOK
<1>2. Touches(a) /\ NetworkTypeOK' /\ NoDots' /\ UNCHANGED known
  <2>1. UNCHANGED <<network, task, rcon, known>>
    BY DEF LookUp
  <2> QED
    BY <2>1, NetworkKept DEF NetworkInv, TypeOK
<1>3. \/ Fail(a)
      \/ /\ call' = LookedUp(a, next, f)
         /\ UNCHANGED <<alone, answer>>
  BY DEF LookUp, ProxiedServerFQDN, attachedServerFQDN, LookedUp
<1>4. CASE Fail(a)
  BY <1>1, <1>2, <1>4, Unsettled DEF Fail
<1>5. CASE /\ call' = LookedUp(a, next, f)
           /\ UNCHANGED <<alone, answer>>
  <2>1. next \in Steps /\ f \in FQDNs
    BY <1>1, CallFields, FQDNFacts DEF LookUpOps, Steps
  <2>2. /\ op = "StartProxyForServer" => next = "rcon"
        /\ op = "StopProxyForServer" => next = "send"
        /\ op = "DetachFromProxyNetwork" => next = "change"
    OBVIOUS
  <2>3. /\ next = "rcon" => op = "StartProxyForServer"
        /\ next = "send" => op = "StopProxyForServer"
        /\ next = "change" => op = "DetachFromProxyNetwork"
        /\ next \in {"rcon", "send", "change"}
    BY <1>1 DEF LookUpOps
  <2> HIDE DEF next, f
  <2>4. PICK c : GoesOn(a, c) /\ c.at = next /\ c.fqdn = f
    BY <1>1, <1>2, <1>5, <2>1, LookUpRecord
  <2>5. call'[a] = c /\ c.op = op /\ c.server = s
    BY <2>4, GoingOn DEF GoesOn
  <2>6. CallOK(a)'
    BY <1>1, <2>3, <2>4, <2>5 DEF CallOK, RconOps, LookUpOps, f
  <2>7. UNCHANGED answer
    BY <1>5
  <2> QED
    BY <1>1, <1>2, <2>4, <2>6, <2>7, Unsettled
<1> QED
  BY <1>3, <1>4, <1>5

\* A step to another label, whatever it does to the connection.
LEMMA GotoOK ==
  ASSUME NetworkInv, NEW a \in Admins, call[a] \in Calls, NEW l \in Steps, Goto(a, l),
         UNCHANGED <<network, task, known>>, rcon' \in [Admins -> {"nil", "open", "broken"}],
         /\ l = "dns" => call[a].op \in LookUpOps
         /\ l = "send" => call[a].op \in RconOps
         /\ l = "names" => call[a].op = "RemoveServerAccess"
         /\ l \notin {"rcon", "change"},
         l = "send" => call[a].op # "StopProxyForServer",
         l = "send" /\ call[a].op = "StartProxyForServer" => call[a].at = "rcon"
  PROVE  NetworkInv'
<1>1. PICK c : GoesOn(a, c) /\ c.at = l /\ c.fqdn = call[a].fqdn
  BY StepRecord DEF Goto
<1>2. call'[a] = c /\ c.op = call[a].op /\ c.server = call[a].server /\ UNCHANGED known
  BY <1>1, GoingOn DEF GoesOn
<1>3. CallOK(a)'
  BY <1>1, <1>2 DEF CallOK, NetworkInv
<1>4. UNCHANGED <<known, answer>>
  BY DEF Goto
<1> QED
  BY <1>1, <1>3, <1>4, NetworkKept, Unsettled

LEMMA GetRconOK ==
  ASSUME NetworkInv, NEW a \in Admins, GetRcon(a)
  PROVE  NetworkInv'
<1> DEFINE op == call[a].op
           next == CASE op = "RemoveServerAccess" -> "names"
                     [] op = "StopProxyForServer" -> "dns"
                     [] OTHER -> "send"
<1>1. call[a] \in Calls /\ op \in RconOps /\ call[a].at = "rcon"
  BY CallRecords DEF GetRcon, NetworkInv, CallOK
<1>2. UNCHANGED <<network, task, known>> /\ (UNCHANGED rcon \/ rcon' = [rcon EXCEPT ![a] = "open"])
  BY DEF GetRcon
<1>3. rcon' \in [Admins -> {"nil", "open", "broken"}]
  BY <1>2, RconTypes
<1>4. CASE Fail(a)
  BY <1>1, <1>2, <1>3, <1>4, NetworkKept, Unsettled DEF Fail
<1>5. CASE Goto(a, next)
  <2>1. /\ next \in {"names", "dns", "send"}
        /\ next = "names" => op = "RemoveServerAccess"
        /\ next = "dns" => op = "StopProxyForServer"
        /\ next = "send" => op # "StopProxyForServer"
    OBVIOUS
  <2>2. next \in Steps /\ (next = "dns" => op \in LookUpOps)
    BY <2>1 DEF Steps, LookUpOps
  <2> HIDE DEF next
  <2> QED
    BY <1>1, <1>2, <1>3, <1>5, <2>1, <2>2, GotoOK
<1> QED
  BY <1>4, <1>5 DEF GetRcon

LEMMA ServerNamesOK ==
  ASSUME NetworkInv, NEW a \in Admins, ServerNames(a)
  PROVE  NetworkInv'
<1>1. call[a] \in Calls /\ call[a].op = "RemoveServerAccess"
  BY CallRecords DEF ServerNames, NetworkInv, CallOK
<1>2. UNCHANGED <<network, task, known>> /\ (UNCHANGED rcon \/ rcon' = [rcon EXCEPT ![a] = "broken"])
  BY DEF ServerNames
<1>3. rcon' \in [Admins -> {"nil", "open", "broken"}]
  BY <1>2, RconTypes
<1>4. CASE Fail(a)
  BY <1>1, <1>2, <1>3, <1>4, NetworkKept, Unsettled DEF Fail
<1>5. CASE Goto(a, "send")
  BY <1>1, <1>2, <1>3, <1>5, GotoOK DEF Steps, RconOps
<1> QED
  BY <1>4, <1>5 DEF ServerNames

LEMMA ChangeOK ==
  ASSUME NetworkInv, NEW a \in Admins, Change(a)
  PROVE  NetworkInv'
<1>1. /\ call[a] \in Calls
      /\ call[a].op \in {"AttachToProxyNetwork", "DetachFromProxyNetwork"}
  BY CallRecords DEF Change, NetworkInv, CallOK
<1>2. PICK s \in Servers : s = call[a].server
  BY <1>1, CallFields
<1>3. Part(call[a].op) = "record" /\ LabelOf[s] \in Labels
  BY <1>1, FQDNFacts DEF Part
<1> DEFINE record == IF call[a].op = "AttachToProxyNetwork" THEN PublicProxyIp(a) ELSE 0
<1>4. record \in Ips \cup {0}
  BY PublicIps DEF NetworkInv
<1>5. /\ UNCHANGED <<proxy, access, forced, addr, proxyDns, task, rcon, known>>
      /\ \/ serverDns' = [serverDns EXCEPT ![LabelOf[s]] = record]
         \/ UNCHANGED serverDns /\ Fail(a)
      /\ Fail(a) \/ Settle(a)
  BY <1>2 DEF Change
<1>6. Touches(a)
  BY <1>2, <1>3, <1>5 DEF Touches, NetworkInv, TypeOK
<1>7. NetworkTypeOK' /\ NoDots'
  <2> HIDE DEF record
  <2>1. serverDns' \in [Labels -> Ips \cup {0}]
    BY <1>4, <1>5 DEF NetworkInv, TypeOK
  <2>2. NoDots'
    BY <1>5 DEF NetworkInv, NoDots
  <2> QED
    BY <1>5, <2>1, <2>2 DEF NetworkInv, TypeOK, NetworkTypeOK
<1>8. CASE Fail(a)
  BY <1>1, <1>5, <1>6, <1>7, <1>8, Unsettled DEF Fail
<1>9. CASE Settle(a) /\ serverDns' = [serverDns EXCEPT ![LabelOf[s]] = record]
  <2>1. serverDns'[LabelOf[s]] = record
    BY <1>3, <1>9 DEF NetworkInv, TypeOK
  <2>2. ASSUME answer'[s]["record"] = Settlement(a)
        PROVE  PartHolds(s, "record")'
    <3>1. CASE call[a].op = "AttachToProxyNetwork"
      <4>1. Settlement(a) = IF PublicProxyIp(a) = IpOf[proxy] THEN "in" ELSE "unknown"
        BY <3>1 DEF Settlement
      <4> QED
        BY <1>5, <2>1, <2>2, <3>1, <4>1 DEF PartHolds
    <3>2. CASE call[a].op = "DetachFromProxyNetwork"
      <4>1. Settlement(a) = "out"
        BY <3>2 DEF Settlement
      <4> QED
        BY <2>1, <2>2, <3>2, <4>1 DEF PartHolds
    <3> QED
      BY <1>1, <3>1, <3>2
  <2> QED
    BY <1>1, <1>2, <1>3, <1>5, <1>6, <1>7, <1>9, <2>2, Settled
<1> QED
  BY <1>5, <1>8, <1>9

\* What the command of each operation leaves in the proxy.
LEMMA CommandDoes ==
  ASSUME NetworkInv, NEW a \in Admins, call[a] \in Calls, call[a].op \in RconOps,
         call[a].at = "send", Command(a), NEW s \in Servers, s = call[a].server
  PROVE  /\ access' \in [Servers -> 1..MaxRuns \cup {None}]
         /\ forced' \in [FQDNs -> Servers \cup {None}]
         /\ \A t \in Servers : access'[t] # access[t] => t = s /\ Part(call[a].op) = "access"
         /\ \A f \in FQDNs : forced'[f] # forced[f] =>
              f = <<LabelOf[s], FALSE>> /\ Part(call[a].op) = "host"
         /\ call[a].op = "AddServerAccess" => access'[s] = known[a][s]
         /\ call[a].op = "RemoveServerAccess" => access'[s] = None
         /\ call[a].op = "StartProxyForServer" => forced'[<<LabelOf[s], FALSE>>] = s
         /\ call[a].op = "StopProxyForServer" => forced'[<<LabelOf[s], FALSE>>] = None
<1> DEFINE f == <<LabelOf[s], FALSE>>
<1>1. f \in FQDNs
  BY FQDNFacts
<1>2. /\ access \in [Servers -> 1..MaxRuns \cup {None}]
      /\ forced \in [FQDNs -> Servers \cup {None}]
      /\ known[a][s] \in 0..MaxRuns
  BY DEF NetworkInv, TypeOK
<1>3. CallOK(a)
  BY DEF NetworkInv
<1>4. CASE call[a].op = "AddServerAccess"
  <2>1. access' = [access EXCEPT ![s] = known[a][s]] /\ forced' = forced
    BY <1>4 DEF Command
  <2>2. known[a][s] \in 1..MaxRuns
    BY <1>2, <1>3, <1>4, LaunchesAssumption DEF CallOK
  <2>3. Part(call[a].op) = "access"
    BY <1>4 DEF Part
  <2> QED
    BY <1>2, <1>4, <2>1, <2>2, <2>3
<1>5. CASE call[a].op = "RemoveServerAccess"
  <2>1. access' = [access EXCEPT ![s] = None] /\ forced' = forced
    BY <1>5 DEF Command
  <2>2. Part(call[a].op) = "access"
    BY <1>5 DEF Part
  <2> QED
    BY <1>2, <1>5, <2>1, <2>2
<1>6. CASE call[a].op = "StartProxyForServer"
  <2>1. call[a].fqdn = f
    BY <1>3, <1>6 DEF CallOK
  <2>2. forced' = [forced EXCEPT ![f] = s] /\ access' = access
    BY <1>6, <2>1 DEF Command
  <2>3. Part(call[a].op) = "host"
    BY <1>6 DEF Part
  <2> HIDE DEF f
  <2>4. /\ forced' \in [FQDNs -> Servers \cup {None}] /\ forced'[f] = s
        /\ \A g \in FQDNs : forced'[g] # forced[g] => g = f
    BY <1>1, <1>2, <2>2
  <2> QED
    BY <1>2, <1>6, <2>2, <2>3, <2>4 DEF f
<1>7. CASE call[a].op = "StopProxyForServer"
  <2>1. call[a].fqdn = f
    BY <1>3, <1>7 DEF CallOK
  <2>2. forced' = [forced EXCEPT ![f] = None] /\ access' = access
    BY <1>7, <2>1 DEF Command
  <2>3. Part(call[a].op) = "host"
    BY <1>7 DEF Part
  <2> HIDE DEF f
  <2>4. /\ forced' \in [FQDNs -> Servers \cup {None}] /\ forced'[f] = None
        /\ \A g \in FQDNs : forced'[g] # forced[g] => g = f
    BY <1>1, <1>2, <2>2
  <2> QED
    BY <1>2, <1>7, <2>2, <2>3, <2>4 DEF f
<1> QED
  BY <1>4, <1>5, <1>6, <1>7 DEF RconOps

LEMMA SendOK ==
  ASSUME NetworkInv, NEW a \in Admins, Send(a)
  PROVE  NetworkInv'
<1>1. call[a] \in Calls /\ call[a].op \in RconOps /\ call[a].at = "send"
  BY CallRecords DEF Send, NetworkInv, CallOK
<1>2. PICK s \in Servers : s = call[a].server
  BY <1>1, CallFields
<1>3. UNCHANGED <<proxy, addr, proxyDns, serverDns, task, known>>
      /\ (UNCHANGED rcon \/ rcon' = [rcon EXCEPT ![a] = "broken"])
  BY DEF Send
<1>4. \/ UNCHANGED <<access, forced>> /\ Fail(a)
      \/ Command(a) /\ Works(a) /\ (Fail(a) \/ Settle(a))
  BY DEF Send
<1>5. CASE UNCHANGED <<access, forced>> /\ Fail(a)
  <2>1. UNCHANGED <<network, task, known>> /\ rcon' \in [Admins -> {"nil", "open", "broken"}]
    BY <1>3, <1>5, RconTypes DEF network
  <2> QED
    BY <1>1, <1>5, <2>1, NetworkKept, Unsettled DEF Fail
<1>6. CASE Command(a) /\ Works(a) /\ (Fail(a) \/ Settle(a))
  <2>1. /\ access' \in [Servers -> 1..MaxRuns \cup {None}]
        /\ forced' \in [FQDNs -> Servers \cup {None}]
        /\ \A t \in Servers : access'[t] # access[t] => t = s /\ Part(call[a].op) = "access"
        /\ \A f \in FQDNs : forced'[f] # forced[f] =>
             f = <<LabelOf[s], FALSE>> /\ Part(call[a].op) = "host"
        /\ call[a].op = "AddServerAccess" => access'[s] = known[a][s]
        /\ call[a].op = "RemoveServerAccess" => access'[s] = None
        /\ call[a].op = "StartProxyForServer" => forced'[<<LabelOf[s], FALSE>>] = s
        /\ call[a].op = "StopProxyForServer" => forced'[<<LabelOf[s], FALSE>>] = None
    BY <1>1, <1>2, <1>6, CommandDoes
  <2>2. rcon' \in [Admins -> {"nil", "open", "broken"}]
    BY <1>3, RconTypes
  <2>3. NetworkTypeOK'
    BY <1>3, <2>1, <2>2 DEF NetworkInv, TypeOK, NetworkTypeOK
  <2>4. Touches(a)
    <3>1. \A f \in FQDNs : forced'[f] # forced[f] =>
            f[1] = LabelOf[call[a].server] /\ Part(call[a].op) = "host"
      <4>1. \A f : f = <<LabelOf[s], FALSE>> => f[1] = LabelOf[s]
        OBVIOUS
      <4> QED
        BY <1>2, <2>1, <4>1
    <3>2. \A t \in Servers : access'[t] # access[t] =>
            t = call[a].server /\ Part(call[a].op) = "access"
      BY <1>2, <2>1
    <3>3. UNCHANGED <<proxy, addr>> /\ \A l \in Labels : serverDns'[l] = serverDns[l]
      BY <1>3
    <3> QED
      BY <3>1, <3>2, <3>3 DEF Touches
  <2>5. NoDots'
    <3>1. \A l \in Labels : <<l, TRUE>> \in FQDNs /\ <<l, TRUE>> # <<LabelOf[s], FALSE>>
      BY DEF FQDNs
    <3> QED
      BY <2>1, <3>1 DEF NetworkInv, NoDots
  <2>6. CASE Fail(a)
    BY <1>1, <1>3, <2>3, <2>4, <2>5, <2>6, Unsettled DEF Fail
  <2>7. CASE Settle(a)
    <3>1. PICK x \in Parts : x = Part(call[a].op)
      BY <1>1, CallFields
    <3>2. ASSUME answer'[s][x] = Settlement(a)
          PROVE  PartHolds(s, x)'
      <4>1. CASE call[a].op = "AddServerAccess"
        <5>1. x = "access" /\ access'[s] = known[a][s] /\ addr'[s] = addr[s]
          BY <1>3, <2>1, <3>1, <4>1 DEF Part
        <5>2. Settlement(a) \in {"in", "unknown"}
              /\ (Settlement(a) = "in" => known[a][s] = addr[s])
          BY <1>2, <4>1 DEF Settlement
        <5> QED
          BY <3>2, <5>1, <5>2 DEF PartHolds
      <4>2. CASE call[a].op = "RemoveServerAccess"
        <5>1. x = "access" /\ access'[s] = None /\ Settlement(a) = "out"
          BY <2>1, <3>1, <4>2 DEF Part, Settlement
        <5> QED
          BY <3>2, <5>1 DEF PartHolds
      <4>3. CASE call[a].op = "StartProxyForServer"
        <5>1. x = "host" /\ forced'[<<LabelOf[s], FALSE>>] = s
              /\ Settlement(a) \in {"in", "unknown"}
          BY <2>1, <3>1, <4>3 DEF Part, Settlement
        <5> QED
          BY <3>2, <5>1 DEF PartHolds
      <4>4. CASE call[a].op = "StopProxyForServer"
        <5>1. x = "host" /\ forced'[<<LabelOf[s], FALSE>>] = None /\ Settlement(a) = "out"
          BY <2>1, <3>1, <4>4 DEF Part, Settlement
        <5>2. forced'[<<LabelOf[s], TRUE>>] = None
          BY <2>5, FQDNFacts DEF NoDots
        <5>3. \A dot \in BOOLEAN : forced'[<<LabelOf[s], dot>>] # s
          BY <5>1, <5>2, ServersAssumption
        <5> QED
          BY <3>2, <5>1, <5>3 DEF PartHolds
      <4> QED
        BY <1>1, <4>1, <4>2, <4>3, <4>4 DEF RconOps
    <3> QED
      BY <1>1, <1>2, <1>3, <2>3, <2>4, <2>5, <2>7, <3>1, <3>2, Settled
  <2> QED
    BY <1>6, <2>6, <2>7
<1> QED
  BY <1>4, <1>5, <1>6

(***************************************************************************)
(* The steps that are no call's.                                           *)
(***************************************************************************)
LEMMA Doubted ==
  ASSUME NetworkInv, NEW s \in Servers, NEW parts
  PROVE  /\ Doubt(s, parts) \in [Parts -> Said]
         /\ \A x \in Parts :
              /\ Doubt(s, parts)[x] \in {answer[s][x], "unknown"}
              /\ x \in parts => Doubt(s, parts)[x] # "in"
<1>1. answer[s] \in [Parts -> Said]
  BY DEF NetworkInv, TypeOK, Said
<1> QED
  BY <1>1 DEF Doubt, Said

LEMMA ProxyRelaunchedOK ==
  ASSUME NetworkInv, ProxyRelaunched
  PROVE  NetworkInv'
<1>1. /\ answer' \in [Servers -> [Parts -> Said]]
      /\ \A s \in Servers, x \in Parts :
           answer'[s][x] \in {answer[s][x], "unknown"} /\ answer'[s][x] # "in"
  BY Doubted DEF ProxyRelaunched
<1>2. \A a \in Admins : CallOK(a)' /\ InDoubt(a)' /\ AloneOK(a)'
  BY <1>1, CallsUntouched DEF ProxyRelaunched
<1>3. /\ proxy' \in 1..MaxProxies
      /\ access' \in [Servers -> 1..MaxRuns \cup {None}]
      /\ forced' \in [FQDNs -> Servers \cup {None}]
      /\ \A s \in Servers : access'[s] = None
      /\ \A f \in FQDNs : forced'[f] = None
  BY LaunchesAssumption DEF ProxyRelaunched, NetworkInv, TypeOK
<1>4. TypeOK'
  BY <1>1, <1>3, TypeParts, TypePartsNext DEF ProxyRelaunched, NetworkInv, NetworkTypeOK
<1>5. NoDots'
  BY <1>3 DEF NoDots, FQDNs
<1>6. ASSUME NEW s \in Servers, NEW x \in Parts
      PROVE  PartHolds(s, x)'
  <2>1. CASE answer'[s][x] = "unknown"
    BY <2>1 DEF PartHolds
  <2>2. CASE answer'[s][x] = answer[s][x] /\ answer[s][x] # "in"
    <3>1. PartHolds(s, x)
      BY ByParts DEF NetworkInv
    <3>2. \A dot \in BOOLEAN : forced'[<<LabelOf[s], dot>>] # s
      BY <1>3, ServersAssumption DEF FQDNs, Labels
    <3>3. access'[s] = None /\ serverDns' = serverDns
      BY <1>3 DEF ProxyRelaunched
    <3> QED
      BY <2>2, <3>1, <3>2, <3>3 DEF PartHolds
  <2> QED
    BY <1>1, <2>1, <2>2
<1>7. AnswersHold'
  BY <1>6, ByPartsNext
<1> QED
  BY <1>2, <1>4, <1>5, <1>7 DEF NetworkInv

LEMMA ServerListensOK ==
  ASSUME NetworkInv, NEW s \in Servers, ServerListens(s)
  PROVE  NetworkInv'
<1>1. /\ answer' \in [Servers -> [Parts -> Said]]
      /\ \A t \in Servers, x \in Parts :
           /\ answer'[t][x] \in {answer[t][x], "unknown"}
           /\ t = s /\ x = "access" => answer'[t][x] # "in"
  <2>1. answer' = [answer EXCEPT ![s] = Doubt(s, {"access"})]
    BY DEF ServerListens
  <2>2. answer \in [Servers -> [Parts -> Said]]
    BY TypeParts DEF NetworkInv
  <2>3. \A x \in Parts : /\ Doubt(s, {"access"})[x] \in {answer[s][x], "unknown"}
                         /\ x = "access" => Doubt(s, {"access"})[x] # "in"
    BY Doubted
  <2>4. Doubt(s, {"access"}) \in [Parts -> Said]
    BY Doubted
  <2> QED
    BY <2>1, <2>2, <2>3, <2>4
<1>2. \A a \in Admins : CallOK(a)' /\ InDoubt(a)' /\ AloneOK(a)'
  BY <1>1, CallsUntouched DEF ServerListens
<1>3. addr' \in [Servers -> 0..MaxRuns] /\ \A t \in Servers \ {s} : addr'[t] = addr[t]
  BY LaunchesAssumption DEF ServerListens, NetworkInv, TypeOK
<1>4. TypeOK' /\ NoDots'
  BY <1>1, <1>3, TypeParts, TypePartsNext DEF ServerListens, NetworkInv, NetworkTypeOK, NoDots
<1>5. ASSUME NEW t \in Servers, NEW x \in Parts
      PROVE  PartHolds(t, x)'
  <2>1. CASE answer'[t][x] = "unknown"
    BY <2>1 DEF PartHolds
  <2>2. CASE answer'[t][x] = answer[t][x]
    <3>1. PartHolds(t, x)
      BY ByParts DEF NetworkInv
    <3> QED
      BY <1>1, <1>3, <2>2, <3>1 DEF PartHolds, ServerListens
  <2> QED
    BY <1>1, <2>1, <2>2
<1>6. AnswersHold'
  BY <1>5, ByPartsNext
<1> QED
  BY <1>2, <1>4, <1>6 DEF NetworkInv

\* What an administrator fetches, and the proxy's own record: nothing that is
\* answered for.
LEMMA FetchOK ==
  ASSUME NetworkInv, NEW a \in Admins,
         \/ GetProxyFromName(a) \/ AttachToNetwork(a)
         \/ \E s \in Servers : GetServerFromName(a, s)
  PROVE  NetworkInv'
<1>1. /\ UNCHANGED <<proxy, access, forced, addr, serverDns, call, alone, answer>>
      /\ \A b \in Admins : call[b] # NoCall => known'[b] = known[b]
  BY DEF GetProxyFromName, AttachToNetwork, GetServerFromName, network, NetworkInv, TypeOK
<1>2. \A b \in Admins : CallOK(b)' /\ InDoubt(b)' /\ AloneOK(b)'
  BY <1>1, CallsUntouched
<1>3. /\ task' \in [Admins -> 1..MaxProxies] /\ proxyDns' \in Ips \cup {0}
      /\ rcon' \in [Admins -> {"nil", "open", "broken"}]
      /\ known' \in [Admins -> [Servers -> 0..MaxRuns]]
  <2>1. CASE GetProxyFromName(a)
    BY <2>1 DEF GetProxyFromName, network, NetworkInv, TypeOK
  <2>2. CASE AttachToNetwork(a)
    BY <2>2, PublicIps DEF AttachToNetwork, NetworkInv, TypeOK
  <2>3. ASSUME NEW s \in Servers, GetServerFromName(a, s)
        PROVE  known' \in [Admins -> [Servers -> 0..MaxRuns]] /\ UNCHANGED <<task, rcon, proxyDns>>
    <3>1. known[a] \in [Servers -> 0..MaxRuns] /\ addr[s] \in 0..MaxRuns
      BY DEF NetworkInv, TypeOK
    <3>2. [known[a] EXCEPT ![s] = addr[s]] \in [Servers -> 0..MaxRuns]
      BY <3>1
    <3>3. known' = [known EXCEPT ![a] = [known[a] EXCEPT ![s] = addr[s]]]
      BY <2>3 DEF GetServerFromName, NetworkInv, TypeOK
    <3> QED
      BY <2>3, <3>2, <3>3 DEF GetServerFromName, network, NetworkInv, TypeOK
  <2>4. CASE \E s \in Servers : GetServerFromName(a, s)
    BY <2>3, <2>4 DEF NetworkInv, TypeOK
  <2> QED
    BY <2>1, <2>2, <2>4
<1>4. TypeOK'
  BY <1>1, <1>3 DEF NetworkInv, TypeOK
<1>5. NoDots' /\ AnswersHold'
  BY <1>1 DEF NetworkInv, NoDots, AnswersHold
<1> QED
  BY <1>2, <1>4, <1>5 DEF NetworkInv

LEMMA CallBegins ==
  ASSUME NetworkInv, NEW a \in Admins, NEW op \in Ops, NEW s \in Servers, Call(a, op, s)
  PROVE  NetworkInv'
<1>1. UNCHANGED <<network, task, rcon, known>>
  BY DEF Call
<1>2. /\ \A b \in Admins : CallOK(b)' /\ InDoubt(b)' /\ AloneOK(b)'
      /\ call' \in [Admins -> {NoCall} \cup Calls] /\ alone' \in [Admins -> BOOLEAN]
      /\ \A t \in Servers, x \in Parts : answer'[t][x] \in {answer[t][x], "unknown"}
      /\ answer' \in [Servers -> [Parts -> Said]]
  BY Beginning
<1>3. TypeOK' /\ NoDots'
  BY <1>1, <1>2, TypeParts, TypePartsNext DEF NetworkInv, NetworkTypeOK, NoDots, network
<1>4. ASSUME NEW t \in Servers, NEW x \in Parts
      PROVE  PartHolds(t, x)'
  <2>1. PartHolds(t, x)
    BY ByParts DEF NetworkInv
  <2> QED
    BY <1>1, <1>2, <2>1 DEF PartHolds, network
<1>5. AnswersHold'
  BY <1>4, ByPartsNext
<1> QED
  BY <1>2, <1>3, <1>5 DEF NetworkInv

LEMMA NetworkInit == Init => NetworkInv
<1> SUFFICES ASSUME Init
             PROVE  NetworkInv
  OBVIOUS
<1>1. \A a \in Admins : call[a] = NoCall
  BY DEF Init
<1>2. \A a \in Admins : CallOK(a) /\ InDoubt(a) /\ AloneOK(a)
  <2>1. \A a \in Admins : call[a].at = "idle" /\ call[a].op = "none"
    <3>1. NoCall.at = "idle" /\ NoCall.op = "none"
      BY DEF NoCall
    <3> QED
      BY <1>1, <3>1
  <2> QED
    BY <1>1, <2>1 DEF CallOK, InDoubt, AloneOK
<1>3. TypeOK
  BY LaunchesAssumption DEF Init, TypeOK
<1>4. NoDots /\ AnswersHold
  BY DEF Init, NoDots, FQDNs, AnswersHold, Parts
<1> QED
  BY <1>2, <1>3, <1>4 DEF NetworkInv

LEMMA NetworkNext == NetworkInv /\ [Next]_vars => NetworkInv'
<1> SUFFICES ASSUME NetworkInv, [Next]_vars
             PROVE  NetworkInv'
  OBVIOUS
<1>1. CASE ProxyRelaunched
  BY <1>1, ProxyRelaunchedOK
<1>2. ASSUME NEW s \in Servers, ServerListens(s)
      PROVE  NetworkInv'
  BY <1>2, ServerListensOK
<1>3. ASSUME NEW a \in Admins, GetProxyFromName(a) \/ AttachToNetwork(a)
                               \/ \E s \in Servers : GetServerFromName(a, s)
      PROVE  NetworkInv'
  BY <1>3, FetchOK
<1>4. ASSUME NEW a \in Admins, NEW op \in Ops, NEW s \in Servers, Call(a, op, s)
      PROVE  NetworkInv'
  BY <1>4, CallBegins
<1>5. ASSUME NEW a \in Admins, LookUp(a)
      PROVE  NetworkInv'
  BY <1>5, LookUpOK
<1>6. ASSUME NEW a \in Admins, Change(a)
      PROVE  NetworkInv'
  BY <1>6, ChangeOK
<1>7. ASSUME NEW a \in Admins, GetRcon(a)
      PROVE  NetworkInv'
  BY <1>7, GetRconOK
<1>8. ASSUME NEW a \in Admins, ServerNames(a)
      PROVE  NetworkInv'
  BY <1>8, ServerNamesOK
<1>9. ASSUME NEW a \in Admins, Send(a)
      PROVE  NetworkInv'
  BY <1>9, SendOK
<1>10. CASE UNCHANGED vars
  <2>1. UNCHANGED <<proxy, access, forced, addr, proxyDns, serverDns, task, rcon, known, call,
                    alone, answer>>
    BY <1>10 DEF vars
  <2>2. \A b \in Admins : CallOK(b)' /\ InDoubt(b)' /\ AloneOK(b)'
    BY <2>1, CallsUntouched
  <2> QED
    BY <2>1, <2>2 DEF NetworkInv, TypeOK, NoDots, AnswersHold
<1> QED
  BY <1>1, <1>2, <1>3, <1>4, <1>5, <1>6, <1>7, <1>8, <1>9, <1>10 DEF Next

LEMMA NetworkInvariant == Spec => []NetworkInv
BY NetworkInit, NetworkNext, PTL DEF Spec

(***************************************************************************)
(* Every variable keeps its type: no address a server is added with is of  *)
(* an unbound port, and a record leads to a host.                          *)
(***************************************************************************)
THEOREM NetworkTypeCorrect == Spec => []TypeOK
<1>1. NetworkInv => TypeOK
  BY DEF NetworkInv
<1> QED
  BY <1>1, NetworkInvariant, PTL

(***************************************************************************)
(* What a call without an error says of the network stays true until the   *)
(* next call about the same thing, whatever relaunches, stale Proxies,     *)
(* broken connections and other administrators' calls come between.        *)
(***************************************************************************)
THEOREM AnswersStay == Spec => []AnswersHold
<1>1. NetworkInv => AnswersHold
  BY DEF NetworkInv
<1> QED
  BY <1>1, NetworkInvariant, PTL

(***************************************************************************)
(* Where no connection breaks by itself, a Proxy's connection is broken    *)
(* only once the proxy it was made to has been relaunched, and a call past *)
(* GetRcon has one.                                                        *)
(***************************************************************************)
ConnectionOK(a) ==
    /\ task[a] \in Nat /\ task[a] <= proxy
    /\ rcon[a] = "broken" => task[a] # proxy
    /\ call[a].at \in {"names", "send"} => call[a].op \in RconOps
    /\ \/ call[a].op \in {"AddServerAccess", "RemoveServerAccess", "StartProxyForServer"}
          /\ call[a].at \in {"names", "send"}
       \/ call[a].op = "StopProxyForServer" /\ call[a].at \in {"dns", "send"}
       => rcon[a] # "nil"

ConnectionInv ==
    /\ proxy \in Nat
    /\ rcon \in [Admins -> {"nil", "open", "broken"}]
    /\ DOMAIN task = Admins
    /\ \A a \in Admins : ConnectionOK(a)

\* A step of one call, the rest of the calls and connections left alone.
LEMMA ConnectionStep ==
  ASSUME ConnectionInv, NEW a \in Admins, proxy' = proxy, task' = task,
         rcon' = rcon \/ \E r \in {"open", "broken"} : rcon' = [rcon EXCEPT ![a] = r],
         \A b \in Admins \ {a} : call'[b] = call[b],
         ConnectionOK(a)'
  PROVE  ConnectionInv'
<1>1. /\ rcon' \in [Admins -> {"nil", "open", "broken"}]
      /\ \A b \in Admins \ {a} : rcon'[b] = rcon[b]
  BY DEF ConnectionInv
<1>2. \A b \in Admins \ {a} : ConnectionOK(b)'
  BY <1>1 DEF ConnectionInv, ConnectionOK
<1> QED
  BY <1>1, <1>2 DEF ConnectionInv

\* A call that ends, its connection found broken or not.
LEMMA ConnectionEnds ==
  ASSUME NetworkInv, ConnectionInv, NEW a \in Admins, proxy' = proxy, task' = task, Over(a),
         rcon' = rcon \/ (rcon' = [rcon EXCEPT ![a] = "broken"] /\ task[a] # proxy)
  PROVE  ConnectionInv'
<1>1. /\ \A b \in Admins \ {a} : call'[b] = call[b]
      /\ call'[a] = NoCall /\ NoCall.at = "idle" /\ NoCall.op = "none"
  BY DEF Over, NoCall, NetworkInv, TypeOK
<1>2. rcon'[a] = "broken" => task[a] # proxy
  BY DEF ConnectionInv, ConnectionOK
<1>3. ConnectionOK(a)'
  BY <1>1, <1>2 DEF ConnectionInv, ConnectionOK
<1> QED
  BY <1>1, <1>3, ConnectionStep

\* A call that goes on to another label.
LEMMA ConnectionGoesOn ==
  ASSUME NetworkInv, ConnectionInv, NEW a \in Admins, NEW c, GoesOn(a, c),
         proxy' = proxy, task' = task,
         rcon' = rcon \/ rcon' = [rcon EXCEPT ![a] = "open"],
         c.at \in {"names", "send"} => c.op \in RconOps,
         c.at = "dns" => c.op # "StopProxyForServer" \/ rcon'[a] # "nil",
         c.at \in {"names", "send"} => rcon'[a] # "nil"
  PROVE  ConnectionInv'
<1>1. /\ \A b \in Admins \ {a} : call'[b] = call[b]
      /\ call'[a] = c
  BY GoingOn
<1>2. rcon'[a] = "broken" => task[a] # proxy
  BY DEF ConnectionInv, ConnectionOK
<1>3. ConnectionOK(a)'
  BY <1>1, <1>2 DEF ConnectionInv, ConnectionOK
<1> QED
  BY <1>1, <1>3, ConnectionStep

LEMMA ConnectionNext ==
  ASSUME "rcon" \notin Faults, NetworkInv, ConnectionInv, [Next]_vars
  PROVE  ConnectionInv'
<1>0. NoCall.at = "idle" /\ NoCall.op = "none"
  BY DEF NoCall
<1>3. CASE ProxyRelaunched
  BY <1>3 DEF ProxyRelaunched, ConnectionInv, ConnectionOK
<1>4. ASSUME NEW s \in Servers, ServerListens(s)
      PROVE  ConnectionInv'
  BY <1>4 DEF ServerListens, ConnectionInv, ConnectionOK
<1>5. ASSUME NEW a \in Admins, GetProxyFromName(a)
      PROVE  ConnectionInv'
  BY <1>0, <1>5 DEF GetProxyFromName, network, ConnectionInv, ConnectionOK
<1>6. ASSUME NEW a \in Admins,
             AttachToNetwork(a) \/ \E s \in Servers : GetServerFromName(a, s)
      PROVE  ConnectionInv'
  BY <1>6 DEF AttachToNetwork, GetServerFromName, network, ConnectionInv, ConnectionOK
<1>7. ASSUME NEW a \in Admins, NEW op \in Ops, NEW s \in Servers, Call(a, op, s)
      PROVE  ConnectionInv'
  <2>1. /\ \A b \in Admins \ {a} : call'[b] = call[b]
        /\ call'[a].op = op /\ call'[a].at = First(op)
        /\ proxy' = proxy /\ task' = task /\ rcon' = rcon
    BY <1>7 DEF Call, network, NetworkInv, TypeOK
  <2>2. ConnectionOK(a)'
    BY <2>1 DEF ConnectionInv, ConnectionOK, First, Ops
  <2> QED
    BY <2>1, <2>2, ConnectionStep
<1>8. ASSUME NEW a \in Admins, LookUp(a)
      PROVE  ConnectionInv'
  <2> DEFINE op == call[a].op
             next == CASE op = "StartProxyForServer" -> "rcon"
                       [] op = "StopProxyForServer" -> "send"
                       [] op = "DetachFromProxyNetwork" -> "change"
             f == <<LabelOf[call[a].server], FALSE>>
  <2>1. call[a] \in Calls /\ op \in LookUpOps /\ call[a].at = "dns"
    BY <1>8, CallRecords DEF LookUp, NetworkInv, CallOK
  <2>2. /\ Fail(a) \/ (call' = LookedUp(a, next, f) /\ UNCHANGED <<alone, answer>>)
        /\ proxy' = proxy /\ task' = task /\ rcon' = rcon /\ known' = known
    BY <1>8 DEF LookUp, ProxiedServerFQDN, attachedServerFQDN, LookedUp, network
  <2>3. next \in Steps /\ f \in FQDNs /\ next # "dns"
    BY <2>1, CallFields, FQDNFacts DEF LookUpOps, Steps
  <2>4. next \in {"names", "send"} => op = "StopProxyForServer" /\ rcon[a] # "nil"
    BY <2>1 DEF LookUpOps, ConnectionInv, ConnectionOK
  <2> HIDE DEF next, f
  <2>5. CASE Fail(a)
    BY <2>2, <2>5, ConnectionEnds DEF Fail
  <2>6. CASE call' = LookedUp(a, next, f) /\ UNCHANGED <<alone, answer>>
    <3>1. PICK c : GoesOn(a, c) /\ c.at = next
      BY <2>1, <2>2, <2>3, <2>6, LookUpRecord
    <3>2. c.op = op
      BY <3>1 DEF GoesOn
    <3> QED
      BY <2>2, <2>3, <2>4, <3>1, <3>2, ConnectionGoesOn DEF RconOps
  <2> QED
    BY <2>2, <2>5, <2>6
<1>9. ASSUME NEW a \in Admins, Change(a)
      PROVE  ConnectionInv'
  <2>1. Over(a) /\ proxy' = proxy /\ task' = task /\ rcon' = rcon
    BY <1>9 DEF Change, Settle, Fail
  <2> QED
    BY <2>1, ConnectionEnds
<1>10. ASSUME NEW a \in Admins, GetRcon(a)
       PROVE  ConnectionInv'
  <2> DEFINE op == call[a].op
             next == CASE op = "RemoveServerAccess" -> "names"
                       [] op = "StopProxyForServer" -> "dns"
                       [] OTHER -> "send"
  <2>1. call[a] \in Calls /\ op \in RconOps
    BY <1>10, CallRecords DEF GetRcon, NetworkInv, CallOK
  <2>2. /\ proxy' = proxy /\ task' = task /\ known' = known
        /\ \/ Fail(a) /\ rcon' = rcon
           \/ /\ Goto(a, next)
              /\ \/ rcon[a] # "nil" /\ rcon' = rcon
                 \/ rcon' = [rcon EXCEPT ![a] = "open"]
    BY <1>10 DEF GetRcon, network
  <2>3. next \in Steps
    BY DEF Steps
  <2> HIDE DEF next
  <2>4. CASE Fail(a) /\ rcon' = rcon
    BY <2>2, <2>4, ConnectionEnds DEF Fail
  <2>5. CASE /\ Goto(a, next)
             /\ \/ rcon[a] # "nil" /\ rcon' = rcon
                \/ rcon' = [rcon EXCEPT ![a] = "open"]
    <3>1. PICK c : GoesOn(a, c)
      BY <2>1, <2>2, <2>3, <2>5, StepRecord DEF Goto
    <3>2. c.op = op /\ rcon'[a] # "nil"
      BY <2>5, <3>1 DEF GoesOn, ConnectionInv
    <3> QED
      BY <2>1, <2>2, <2>5, <3>1, <3>2, ConnectionGoesOn
  <2> QED
    BY <2>2, <2>4, <2>5
<1>11. ASSUME NEW a \in Admins, ServerNames(a)
       PROVE  ConnectionInv'
  <2>1. /\ call[a] \in Calls /\ call[a].op = "RemoveServerAccess" /\ rcon[a] # "nil"
        /\ call[a].at = "names"
    BY <1>11, CallRecords DEF ServerNames, NetworkInv, CallOK, ConnectionInv, ConnectionOK
  <2>2. ~Works(a) => task[a] # proxy
    BY <2>1 DEF Works, ConnectionInv, ConnectionOK
  <2>3. /\ proxy' = proxy /\ task' = task /\ known' = known
        /\ \/ Fail(a) /\ (rcon' = rcon \/ (rcon' = [rcon EXCEPT ![a] = "broken"] /\ ~Works(a)))
           \/ Goto(a, "send") /\ rcon' = rcon
    BY <1>11 DEF ServerNames, network
  <2>4. CASE Fail(a)
    <3>1. rcon' = rcon \/ (rcon' = [rcon EXCEPT ![a] = "broken"] /\ task[a] # proxy)
      BY <2>2, <2>3, <2>1, <2>4, CallFields DEF Fail, Over, Goto, NetworkInv, TypeOK
    <3> QED
      BY <2>3, <2>4, <3>1, ConnectionEnds DEF Fail
  <2>5. CASE Goto(a, "send") /\ rcon' = rcon
    <3>1. PICK c : GoesOn(a, c) /\ c.at = "send"
      BY <2>1, <2>3, <2>5, StepRecord DEF Goto, Steps
    <3>2. c.op = call[a].op
      BY <3>1 DEF GoesOn
    <3> QED
      BY <2>1, <2>3, <2>5, <3>1, <3>2, ConnectionGoesOn DEF RconOps
  <2> QED
    BY <2>3, <2>4, <2>5
<1>12. ASSUME NEW a \in Admins, Send(a)
       PROVE  ConnectionInv'
  <2>1. call[a].op \in RconOps /\ call[a].at = "send"
    BY <1>12 DEF Send, NetworkInv, CallOK
  <2>2. rcon[a] # "nil"
    BY <2>1 DEF RconOps, ConnectionInv, ConnectionOK
  <2>3. ~Works(a) => task[a] # proxy
    BY <2>2 DEF Works, ConnectionInv, ConnectionOK
  <2>4. /\ proxy' = proxy /\ task' = task /\ Over(a)
        /\ rcon' = rcon \/ (rcon' = [rcon EXCEPT ![a] = "broken"] /\ ~Works(a))
    BY <1>12 DEF Send, Settle, Fail
  <2> QED
    BY <2>3, <2>4, ConnectionEnds
<1>13. CASE UNCHANGED vars
  BY <1>13 DEF vars, ConnectionInv, ConnectionOK
<1> QED
  BY <1>3, <1>4, <1>5, <1>6, <1>7, <1>8, <1>9, <1>10, <1>11, <1>12, <1>13 DEF Next

\* GetRcon, for a Proxy fetched since the last relaunch.
CurrentRconWorks ==
    [][\A a \in Admins :
         /\ call[a].at = "rcon" /\ call'[a].at \notin {"rcon", "idle"}
         /\ task[a] = proxy
         => Works(a)']_vars

(***************************************************************************)
(* "Get Rcon returns a working rcon connection" is true of a Proxy whose   *)
(* proxy has not been relaunched since it was fetched, if connections do   *)
(* not break: only a relaunch can leave such a Proxy the one it reuses.    *)
(***************************************************************************)
THEOREM GetRconWorksWhileCurrent ==
  ASSUME "rcon" \notin Faults
  PROVE  Spec => CurrentRconWorks
<1>1. Init => ConnectionInv
  <2>1. NoCall.at = "idle" /\ NoCall.op = "none"
    BY DEF NoCall
  <2> QED
    BY <2>1 DEF Init, ConnectionInv, ConnectionOK
<1>2. NetworkInv /\ ConnectionInv /\ [Next]_vars => ConnectionInv'
  BY ConnectionNext
<1>3. NetworkInv /\ ConnectionInv /\ [Next]_vars =>
        [\A a \in Admins :
           /\ call[a].at = "rcon" /\ call'[a].at \notin {"rcon", "idle"}
           /\ task[a] = proxy
           => Works(a)']_vars
  <2> SUFFICES ASSUME NetworkInv, ConnectionInv, Next, NEW a \in Admins,
                      call[a].at = "rcon", call'[a].at \notin {"rcon", "idle"},
                      task[a] = proxy
               PROVE  Works(a)'
    BY DEF vars
  <2>0. call = [b \in Admins |-> call[b]] /\ NoCall.at = "idle"
    BY DEF NetworkInv, TypeOK, NoCall
  <2>1. GetRcon(a)
    <3>1. \A b \in Admins : Over(b) => call'[b].at = "idle" /\ (b # a => call'[a] = call[a])
      BY <2>0 DEF Over
    <3>2. ASSUME NEW b \in Admins,
                 LookUp(b) \/ Change(b) \/ ServerNames(b) \/ Send(b)
          PROVE  b # a /\ call[b] # call[a]
      BY <3>2 DEF LookUp, Change, ServerNames, Send
    <3>3. ASSUME NEW b \in Admins, b # a,
                 LookUp(b) \/ Change(b) \/ GetRcon(b) \/ ServerNames(b) \/ Send(b)
          PROVE  call'[a] = call[a]
      <4>1. CASE LookUp(b)
        <5>1. Fail(b) \/ \E l, f : call' = LookedUp(b, l, f)
          BY <4>1 DEF LookUp, LookedUp
        <5> QED
          BY <2>0, <3>1, <3>3, <5>1 DEF LookedUp, Fail
      <4> QED
        BY <2>0, <3>1, <3>3, <4>1 DEF Change, GetRcon, ServerNames, Send, Goto, Settle, Fail
    <3> QED
      BY <2>0, <3>2, <3>3 DEF Next, ProxyRelaunched, ServerListens, GetServerFromName,
         Call, GetProxyFromName, AttachToNetwork
  <2>2. call'[a] # NoCall
    BY <2>0
  <2>3. rcon'[a] = "open" /\ UNCHANGED <<task, proxy>>
    BY <2>0, <2>1, <2>2 DEF GetRcon, Fail, Over, network, ConnectionInv, ConnectionOK
  <2> QED
    BY <2>3 DEF Works
<1> QED
  BY <1>1, <1>2, <1>3, NetworkInvariant, PTL DEF Spec, CurrentRconWorks
=============================================================================

---------------------- MODULE ConfigurationGivenProofs ----------------------
(***************************************************************************)
(* What a client asks for is what hostapd is given, for any command lines   *)
(* and requests, any radios and any history of earlier requests.  That the   *)
(* single setters give what they are called with is shown in                 *)
(* ConfigurationPathProofs, but for the RADIUS servers, which come first     *)
(* here; then that a request gives the parts it has, an enabling all of them *)
(* in their order, and that what a command line says in the client's words   *)
(* is what its request asks for in the API's.                                *)
(***************************************************************************)
EXTENDS ConfigurationPathProofs

-----------------------------------------------------------------------------
(* The RADIUS servers *)

\* hostapd's servers are lists.
HasServers(conf) == IsList(conf.auth_servers) /\ IsList(conf.acct_servers)

\* One more at the end of a list.
Added(list, entry) ==
    [i \in 1 .. Len(list) + 1 |-> IF i = Len(list) + 1 THEN entry ELSE list[i]]

\* One more entry is at the end of the list, after those there were.
LEMMA Adds ==
    ASSUME NEW list, IsList(list), NEW entry
    PROVE  /\ Append(list, entry) = Added(list, entry)
           /\ IsList(Added(list, entry)) /\ Len(Added(list, entry)) = Len(list) + 1
<1>1. Len(list) \in Nat /\ list = [i \in 1 .. Len(list) |-> list[i]]
  BY Lists DEF IsList
<1> DEFINE n == Len(list)
           U == ToSet(list) \cup {entry}
<1>2. list \in Seq(U) /\ entry \in U
  <2>1. \A i \in 1 .. n : list[i] \in U
    BY <1>1 DEF ToSet
  <2> HIDE DEF U, n
  <2>2. [i \in 1 .. n |-> list[i]] \in Seq(U)
    BY <1>1, <2>1 DEF n
  <2> QED  BY <1>1, <2>2 DEF U, n
<1> HIDE DEF U
<1>3. /\ Append(list, entry) \in Seq(U)
      /\ Len(Append(list, entry)) = n + 1
      /\ \A i \in 1 .. n : Append(list, entry)[i] = list[i]
      /\ Append(list, entry)[n + 1] = entry
  BY <1>2
<1> HIDE DEF n
<1>4. Append(list, entry) = [i \in 1 .. n + 1 |-> Append(list, entry)[i]]
  <2> DEFINE a == Append(list, entry)
  <2> HIDE DEF a
  <2>1. a \in Seq(U) /\ Len(a) = n + 1
    BY <1>3 DEF a
  <2>2. a = [i \in 1 .. Len(a) |-> a[i]]
    BY <2>1
  <2> QED  BY <2>1, <2>2 DEF a
<1>5. \A i \in 1 .. n + 1 : Append(list, entry)[i] = IF i = n + 1 THEN entry ELSE list[i]
  BY <1>1, <1>3 DEF n
<1>6. Append(list, entry) = Added(list, entry)
  BY <1>4, <1>5 DEF Added, n
<1>7. Added(list, entry) = [i \in 1 .. n + 1 |-> Added(list, entry)[i]] /\ n + 1 \in Nat
  BY <1>1 DEF Added, n
<1> QED  BY <1>6, <1>7, Lists DEF n

\* A field of the last one, and of an entry.
LastWith(list, field, value) == [list EXCEPT ![Len(list)][field] = value]

\* An entry with one field changed.
With(entry, field, value) == [entry EXCEPT ![field] = value]

\* The last entry is the one that a secret or a port is for.
LEMMA LastChanged ==
    ASSUME NEW list, IsList(list), NEW entry, NEW field, NEW value
    PROVE  LastWith(Added(list, entry), field, value) = Added(list, With(entry, field, value))
<1> DEFINE new == Added(list, entry)
<1>1. Len(new) = Len(list) + 1 /\ Len(list) \in Nat
  BY Adds, Lists
<1>2. new[Len(new)] = entry
  BY <1>1 DEF Added
<1>3. LastWith(new, field, value) = [new EXCEPT ![Len(new)] = With(entry, field, value)]
  <2> HIDE DEF new
  <2> QED  BY <1>2 DEF LastWith, With
<1> DEFINE e == With(entry, field, value)
<1> HIDE DEF e
<1>4. [new EXCEPT ![Len(new)] = e] = Added(list, e)
  BY <1>1 DEF Added
<1> QED  BY <1>3, <1>4 DEF e

\* A SET keeps them lists.
LEMMA AssignServers ==
    ASSUME NEW conf, conf = [name \in PropertyNames |-> conf[name]], HasServers(conf),
           NEW name, NEW value, NEW new, new = Assign(conf, name, value)
    PROVE  HasServers(new)
<1>0. "auth_servers" \in PropertyNames /\ "acct_servers" \in PropertyNames
  BY DEF PropertyNames
<1>1. ASSUME NEW list \in {"auth_servers", "acct_servers"}, NEW v, IsList(v),
             new = [conf EXCEPT ![list] = v]
      PROVE  HasServers(new)
  BY <1>0, <1>1 DEF HasServers
<1>2. CASE name \in {"auth_server_addr", "acct_server_addr"}
  <2> DEFINE entry == [address |-> value, secret |-> <<>>, port |-> <<>>]
  <2>1. CASE name = "auth_server_addr"
    <3>1. new = [conf EXCEPT !["auth_servers"] = Append(conf["auth_servers"], entry)]
      BY <2>1, <1>0 DEF Assign
    <3>2. IsList(Append(conf["auth_servers"], entry))
      <4> HIDE DEF entry
      <4> QED  BY Adds DEF HasServers
    <3> QED  BY <1>1, <3>1, <3>2
  <2>2. CASE name = "acct_server_addr"
    <3>1. new = [conf EXCEPT !["acct_servers"] = Append(conf["acct_servers"], entry)]
      BY <2>2, <1>0 DEF Assign
    <3>2. IsList(Append(conf["acct_servers"], entry))
      <4> HIDE DEF entry
      <4> QED  BY Adds DEF HasServers
    <3> QED  BY <1>1, <3>1, <3>2
  <2> QED  BY <1>2, <2>1, <2>2
<1>3. ASSUME NEW list \in {"auth_servers", "acct_servers"}, NEW i, NEW f, NEW v
      PROVE  IsList([conf[list] EXCEPT ![i][f] = v])
  <2>1. IsList(conf[list])
    BY DEF HasServers
  <2> DEFINE old == conf[list]
             u == [old EXCEPT ![i][f] = v]
  <2>2. Len(old) \in Nat /\ old = [j \in 1 .. Len(old) |-> old[j]]
    BY <2>1, Lists DEF IsList
  <2> HIDE DEF old
  <2>3. u = [j \in 1 .. Len(old) |-> u[j]]
    BY <2>2
  <2> HIDE DEF u
  <2>4. IsList(u)
    BY <2>2, <2>3, Lists
  <2> QED  BY <2>4 DEF u, old
<1>4. ASSUME NEW list \in {"auth_servers", "acct_servers"}, NEW f,
             new = [conf EXCEPT ![list][Len(conf[list])][f] = <<value>>]
      PROVE  HasServers(new)
  <2> DEFINE v == [conf[list] EXCEPT ![Len(conf[list])][f] = <<value>>]
  <2>1. IsList(v)
    BY <1>3
  <2>2. new = [conf EXCEPT ![list] = v]
    BY <1>4
  <2> HIDE DEF v
  <2> QED  BY <1>1, <2>1, <2>2
<1>5. CASE name \in {"auth_server_shared_secret", "acct_server_shared_secret",
                     "auth_server_port", "acct_server_port"}
  <2>1. CASE name = "auth_server_shared_secret"
    <3>1. new = [conf EXCEPT !["auth_servers"][Len(conf["auth_servers"])]["secret"] = <<value>>]
      BY <2>1 DEF Assign
    <3> QED  BY <1>4, <3>1
  <2>2. CASE name = "acct_server_shared_secret"
    <3>1. new = [conf EXCEPT !["acct_servers"][Len(conf["acct_servers"])]["secret"] = <<value>>]
      BY <2>2 DEF Assign
    <3> QED  BY <1>4, <3>1
  <2>3. CASE name = "auth_server_port"
    <3>1. new = [conf EXCEPT !["auth_servers"][Len(conf["auth_servers"])]["port"] = <<value>>]
      BY <2>3 DEF Assign
    <3> QED  BY <1>4, <3>1
  <2>4. CASE name = "acct_server_port"
    <3>1. new = [conf EXCEPT !["acct_servers"][Len(conf["acct_servers"])]["port"] = <<value>>]
      BY <2>4 DEF Assign
    <3> QED  BY <1>4, <3>1
  <2> QED  BY <1>5, <2>1, <2>2, <2>3, <2>4
<1>6. CASE name \in {"auth_servers", "acct_servers"}
  <2>1. new = [conf EXCEPT ![name] = <<value>>]
    BY <1>6 DEF Assign
  <2>2. IsList(<<value>>)
    BY Singles
  <2> QED  BY <1>1, <1>6, <2>1, <2>2
<1>7. CASE name \notin {"auth_server_addr", "acct_server_addr",
                        "auth_server_shared_secret", "acct_server_shared_secret",
                        "auth_server_port", "acct_server_port", "auth_servers", "acct_servers"}
  <2>1. Property(name) \notin {"auth_servers", "acct_servers"}
    BY <1>7 DEF Property
  <2>2. new["auth_servers"] = conf["auth_servers"] /\ new["acct_servers"] = conf["acct_servers"]
    BY <1>0, <2>1, AssignKeeps
  <2> QED  BY <2>2 DEF HasServers
<1>8. \/ name \in {"auth_server_addr", "acct_server_addr"}
      \/ name \in {"auth_server_shared_secret", "acct_server_shared_secret",
                   "auth_server_port", "acct_server_port"}
      \/ name \in {"auth_servers", "acct_servers"}
      \/ name \notin {"auth_server_addr", "acct_server_addr",
                      "auth_server_shared_secret", "acct_server_shared_secret",
                      "auth_server_port", "acct_server_port", "auth_servers", "acct_servers"}
  OBVIOUS
<1> QED  BY <1>2, <1>5, <1>6, <1>7, <1>8

\* So does a list of commands.
LEMMA RanServers ==
    ASSUME NEW h, NEW s, NEW x, Ran(h, s, x), HasServers(h.conf)
    PROVE  HasServers(x.conf)
<1>1. PICK f :
          /\ f[0] = h /\ f[Len(s)] = x
          /\ \A i \in 0 .. Len(s) : Typed(f[i])
          /\ \A i \in 1 .. Len(s) :
                s[i] \in ToSet(s) /\ \E b \in BOOLEAN : f[i] = Step(f[i - 1], s[i], b)
  BY Trace
<1>2. Len(s) \in Nat
  BY Trace
<1> DEFINE S == {i \in 0 .. Len(s) : HasServers(f[i].conf)}
<1>3. 0 \in S
  BY <1>1, <1>2
<1>4. ASSUME NEW i \in 0 .. Len(s) - 1, i \in S PROVE i + 1 \in S
  <2> DEFINE l == i + 1
             new == Assign(f[i].conf, s[l].name, s[l].value)
  <2>1. l \in 1 .. Len(s) /\ l \in 0 .. Len(s) /\ l - 1 = i
    BY <1>2
  <2> HIDE DEF l
  <2>2. Typed(f[i]) /\ HasServers(f[i].conf)
    BY <1>1, <1>4, <2>1
  <2>3. PICK b \in BOOLEAN : f[l] = Step(f[i], s[l], b)
    BY <1>1, <2>1
  <2>4. f[i].conf = [name \in PropertyNames |-> f[i].conf[name]]
    BY <2>2 DEF Typed
  <2>5. HasServers(f[l].conf)
    <3>0. new = Assign(f[i].conf, s[l].name, s[l].value)
      OBVIOUS
    <3> HIDE DEF new
    <3>1. CASE f[i].status # "Succeeded" \/ s[l].do \in Orders
      <4>1. f[l].conf = f[i].conf
        BY <2>2, <2>3, <3>1, StepOrders
      <4> QED  BY <2>2, <4>1
    <3>2. CASE f[i].status = "Succeeded" /\ s[l].do \notin Orders
      <4>1. HasServers(new)
        BY <2>2, <2>4, <3>0, AssignServers
      <4>2. \/ f[l].status = "InternalError" /\ f[l].conf = f[i].conf /\ f[l].live = f[i].live
               /\ f[l].state = f[i].state
            \/ /\ Accepts(s[l].name, s[l].value) /\ f[l].conf = new
               /\ f[l].status = "Succeeded" /\ f[l].state = f[i].state
               /\ f[l].live = IF s[l].name = "setband"
                              THEN [f[i].live EXCEPT !.setband = new.setband] ELSE f[i].live
        BY <2>2, <2>3, <3>0, <3>2, StepForms
      <4>3. f[l].conf = f[i].conf \/ f[l].conf = new
        BY <4>2
      <4> QED  BY <2>2, <4>1, <4>3
    <3> QED  BY <3>1, <3>2
  <2>6. l \in S
    <3> HIDE DEF new
    <3> QED  BY <2>1, <2>5
  <2> QED  BY <2>6 DEF l
<1>5. Len(s) \in S
  <2>1. Len(s) \in 0 .. Len(s)
    BY <1>2
  <2> HIDE DEF S
  <2> QED  BY <1>2, <1>3, <1>4, <2>1, Induction
<1> QED  BY <1>1, <1>5

\* One SET that succeeds.
LEMMA DoneWrites ==
    ASSUME NEW h, NEW name, NEW value, NEW x, Done(h, <<Set(name, value)>>, x)
    PROVE  x.conf = Assign(h.conf, name, value)
<1> DEFINE c == Set(name, value)
           new == Assign(h.conf, c.name, c.value)
<1>1. c.do \notin Orders /\ c.name = name /\ c.value = value
  BY Commands
<1> HIDE DEF c
<1>2. Done(h, <<c>>, x)
  BY DEF c
<1>3. Typed(h) /\ h.status = "Succeeded" /\ x.status = "Succeeded"
  BY <1>2, RanTyped, DonePasses DEF Done
<1>4. PICK b \in BOOLEAN : x = Step(h, c, b)
  BY <1>2, DoneSmall DEF Done
<1>0. new = Assign(h.conf, c.name, c.value)
  OBVIOUS
<1> HIDE DEF new
<1>5. \/ x.status = "InternalError" /\ x.conf = h.conf /\ x.live = h.live
         /\ x.state = h.state
      \/ /\ Accepts(c.name, c.value) /\ x.conf = new /\ x.status = "Succeeded"
         /\ x.state = h.state
         /\ x.live = IF c.name = "setband" THEN [h.live EXCEPT !.setband = new.setband]
                     ELSE h.live
  BY <1>0, <1>1, <1>3, <1>4, StepForms
<1>6. x.conf = Assign(h.conf, name, value)
  BY <1>0, <1>1, <1>3, <1>5
<1> QED  BY <1>6

\* The list a server is added to, and its entry.
ListOf(type) == IF type = "Accounting" THEN "acct_servers" ELSE "auth_servers"

\* A RADIUS server as it is in hostapd's list.
Entry(server) ==
    [address |-> server.Address, secret |-> <<server.SharedSecret>>, port |-> server.Port]

\* A port is there or is not.
HasPort(server) == server.Port = <<>> \/ server.Port = <<server.Port[1]>>

\* Lists that agree are one.
LEMMA SameLists ==
    ASSUME NEW s, IsList(s), NEW t, IsList(t), Len(s) = Len(t),
           \A i \in 1 .. Len(s) : s[i] = t[i]
    PROVE  s = t
<1>1. s = [i \in 1 .. Len(s) |-> s[i]] /\ t = [i \in 1 .. Len(t) |-> t[i]]
  BY DEF IsList
<1> QED  BY <1>1

\* Concatenation is associative.
LEMMA Associates ==
    ASSUME NEW s, IsList(s), NEW t, IsList(t), NEW u, IsList(u)
    PROVE  (s \o t) \o u = s \o (t \o u)
<1> DEFINE l == (s \o t) \o u
           r == s \o (t \o u)
           a == s \o t
           b == t \o u
<1>1. Len(s) \in Nat /\ Len(t) \in Nat /\ Len(u) \in Nat
  BY Lists
<1>2. /\ IsList(a) /\ Len(a) = Len(s) + Len(t) /\ \A i \in 1 .. Len(s) : a[i] = s[i]
      /\ \A i \in 1 .. Len(t) : a[Len(s) + i] = t[i]
  BY Concatenation
<1>3. /\ IsList(b) /\ Len(b) = Len(t) + Len(u) /\ \A i \in 1 .. Len(t) : b[i] = t[i]
      /\ \A i \in 1 .. Len(u) : b[Len(t) + i] = u[i]
  BY Concatenation
<1> HIDE DEF a, b
<1>4. /\ IsList(a \o u) /\ Len(a \o u) = Len(a) + Len(u)
      /\ \A i \in 1 .. Len(a) : (a \o u)[i] = a[i]
      /\ \A i \in 1 .. Len(u) : (a \o u)[Len(a) + i] = u[i]
  BY <1>2, Concatenation
<1>5. /\ IsList(s \o b) /\ Len(s \o b) = Len(s) + Len(b)
      /\ \A i \in 1 .. Len(s) : (s \o b)[i] = s[i]
      /\ \A i \in 1 .. Len(b) : (s \o b)[Len(s) + i] = b[i]
  BY <1>3, Concatenation
<1>6. l = a \o u /\ r = s \o b
  BY DEF a, b
<1> HIDE DEF l, r
<1>7. IsList(l) /\ IsList(r) /\ Len(l) = Len(r) /\ Len(l) = Len(s) + Len(t) + Len(u)
  BY <1>1, <1>2, <1>3, <1>4, <1>5, <1>6
<1>8. ASSUME NEW i \in 1 .. Len(l) PROVE l[i] = r[i]
  <2>1. CASE i <= Len(s)
    BY <1>1, <1>2, <1>3, <1>4, <1>5, <1>6, <1>7, <2>1
  <2>2. CASE Len(s) < i /\ i <= Len(s) + Len(t)
    <3> DEFINE j == i - Len(s)
    <3>1. j \in 1 .. Len(t) /\ i = Len(s) + j /\ i \in 1 .. Len(a) /\ j \in 1 .. Len(b)
      BY <1>1, <1>2, <1>3, <1>7, <2>2
    <3> HIDE DEF j
    <3>2. (a \o u)[i] = a[i] /\ a[Len(s) + j] = t[j]
      BY <1>2, <1>4, <3>1
    <3>3. (s \o b)[Len(s) + j] = b[j] /\ b[j] = t[j]
      BY <1>3, <1>5, <3>1
    <3> QED  BY <1>6, <3>1, <3>2, <3>3
  <2>3. CASE Len(s) + Len(t) < i
    <3> DEFINE j == i - (Len(s) + Len(t))
               k == Len(t) + j
    <3>1. /\ j \in 1 .. Len(u) /\ i = Len(a) + j /\ i = Len(s) + k /\ k \in 1 .. Len(b)
          /\ k = Len(t) + j
      BY <1>1, <1>2, <1>3, <1>7, <2>3
    <3> HIDE DEF j, k
    <3>2. (a \o u)[Len(a) + j] = u[j]
      BY <1>4, <3>1
    <3>3. (s \o b)[Len(s) + k] = b[k] /\ b[Len(t) + j] = u[j]
      BY <1>3, <1>5, <3>1
    <3> QED  BY <1>6, <3>1, <3>2, <3>3
  <2> QED  BY <1>1, <1>7, <2>1, <2>2, <2>3
<1>9. l = r
  BY <1>7, <1>8, SameLists
<1> QED  BY <1>9 DEF l, r

\* Two elements are one and one.
LEMMA Two ==
    ASSUME NEW a, NEW b, NEW s, IsList(s)
    PROVE  <<a, b>> \o s = <<a>> \o (<<b>> \o s)
<1> DEFINE p == <<a>>
           q == <<b>>
           t == <<a, b>>
<1>1. IsList(p) /\ IsList(q) /\ Len(p) = 1 /\ Len(q) = 1 /\ p[1] = a /\ q[1] = b
  BY Singles
<1>2. IsList(t) /\ Len(t) = 2 /\ t[1] = a /\ t[2] = b
  BY Several
<1> HIDE DEF p, q, t
<1> DEFINE r == p \o q
<1>3. /\ IsList(r) /\ Len(r) = Len(p) + Len(q) /\ \A i \in 1 .. Len(p) : r[i] = p[i]
      /\ \A i \in 1 .. Len(q) : r[Len(p) + i] = q[i]
  <2>1. IsList(r) /\ Len(r) = Len(p) + Len(q)
    BY <1>1, Concatenation
  <2>2. \A i \in 1 .. Len(p) : r[i] = p[i]
    BY <1>1, Concatenation
  <2>3. \A i \in 1 .. Len(q) : r[Len(p) + i] = q[i]
    BY <1>1, Concatenation, SMTT(60)
  <2> QED  BY <2>1, <2>2, <2>3
<1> HIDE DEF r
<1>4. r[1] = a /\ r[2] = b /\ Len(r) = 2
  <2>1. 1 \in 1 .. Len(p) /\ 1 \in 1 .. Len(q) /\ Len(p) + 1 = 2
    BY <1>1
  <2>2. r[1] = p[1] /\ r[Len(p) + 1] = q[1]
    BY <1>3, <2>1
  <2> QED  BY <1>1, <1>3, <2>1, <2>2
<1>5. \A i \in 1 .. 2 : t[i] = r[i]
  <2>1. \A i \in 1 .. 2 : i = 1 \/ i = 2
    OBVIOUS
  <2> QED  BY <1>2, <1>4, <2>1
<1>6. t = p \o q
  BY <1>2, <1>3, <1>4, <1>5, SameLists DEF r
<1>7. t \o s = p \o (q \o s)
  BY <1>1, <1>6, Associates
<1> QED  BY <1>7 DEF p, q, t

\* What an address, a secret and a port add to a configuration.
LEMMA ServerAssigned ==
    ASSUME NEW conf, conf = [name \in PropertyNames |-> conf[name]], HasServers(conf),
           NEW type \in {"Authentication", "Accounting"}, NEW names,
           names = GetRadiusEndpointPropertyNames(type), NEW list, list = ListOf(type),
           NEW address, NEW secret, NEW port,
           NEW a, a = Assign(conf, names.address, address),
           NEW b, b = Assign(a, names.secret, secret),
           NEW c, c = Assign(b, names.port, port)
    PROVE  /\ b[list] = Added(conf[list], [address |-> address, secret |-> <<secret>>,
                                           port |-> <<>>])
           /\ c[list] = Added(conf[list], [address |-> address, secret |-> <<secret>>,
                                           port |-> <<port>>])
           /\ \A p \in PropertyNames : p # list => b[p] = conf[p] /\ c[p] = conf[p]
<1> DEFINE entry == [address |-> address, secret |-> <<>>, port |-> <<>>]
           entry2 == [address |-> address, secret |-> <<secret>>, port |-> <<>>]
           entry3 == [address |-> address, secret |-> <<secret>>, port |-> <<port>>]
           old == conf[list]
<1>1. list \in PropertyNames /\ IsList(old)
  BY DEF ListOf, PropertyNames, HasServers
<1>2. /\ a = [conf EXCEPT ![list] = Append(conf[list], entry)]
      /\ b = [a EXCEPT ![list][Len(a[list])]["secret"] = <<secret>>]
      /\ c = [b EXCEPT ![list][Len(b[list])]["port"] = <<port>>]
  <2>1. CASE type = "Authentication"
    <3>1. /\ list = "auth_servers" /\ names.address = "auth_server_addr"
          /\ names.secret = "auth_server_shared_secret" /\ names.port = "auth_server_port"
      BY <2>1 DEF ListOf, GetRadiusEndpointPropertyNames
    <3>2. a = [conf EXCEPT !["auth_servers"] = Append(conf["auth_servers"], entry)]
      BY <3>1, <1>1 DEF Assign
    <3>3. b = [a EXCEPT !["auth_servers"][Len(a["auth_servers"])]["secret"] = <<secret>>]
      BY <3>1 DEF Assign
    <3>4. c = [b EXCEPT !["auth_servers"][Len(b["auth_servers"])]["port"] = <<port>>]
      BY <3>1 DEF Assign
    <3> QED  BY <3>1, <3>2, <3>3, <3>4
  <2>2. CASE type = "Accounting"
    <3>1. /\ list = "acct_servers" /\ names.address = "acct_server_addr"
          /\ names.secret = "acct_server_shared_secret" /\ names.port = "acct_server_port"
      BY <2>2 DEF ListOf, GetRadiusEndpointPropertyNames
    <3>2. a = [conf EXCEPT !["acct_servers"] = Append(conf["acct_servers"], entry)]
      BY <3>1, <1>1 DEF Assign
    <3>3. b = [a EXCEPT !["acct_servers"][Len(a["acct_servers"])]["secret"] = <<secret>>]
      BY <3>1 DEF Assign
    <3>4. c = [b EXCEPT !["acct_servers"][Len(b["acct_servers"])]["port"] = <<port>>]
      BY <3>1 DEF Assign
    <3> QED  BY <3>1, <3>2, <3>3, <3>4
  <2> QED  BY <2>1, <2>2
<1> DEFINE theSecret == <<secret>>
           thePort == <<port>>
           none == <<>>
<1>3. [entry EXCEPT !["secret"] = theSecret] = entry2
      /\ [entry2 EXCEPT !["port"] = thePort] = entry3
  <2>1. /\ entry = [address |-> address, secret |-> none, port |-> none]
        /\ entry2 = [address |-> address, secret |-> theSecret, port |-> none]
        /\ entry3 = [address |-> address, secret |-> theSecret, port |-> thePort]
    OBVIOUS
  <2> HIDE DEF entry, entry2, entry3, theSecret, thePort, none
  <2>2. [entry EXCEPT !["secret"] = theSecret] = entry2
    BY <2>1
  <2>3. [entry2 EXCEPT !["port"] = thePort] = entry3
    BY <2>1
  <2> QED  BY <2>2, <2>3
<1> HIDE DEF entry, entry2, entry3, theSecret, thePort
<1>4. a = [name \in PropertyNames |-> a[name]] /\ a[list] = Added(old, entry)
      /\ \A p \in PropertyNames : p # list => a[p] = conf[p]
  <2>1. Append(conf[list], entry) = Added(old, entry)
    BY <1>1, Adds
  <2> QED  BY <1>1, <1>2, <2>1
<1>5. b = [name \in PropertyNames |-> b[name]] /\ b[list] = Added(old, entry2)
      /\ \A p \in PropertyNames : p # list => b[p] = a[p]
  <2> DEFINE u == a[list]
             v == [u EXCEPT ![Len(u)]["secret"] = theSecret]
  <2>1. v = Added(old, entry2)
    <3>1. u = Added(old, entry)
      BY <1>4
    <3> HIDE DEF u, old, v
    <3>2. v = LastWith(u, "secret", theSecret) /\ entry2 = With(entry, "secret", theSecret)
      BY <1>3 DEF LastWith, With, v
    <3>3. LastWith(Added(old, entry), "secret", theSecret) =
            Added(old, With(entry, "secret", theSecret))
      BY <1>1, LastChanged
    <3> QED  BY <3>1, <3>2, <3>3
  <2>2. b = [a EXCEPT ![list] = v]
    BY <1>2 DEF theSecret, thePort
  <2> HIDE DEF v
  <2> QED  BY <1>1, <1>4, <2>1, <2>2
<1>6. c[list] = Added(old, entry3) /\ \A p \in PropertyNames : p # list => c[p] = b[p]
  <2> DEFINE u == b[list]
             v == [u EXCEPT ![Len(u)]["port"] = thePort]
  <2>1. v = Added(old, entry3)
    <3>1. u = Added(old, entry2)
      BY <1>5
    <3> HIDE DEF u, old, v
    <3>2. v = LastWith(u, "port", thePort) /\ entry3 = With(entry2, "port", thePort)
      BY <1>3 DEF LastWith, With, v
    <3>3. LastWith(Added(old, entry2), "port", thePort) = Added(old, With(entry2, "port", thePort))
      BY <1>1, LastChanged
    <3> QED  BY <3>1, <3>2, <3>3
  <2>2. c = [b EXCEPT ![list] = v]
    BY <1>2 DEF theSecret, thePort
  <2> HIDE DEF v
  <2> QED  BY <1>1, <1>5, <2>1, <2>2
<1> QED  BY <1>4, <1>5, <1>6 DEF entry2, entry3, old

\* The commands that add a server.
Spelled(server, s, names) ==
    s # Throw => /\ server.Type \in {"Authentication", "Accounting"}
                 /\ s = <<Set(names.address, server.Address)>>
                        \o (<<Set(names.secret, server.SharedSecret)>>
                            \o IF server.Port = <<>> THEN <<>>
                               ELSE <<Set(names.port, server.Port[1])>>)

\* AddRadiusEndpoint: its commands spell one server.
LEMMA ServerCommands ==
    ASSUME NEW server, server.Type \in {"Authentication", "Accounting", "Unknown"}, HasPort(server),
           NEW s, s = AddRadiusEndpoint(server),
           NEW names, names = GetRadiusEndpointPropertyNames(server.Type)
    PROVE  /\ Within(s, {"auth_servers", "acct_servers"})
           /\ Spelled(server, s, names)
<1> DEFINE a == Set(names.address, server.Address)
           b == Set(names.secret, server.SharedSecret)
           c == Set(names.port, server.Port[1])
           rest == IF server.Port = <<>> THEN <<>> ELSE <<c>>
           throws == server.Type = "Unknown" \/ server.Address = "" \/ server.SharedSecret = ""
           P == {"auth_servers", "acct_servers"}
<1>1. s = IF throws THEN Throw ELSE <<a, b>> \o rest
  BY DEF AddRadiusEndpoint
<1>2. Within(Throw, P) /\ Within(<<>>, P)
  BY WithinSmall
<1>3. ~throws => server.Type \in {"Authentication", "Accounting"}
  OBVIOUS
<1>4. ASSUME server.Type \in {"Authentication", "Accounting"}
      PROVE  Within(<<a>>, P) /\ Within(<<b>>, P) /\ Within(<<c>>, P)
  <2>1. /\ names.address \in {"auth_server_addr", "acct_server_addr"}
        /\ names.secret \in {"auth_server_shared_secret", "acct_server_shared_secret"}
        /\ names.port \in {"auth_server_port", "acct_server_port"}
    BY <1>4 DEF GetRadiusEndpointPropertyNames
  <2>2. /\ Property(names.address) \in P /\ Property(names.secret) \in P
        /\ Property(names.port) \in P
    BY <2>1 DEF Property
  <2> HIDE DEF P
  <2> QED  BY <2>2, WithinSmall
<1> HIDE DEF a, b, c, P
<1>5. <<a, b>> \o rest = <<a>> \o (<<b>> \o rest)
  <2>1. IsList(rest)
    BY Singles
  <2> HIDE DEF rest
  <2> QED  BY <2>1, Two
<1>6. ASSUME ~throws PROVE Within(<<a>> \o (<<b>> \o rest), P)
  <2>1. Within(<<a>>, P) /\ Within(<<b>>, P) /\ Within(<<c>>, P)
    BY <1>3, <1>4, <1>6
  <2>2. Within(rest, P)
    BY <1>2, <2>1
  <2> HIDE DEF rest
  <2>3. Within(<<b>> \o rest, P)
    BY <2>1, <2>2, WithinConcatenation
  <2> QED  BY <2>1, <2>3, WithinConcatenation
<1> HIDE DEF rest, throws
<1>7. Within(s, P)
  BY <1>1, <1>2, <1>5, <1>6
<1>8. s # Throw => server.Type \in {"Authentication", "Accounting"} /\ s = <<a>> \o (<<b>> \o rest)
  BY <1>1, <1>3, <1>5
<1>9. Spelled(server, s, names)
  BY <1>8 DEF Spelled, a, b, c, rest
<1> QED  BY <1>7, <1>9 DEF P

\* What they add.
LEMMA ServerAdded ==
    ASSUME NEW server, server.Type \in {"Authentication", "Accounting", "Unknown"}, HasPort(server),
           NEW h, NEW x, Done(h, AddRadiusEndpoint(server), x), HasServers(h.conf),
           NEW list, list = ListOf(server.Type)
    PROVE  /\ x.conf[list] = Added(h.conf[list], Entry(server))
           /\ \A p \in PropertyNames : p # list => x.conf[p] = h.conf[p]
<1> DEFINE names == GetRadiusEndpointPropertyNames(server.Type)
           s == AddRadiusEndpoint(server)
           a == Set(names.address, server.Address)
           b == Set(names.secret, server.SharedSecret)
           c == Set(names.port, server.Port[1])
           rest == IF server.Port = <<>> THEN <<>> ELSE <<c>>
<1>1. s # Throw
  BY DonePasses, Impassable
<1>2. server.Type \in {"Authentication", "Accounting"} /\ s = <<a>> \o (<<b>> \o rest)
  <2> HIDE DEF s, names
  <2>1. s = AddRadiusEndpoint(server) /\ names = GetRadiusEndpointPropertyNames(server.Type)
    BY DEF s, names
  <2>2. Spelled(server, s, names)
    BY <2>1, ServerCommands
  <2> QED  BY <1>1, <2>2 DEF Spelled
<1>3. IsList(rest) /\ IsList(<<a>>) /\ IsList(<<b>>) /\ IsList(<<b>> \o rest)
  <2> HIDE DEF a, b, c
  <2>1. IsList(rest) /\ IsList(<<a>>) /\ IsList(<<b>>)
    BY Singles
  <2> HIDE DEF rest
  <2> QED  BY <2>1, Concatenation
<1>4. PICK y, z : Done(h, <<a>>, y) /\ Done(y, <<b>>, z) /\ Done(z, rest, x)
  <2> HIDE DEF a, b, rest, s
  <2>1. Done(h, <<a>> \o (<<b>> \o rest), x)
    BY <1>2 DEF s
  <2>2. PICK y : Done(h, <<a>>, y) /\ Done(y, <<b>> \o rest, x)
    BY <1>3, <2>1, RanConcatenation
  <2>3. PICK z : Done(y, <<b>>, z) /\ Done(z, rest, x)
    BY <1>3, <2>2, RanConcatenation
  <2> QED  BY <2>2, <2>3
<1> DEFINE A == Assign(h.conf, names.address, server.Address)
           B == Assign(A, names.secret, server.SharedSecret)
           C == Assign(B, names.port, server.Port[1])
<1>5. h.conf = [p \in PropertyNames |-> h.conf[p]] /\ y.conf = A /\ z.conf = B
  <2>1. h.conf = [p \in PropertyNames |-> h.conf[p]] /\ y.conf = A
    <3>1. Typed(h)
      BY <1>4, RanTyped DEF Done
    <3>2. y.conf = A
      BY <1>4, DoneWrites
    <3> QED  BY <3>1, <3>2 DEF Typed
  <2>2. z.conf = Assign(y.conf, names.secret, server.SharedSecret)
    <3> DEFINE name == names.secret
               value == server.SharedSecret
    <3>1. Done(y, <<Set(name, value)>>, z)
      BY <1>4
    <3> HIDE DEF name, value
    <3>2. z.conf = Assign(y.conf, name, value)
      BY <3>1, DoneWrites
    <3> QED  BY <3>2 DEF name, value
  <2> QED  BY <2>1, <2>2
<1>6. x.conf = IF server.Port = <<>> THEN B ELSE C
  <2>1. CASE server.Port = <<>>
    <3>1. Ran(z, <<>>, x)
      BY <1>4, <2>1 DEF Done
    <3> QED  BY <1>5, <2>1, <3>1, DoneSmall
  <2>2. CASE server.Port # <<>>
    <3>1. Done(z, <<c>>, x)
      BY <1>4, <2>2
    <3>2. x.conf = Assign(z.conf, names.port, server.Port[1])
      <4> DEFINE name == names.port
                 value == server.Port[1]
      <4>1. Done(z, <<Set(name, value)>>, x)
        BY <3>1
      <4> HIDE DEF name, value
      <4>2. x.conf = Assign(z.conf, name, value)
        BY <4>1, DoneWrites
      <4> QED  BY <4>2 DEF name, value
    <3>3. x.conf = C
      BY <1>5, <3>2
    <3> QED  BY <2>2, <3>3
  <2> QED  BY <2>1, <2>2
<1> DEFINE without == [address |-> server.Address, secret |-> <<server.SharedSecret>>,
                       port |-> <<>>]
           with == [address |-> server.Address, secret |-> <<server.SharedSecret>>,
                    port |-> <<server.Port[1]>>]
           old == h.conf
<1>7. /\ B[list] = Added(old[list], without) /\ C[list] = Added(old[list], with)
      /\ \A p \in PropertyNames : p # list => B[p] = old[p] /\ C[p] = old[p]
  <2> HIDE DEF names, A, B, C, old
  <2>1. /\ names = GetRadiusEndpointPropertyNames(server.Type)
        /\ A = Assign(old, names.address, server.Address)
        /\ B = Assign(A, names.secret, server.SharedSecret)
        /\ C = Assign(B, names.port, server.Port[1])
        /\ old = [p \in PropertyNames |-> old[p]] /\ HasServers(old)
    BY <1>5 DEF names, A, B, C, old
  <2> QED  BY <1>2, <2>1, ServerAssigned, SMTT(30)
<1>8. Entry(server) = IF server.Port = <<>> THEN without ELSE with
  BY DEF Entry, HasPort
<1> HIDE DEF A, B, C, without, with
<1> QED  BY <1>6, <1>7, <1>8 DEF old

\* hostapd's entry of a server that was asked for.
Said(server) ==
    [address |-> server.address, secret |-> <<server.secret>>, port |-> server.port]

\* A list ends with those servers.
EndsWith(old, new, servers) ==
    /\ IsList(old) /\ IsList(new) /\ IsList(servers) /\ Len(new) = Len(old) + Len(servers)
    /\ \A i \in 1 .. Len(servers) : new[Len(old) + i] = Said(servers[i])

\* One more server.
LEMMA EndsMore ==
    ASSUME NEW old, NEW new, NEW servers, EndsWith(old, new, servers), NEW server
    PROVE  EndsWith(old, Added(new, Said(server)), servers \o <<server>>)
<1> DEFINE more == servers \o <<server>>
           added == Added(new, Said(server))
           one == <<server>>
<1>1. /\ Len(old) \in Nat /\ Len(new) \in Nat /\ Len(servers) \in Nat
      /\ IsList(old) /\ IsList(new) /\ IsList(servers)
  BY Lists DEF EndsWith
<1>2. IsList(one) /\ Len(one) = 1 /\ one[1] = server
  BY Singles
<1>3. IsList(added) /\ Len(added) = Len(new) + 1
  BY <1>1, Adds
<1>4. /\ \A i \in 1 .. Len(new) : added[i] = new[i]
      /\ added[Len(new) + 1] = Said(server)
  BY <1>1 DEF Added
<1> HIDE DEF one, added
<1>5. more = servers \o one
  BY DEF one
<1> HIDE DEF more
<1>6. IsList(more) /\ Len(more) = Len(servers) + 1
  <2>1. IsList(more)
    BY <1>1, <1>2, <1>5, Concatenation
  <2>2. Len(more) = Len(servers) + Len(one)
    BY <1>1, <1>2, <1>5, Concatenation
  <2> QED  BY <1>2, <2>1, <2>2
<1>7. \A i \in 1 .. Len(servers) : more[i] = servers[i]
  BY <1>1, <1>2, <1>5, Concatenation
<1>10. more[Len(servers) + 1] = server
  <2>1. 1 \in 1 .. Len(one)
    BY <1>2
  <2>a. IsList(servers) /\ IsList(one)
    BY <1>1, <1>2
  <2>b. \A i \in 1 .. Len(one) : (servers \o one)[Len(servers) + i] = one[i]
    BY ONLY <2>a, Concatenation
  <2>2. \A i \in 1 .. Len(one) : more[Len(servers) + i] = one[i]
    BY ONLY <1>5, <2>b
  <2>3. more[Len(servers) + 1] = one[1]
    BY <2>1, <2>2
  <2> QED  BY <1>2, <2>3
<1>8. Len(added) = Len(old) + Len(more)
  BY <1>1, <1>3, <1>6 DEF EndsWith
<1>9. ASSUME NEW i \in 1 .. Len(more) PROVE added[Len(old) + i] = Said(more[i])
  <2>1. CASE i \in 1 .. Len(servers)
    <3> DEFINE k == Len(old) + i
    <3>1. k \in 1 .. Len(new) /\ new[k] = Said(servers[i])
      BY <1>1, <2>1 DEF EndsWith
    <3> HIDE DEF k
    <3>2. added[k] = Said(servers[i])
      BY <1>4, <3>1
    <3> QED  BY <1>7, <2>1, <3>2 DEF k
  <2>2. CASE i = Len(servers) + 1
    <3>1. Len(old) + i = Len(new) + 1
      BY <1>1, <2>2 DEF EndsWith
    <3>2. added[Len(old) + i] = Said(server)
      BY <1>4, <3>1
    <3> QED  BY <1>10, <2>2, <3>2
  <2> QED  BY <1>1, <1>6, <2>1, <2>2
<1> QED  BY <1>1, <1>3, <1>6, <1>8, <1>9 DEF EndsWith, added, more

\* AddRadiusEndpoint writes the lists of servers only.
LEMMA ServerWithin ==
    ASSUME NEW server, server.Type \in {"Authentication", "Accounting", "Unknown"}, HasPort(server)
    PROVE  Within(AddRadiusEndpoint(server), {"auth_servers", "acct_servers"})
<1> DEFINE s == AddRadiusEndpoint(server)
           names == GetRadiusEndpointPropertyNames(server.Type)
<1>1. s = AddRadiusEndpoint(server) /\ names = GetRadiusEndpointPropertyNames(server.Type)
  OBVIOUS
<1> HIDE DEF s, names
<1>2. Within(s, {"auth_servers", "acct_servers"})
  BY <1>1, ServerCommands
<1> QED  BY <1>2 DEF s

\* The servers of a list among those asked for.
OfList(asked, list) == [i \in DOMAIN asked |-> IF asked[i].list = list THEN <<asked[i]>> ELSE <<>>]

\* The servers wanted are the last of their list.
ListGiven(wanted, list, conf) ==
    LET before == Len(conf[list]) - Len(wanted)
    IN  /\ before >= 0
        /\ \A i \in DOMAIN wanted :
              conf[list][before + i] = [address |-> wanted[i].address,
                                        secret |-> <<wanted[i].secret>>,
                                        port |-> wanted[i].port]

\* A list that ends with the servers that were asked for gives them.
LEMMA EndsGiven ==
    ASSUME NEW asked, NEW conf,
           \A list \in {"auth_servers", "acct_servers"} :
              \E old : EndsWith(old, conf[list], FlattenSeq(OfList(asked, list)))
    PROVE  Dot1xGiven(asked, conf)
<1>a. Dot1xGiven(asked, conf) <=>
          \A list \in {"auth_servers", "acct_servers"} :
              ListGiven(FlattenSeq(OfList(asked, list)), list, conf)
  BY DEF Dot1xGiven, OfList, ListGiven
<1> SUFFICES ASSUME NEW list \in {"auth_servers", "acct_servers"}, NEW wanted,
                    wanted = FlattenSeq(OfList(asked, list)), NEW before,
                    before = Len(conf[list]) - Len(wanted)
             PROVE  /\ before >= 0
                    /\ \A i \in DOMAIN wanted :
                          conf[list][before + i] = [address |-> wanted[i].address,
                                                    secret |-> <<wanted[i].secret>>,
                                                    port |-> wanted[i].port]
  BY <1>a DEF ListGiven
<1>1. PICK old : EndsWith(old, conf[list], wanted)
  OBVIOUS
<1>2. Len(old) \in Nat /\ Len(wanted) \in Nat /\ DOMAIN wanted = 1 .. Len(wanted)
  BY <1>1, Lists DEF EndsWith
<1>3. before = Len(old)
  BY <1>1, <1>2 DEF EndsWith
<1>4. before >= 0
  BY <1>2, <1>3
<1>5. ASSUME NEW i \in DOMAIN wanted
      PROVE  conf[list][before + i] = [address |-> wanted[i].address,
                                       secret |-> <<wanted[i].secret>>,
                                       port |-> wanted[i].port]
  <2>1. i \in 1 .. Len(wanted)
    BY <1>2
  <2>2. conf[list][Len(old) + i] = Said(wanted[i])
    BY <1>1, <2>1 DEF EndsWith
  <2> QED  BY <1>3, <2>2 DEF Said
<1> QED  BY <1>4, <1>5

\* All servers of a list of them.
Asking(server) == Server(ListOf(server.Type), server.Address, server.SharedSecret, server.Port)

\* SetRadiusConfiguration: the servers are added at the end of their lists, in order.
LEMMA ServersAdded ==
    ASSUME NEW servers, IsList(servers), servers # <<>>,
           \A i \in DOMAIN servers :
              servers[i].Type \in {"Authentication", "Accounting", "Unknown"}
               /\ HasPort(servers[i]),
           NEW asked, asked = [i \in DOMAIN servers |-> Asking(servers[i])],
           NEW ss, ss = [i \in DOMAIN servers |-> AddRadiusEndpoint(servers[i])],
           NEW h, NEW x, Done(h, FlattenSeq(ss), x), HasServers(h.conf),
           NEW list \in {"auth_servers", "acct_servers"}
    PROVE  EndsWith(h.conf[list], x.conf[list], FlattenSeq(OfList(asked, list)))
<1> DEFINE n == Len(servers)
           of == OfList(asked, list)
<1>1. n \in Nat /\ n # 0 /\ DOMAIN servers = 1 .. n
  BY Lists
<1>2. /\ IsList(asked) /\ DOMAIN asked = DOMAIN servers
      /\ IsList(ss) /\ DOMAIN ss = DOMAIN servers /\ Len(ss) = n
  BY Mapped
<1>3. IsList(of) /\ DOMAIN of = DOMAIN servers /\ Len(of) = n
  <2>1. of = [i \in DOMAIN asked |-> of[i]]
    BY DEF OfList
  <2> HIDE DEF of
  <2>2. IsList(of) /\ DOMAIN of = DOMAIN asked /\ Len(of) = Len(asked) /\ Len(asked) = n
    BY <1>2, <2>1, Mapped
  <2> QED  BY <1>2, <2>2
<1>4. of # <<>>
  BY <1>1, <1>3
<1>5. \A i \in 1 .. n : of[i] = IF asked[i].list = list THEN <<asked[i]>> ELSE <<>>
  BY <1>1, <1>2 DEF OfList
<1> HIDE DEF of
<1>6. PICK f : Flattened(f, of, n) /\ FlattenSeq(of) = f[n]
  BY <1>3, <1>4, FlattenSteps
<1>7. \A i \in DOMAIN ss : Within(ss[i], {"auth_servers", "acct_servers"}) /\ IsList(ss[i])
  <2> SUFFICES ASSUME NEW i \in DOMAIN ss
               PROVE  Within(ss[i], {"auth_servers", "acct_servers"}) /\ IsList(ss[i])
    OBVIOUS
  <2> DEFINE server == servers[i]
  <2>1. ss[i] = AddRadiusEndpoint(server) /\ HasPort(server)
        /\ server.Type \in {"Authentication", "Accounting", "Unknown"}
    BY <1>2
  <2> HIDE DEF server
  <2>3. Within(AddRadiusEndpoint(server), {"auth_servers", "acct_servers"})
    BY <2>1, ServerWithin
  <2> QED  BY <2>1, <2>3 DEF Within
<1>8. PICK st : /\ st[0] = h /\ st[n] = x /\ Chained(st, ss)
                /\ \A i \in 0 .. n : st[i].status = "Succeeded"
  <2>1. Ran(h, FlattenSeq(ss), x) /\ x.status = "Succeeded"
    BY DEF Done
  <2>2. IsList(ss) /\ \A i \in DOMAIN ss : IsList(ss[i])
    BY <1>2, <1>7
  <2>3. PICK st : Through(st, ss, h, x)
    BY <2>1, <2>2, Chain
  <2>4. Len(ss) = n
    BY <1>2
  <2> HIDE DEF n
  <2> QED  BY <2>1, <2>3, <2>4 DEF Through
<1>9. ASSUME NEW i \in 1 .. n PROVE Done(st[i - 1], AddRadiusEndpoint(servers[i]), st[i])
  BY <1>1, <1>2, <1>8, <1>9 DEF Chained, Done
<1> DEFINE S == {i \in 0 .. n : /\ HasServers(st[i].conf)
                                /\ EndsWith(h.conf[list], st[i].conf[list],
                                            IF i = 0 THEN <<>> ELSE f[i])}
<1>10. 0 \in S
  <2> DEFINE old == h.conf[list]
  <2>1. IsList(old)
    BY DEF HasServers
  <2> HIDE DEF old
  <2>2. Len(old) \in Nat /\ IsList(<<>>) /\ Len(<<>>) = 0
    BY <2>1, Lists, Singles
  <2>3. EndsWith(old, old, <<>>)
    BY <2>1, <2>2 DEF EndsWith
  <2> QED  BY <1>1, <1>8, <2>3 DEF old
<1>11. ASSUME NEW i \in 0 .. n - 1, i \in S PROVE i + 1 \in S
  <2> DEFINE l == i + 1
             before == IF i = 0 THEN <<>> ELSE f[i]
             old == h.conf[list]
             server == servers[l]
  <2>1. l \in 1 .. n /\ l \in 0 .. n /\ l - 1 = i /\ i \in Nat /\ l # 0
    BY <1>1
  <2>2. HasServers(st[i].conf) /\ EndsWith(old, st[i].conf[list], before)
    BY <1>11
  <2>3. f[l] = before \o of[l]
    <3>0. l = 1 <=> i = 0
      BY <2>1
    <3>1. (l = 1 => f[l] = of[l]) /\ (l # 1 => f[l] = f[i] \o of[l])
      <4> HIDE DEF l
      <4> QED  BY <1>6, <2>1 DEF Flattened
    <3>2. CASE i = 0
      <4>1. f[l] = of[l] /\ before = <<>>
        BY <3>0, <3>1, <3>2
      <4>2. of[l] = <<>> \/ of[l] = <<asked[l]>>
        BY <1>5, <2>1
      <4>3. \A e : <<>> \o <<e>> = <<e>>
        OBVIOUS
      <4>4. <<>> \o <<>> = <<>>
        OBVIOUS
      <4> HIDE DEF l
      <4> QED  BY <4>1, <4>2, <4>3, <4>4
    <3>3. CASE i # 0
      BY <3>0, <3>1, <3>3
    <3> QED  BY <3>2, <3>3
  <2> HIDE DEF l
  <2>4. Done(st[i], AddRadiusEndpoint(server), st[l])
    BY <1>9, <2>1
  <2>5. server.Type \in {"Authentication", "Accounting", "Unknown"} /\ HasPort(server)
        /\ asked[l] = Asking(server)
    BY <1>1, <2>1
  <2> HIDE DEF server
  <2>6. HasServers(st[l].conf)
    BY <2>2, <2>4, RanServers DEF Done
  <2>7. /\ st[l].conf[ListOf(server.Type)] = Added(st[i].conf[ListOf(server.Type)], Entry(server))
        /\ \A p \in PropertyNames : p # ListOf(server.Type) => st[l].conf[p] = st[i].conf[p]
    BY <2>2, <2>4, <2>5, ServerAdded
  <2>8. asked[l].list = ListOf(server.Type) /\ Said(asked[l]) = Entry(server)
      <3> DEFINE type == server.Type
               secret == server.SharedSecret
               a == asked[l]
               list2 == ListOf(type)
    <3>1. /\ a.list = list2 /\ a.address = server.Address /\ a.secret = secret
          /\ a.port = server.Port
      <4> HIDE DEF a, list2
      <4>1. a = Asking(server)
        BY <2>5 DEF a
      <4> QED  BY <4>1 DEF Asking, Server, list2
    <3> HIDE DEF a, list2
    <3>2. Said(a) = Entry(server)
      BY <3>1 DEF Said, Entry
    <3> QED  BY <3>1, <3>2 DEF a, list2
  <2>9. EndsWith(old, st[l].conf[list], f[l])
    <3>1. CASE asked[l].list = list
      <4>1. f[l] = before \o <<asked[l]>>
        BY <1>5, <2>1, <2>3, <3>1
      <4>2. st[l].conf[list] = Added(st[i].conf[list], Said(asked[l]))
        BY <2>7, <2>8, <3>1
      <4> HIDE DEF before, old
      <4> QED  BY <2>2, <4>1, <4>2, EndsMore
    <3>2. CASE asked[l].list # list
      <4>1. IsList(before)
        BY <2>2 DEF EndsWith
      <4>2. f[l] = before \o <<>>
        BY <1>5, <2>1, <2>3, <3>2
      <4> HIDE DEF before, old
      <4>3. f[l] = before
        <5>1. IsList(<<>>) /\ Len(<<>>) = 0 /\ Len(before) \in Nat
          BY <4>1, Singles, Lists
        <5>2. IsList(f[l]) /\ Len(f[l]) = Len(before) + Len(<<>>)
          BY <4>1, <4>2, <5>1, Concatenation
        <5>3. \A j \in 1 .. Len(before) : f[l][j] = before[j]
          BY <4>1, <4>2, <5>1, Concatenation
        <5> QED  BY <4>1, <5>1, <5>2, <5>3, SameLists
      <4>4. list \in PropertyNames
        BY DEF PropertyNames
      <4>5. st[l].conf[list] = st[i].conf[list]
        BY <2>7, <2>8, <3>2, <4>4
      <4> QED  BY <2>2, <4>3, <4>5
    <3> QED  BY <3>1, <3>2
  <2>10. l \in S
    BY <2>1, <2>6, <2>9
  <2> QED  BY <2>10 DEF l
<1>12. n \in S
  <2>1. n \in 0 .. n
    BY <1>1
  <2> HIDE DEF S
  <2> QED  BY <1>1, <1>10, <1>11, <2>1, Induction
<1>13. EndsWith(h.conf[list], x.conf[list], f[n])
  BY <1>1, <1>8, <1>12
<1> QED  BY <1>6, <1>13 DEF of

\* A server of a request as hostapd's controller takes it, and as it was asked for.
From(server) == FromServiceDot1xRadiusServerEndpointConfiguration(server)

\* The conversion of a server for hostapd.
Convert(server) ==
    Ieee8021xRadiusServerEndpointConfigurationToWpaRadiusEndpointConfiguration(server)

\* A server as its client asks for it.
Wanted(s) ==
    Server(IF s.endpoint = "Dot1xRadiusServerEndpointAccounting" THEN "acct_servers"
           ELSE "auth_servers",
           s.address, s.sharedSecret, IF s.port = 0 THEN <<>> ELSE <<s.port % 2^16>>)

\* The server hostapd is told of is the one that was asked for.
LEMMA ServerTaken ==
    ASSUME NEW s, NEW server, server = Convert(From(s))
    PROVE  /\ server.Type \in {"Authentication", "Accounting", "Unknown"}
           /\ HasPort(server) /\ Asking(server) = Wanted(s)
<1> DEFINE from == From(s)
           port == IF s.port = 0 THEN <<>> ELSE <<s.port % 2^16>>
           number == s.port % 2^16
           type == FromServiceDot1xRadiusServerEndpoint(s.endpoint)
           taken == Ieee8021xRadiusEndpointTypeToWpaRadiusEndpointType(type)
<1>0. port = <<>> \/ port = <<number>>
  OBVIOUS
<1> HIDE DEF number
<1>1. port = <<>> \/ port = <<port[1]>>
  BY <1>0
<1>2. from = [Type |-> type, Address |-> s.address, Port |-> port, SharedSecret |-> s.sharedSecret]
  BY DEF From, FromServiceDot1xRadiusServerEndpointConfiguration
<1> HIDE DEF port, from
<1>3. type = IF s.endpoint = "Dot1xRadiusServerEndpointAuthentication" THEN "Authentication"
             ELSE IF s.endpoint = "Dot1xRadiusServerEndpointAccounting" THEN "Accounting"
             ELSE "Unknown"
  <2> DEFINE table == [Dot1xRadiusServerEndpointAuthentication |-> "Authentication",
                       Dot1xRadiusServerEndpointAccounting |-> "Accounting"]
  <2>1. type = IF s.endpoint \in DOMAIN table THEN table[s.endpoint] ELSE "Unknown"
    BY DEF FromServiceDot1xRadiusServerEndpoint, Switch
  <2>2. DOMAIN table = {"Dot1xRadiusServerEndpointAuthentication",
                        "Dot1xRadiusServerEndpointAccounting"}
        /\ table["Dot1xRadiusServerEndpointAuthentication"] = "Authentication"
        /\ table["Dot1xRadiusServerEndpointAccounting"] = "Accounting"
    OBVIOUS
  <2> HIDE DEF table, type
  <2> QED  BY <2>1, <2>2
<1> HIDE DEF type
<1>4. taken = type /\ type \in {"Authentication", "Accounting", "Unknown"}
  BY <1>3 DEF Ieee8021xRadiusEndpointTypeToWpaRadiusEndpointType
<1>5. server = [from EXCEPT !.Type = taken]
  BY <1>2 DEF Convert, taken, from,
     Ieee8021xRadiusServerEndpointConfigurationToWpaRadiusEndpointConfiguration
<1> HIDE DEF taken
<1>6. /\ server.Type = type /\ server.Address = s.address /\ server.Port = port
      /\ server.SharedSecret = s.sharedSecret
  BY <1>2, <1>4, <1>5
<1>7. ListOf(type) = IF s.endpoint = "Dot1xRadiusServerEndpointAccounting" THEN "acct_servers"
                     ELSE "auth_servers"
  BY <1>3 DEF ListOf
<1>8. Asking(server) = Wanted(s)
  <2>1. Asking(server) = Server(ListOf(type), s.address, s.sharedSecret, port)
    BY <1>6 DEF Asking
  <2>2. Wanted(s) = Server(ListOf(type), s.address, s.sharedSecret, port)
    BY <1>7 DEF Wanted, port
  <2> QED  BY <2>1, <2>2
<1> QED  BY <1>1, <1>4, <1>6, <1>8 DEF HasPort

\* The servers of a list as the service takes them.
Taken(s) == [i \in DOMAIN s |-> From(s[i])]

\* One after another.
LEMMA TakenMore ==
    ASSUME NEW s, IsList(s), NEW t, IsList(t)
    PROVE  Taken(s) \o Taken(t) = Taken(s \o t)
<1> DEFINE l == Taken(s) \o Taken(t)
           all == s \o t
           r == Taken(all)
           a == Taken(s)
           b == Taken(t)
<1>1. IsList(a) /\ DOMAIN a = DOMAIN s /\ Len(a) = Len(s)
  BY Mapped DEF Taken
<1>2. IsList(b) /\ DOMAIN b = DOMAIN t /\ Len(b) = Len(t)
  BY Mapped DEF Taken
<1>3. IsList(all) /\ Len(all) = Len(s) + Len(t)
  BY Concatenation
<1>4. /\ \A i \in 1 .. Len(s) : all[i] = s[i]
      /\ \A i \in 1 .. Len(t) : all[Len(s) + i] = t[i]
  BY Concatenation
<1> HIDE DEF all
<1>5. IsList(r) /\ DOMAIN r = DOMAIN all /\ Len(r) = Len(all)
  BY <1>3, Mapped DEF Taken
<1>6. /\ \A i \in DOMAIN s : a[i] = From(s[i])
      /\ \A i \in DOMAIN t : b[i] = From(t[i])
      /\ \A i \in DOMAIN all : r[i] = From(all[i])
  BY DEF Taken
<1>7. l = a \o b
  OBVIOUS
<1> HIDE DEF a, b, l, r
<1>8. IsList(l) /\ Len(l) = Len(a) + Len(b)
  BY <1>1, <1>2, <1>7, Concatenation
<1>9. /\ \A i \in 1 .. Len(a) : l[i] = a[i]
      /\ \A i \in 1 .. Len(b) : l[Len(a) + i] = b[i]
  BY <1>1, <1>2, <1>7, Concatenation
<1>10. /\ Len(s) \in Nat /\ Len(t) \in Nat /\ DOMAIN s = 1 .. Len(s) /\ DOMAIN t = 1 .. Len(t)
       /\ DOMAIN all = 1 .. Len(all)
  BY <1>3, Lists
<1>11. ASSUME NEW i \in 1 .. Len(l) PROVE l[i] = r[i]
  <2>1. CASE i \in 1 .. Len(s)
    BY <1>1, <1>3, <1>4, <1>6, <1>9, <1>10, <2>1, SMTT(30)
  <2>2. CASE i \notin 1 .. Len(s)
    <3> DEFINE j == i - Len(s)
    <3>1. j \in 1 .. Len(t) /\ i = Len(s) + j /\ i \in DOMAIN all
      BY <1>1, <1>2, <1>3, <1>8, <1>10, <2>2
    <3> HIDE DEF j
    <3> QED  BY <1>1, <1>2, <1>4, <1>6, <1>9, <1>10, <3>1, SMTT(30)
  <2> QED  BY <2>1, <2>2
<1>12. l = r
  BY <1>1, <1>2, <1>3, <1>5, <1>8, <1>11, SameLists
<1> QED  BY <1>12 DEF l, r, all

\* All servers of a configuration, in the order they are added.
AllServers(radius) ==
    radius.authenticationServer \o radius.accountingServer \o radius.fallbackServers

\* All the servers of a request are taken, in their order.
LEMMA RadiusServers ==
    ASSUME NEW radius, IsRadius(radius), radius.authenticationServer # <<>>,
           NEW from, from = FromServiceDot1xRadiusConfiguration(radius)
    PROVE  /\ <<from.AuthenticationServer>> \o from.AccountingServer \o from.FallbackServers
              = Taken(AllServers(radius))
           /\ IsList(AllServers(radius)) /\ AllServers(radius) # <<>>
<1> DEFINE auth == radius.authenticationServer
           acct == radius.accountingServer
           fall == radius.fallbackServers
           first == <<from.AuthenticationServer>>
<1>1. auth = <<auth[1]>> /\ IsList(acct) /\ IsList(fall) /\ IsList(auth)
  BY Optionals DEF IsRadius
<1>2. /\ from.AuthenticationServer = From(auth[1])
      /\ from.AccountingServer = Taken(acct) /\ from.FallbackServers = Taken(fall)
  BY DEF FromServiceDot1xRadiusConfiguration, From, Taken, Each
<1>3. Len(auth) = 1 /\ DOMAIN auth = {1}
  <2> DEFINE e == auth[1]
             l == auth
  <2>1. l = <<e>>
    BY <1>1
  <2> HIDE DEF e, l
  <2>2. Len(l) = 1 /\ DOMAIN l = {1}
    BY <2>1
  <2> QED  BY <2>2 DEF l
<1> HIDE DEF acct, fall
<1>4. first = Taken(auth)
  <2> DEFINE e == From(auth[1])
             t == Taken(auth)
  <2>1. first = <<e>>
    BY <1>2
  <2>2. t = [i \in {1} |-> From(auth[i])]
    BY <1>3 DEF Taken
  <2>3. IsList(t) /\ Len(t) = 1
    BY <1>1, <1>3, Mapped DEF Taken
  <2>4. t[1] = e
    BY <2>2
  <2> HIDE DEF e, t, first
  <2>5. IsList(first) /\ Len(first) = 1 /\ first[1] = e
    BY <2>1, Singles
  <2>6. \A i \in 1 .. 1 : i = 1
    OBVIOUS
  <2>7. first = t
    BY <2>3, <2>4, <2>5, <2>6, SameLists
  <2> QED  BY <2>7 DEF t
<1> HIDE DEF auth, first
<1> DEFINE two == auth \o acct
<1>5. IsList(two) /\ Len(two) = Len(auth) + Len(acct)
  BY <1>1, Concatenation
<1>6. Taken(auth) \o Taken(acct) = Taken(two)
  BY <1>1, TakenMore
<1> HIDE DEF two
<1> DEFINE all == two \o fall
<1>7. Taken(two) \o Taken(fall) = Taken(all)
  BY <1>1, <1>5, TakenMore
<1>8. IsList(all) /\ Len(all) = Len(two) + Len(fall)
  BY <1>1, <1>5, Concatenation
<1>9. AllServers(radius) = all
  BY DEF AllServers, all, two, auth, acct, fall
<1> HIDE DEF all
<1>10. all # <<>>
  <2>1. Len(auth) = 1 /\ Len(acct) \in Nat /\ Len(fall) \in Nat
    BY <1>1, <1>3, Lists DEF auth
  <2>2. Len(all) # 0
    BY <1>5, <1>8, <2>1
  <2> QED  BY <2>2
<1>11. (first \o from.AccountingServer) \o from.FallbackServers = Taken(all)
  BY <1>2, <1>4, <1>6, <1>7
<1> QED  BY <1>8, <1>9, <1>10, <1>11 DEF first

\* The properties SetAuthenticationDot1x writes.
Dot1xProperties == {"auth_servers", "acct_servers", "eap_server", "own_ip_addr"}

\* SetRadiusConfiguration gives all the servers it is called with.
LEMMA RadiusGivenBy ==
    ASSUME NEW radius, IsRadius(radius), radius.authenticationServer # <<>>,
           NEW asked, asked = [i \in DOMAIN AllServers(radius) |-> Wanted(AllServers(radius)[i])],
           NEW set, set = SetRadiusConfiguration(FromServiceDot1xRadiusConfiguration(radius))
    PROVE  /\ Within(set, Dot1xProperties)
           /\ \A h, x : Done(h, set, x) /\ HasServers(h.conf) =>
                            Dot1xGiven(asked, x.conf) /\ x.live = x.conf
<1> DEFINE from == FromServiceDot1xRadiusConfiguration(radius)
           servers == <<from.AuthenticationServer>> \o from.AccountingServer
                      \o from.FallbackServers
           all == AllServers(radius)
           converted == Each(Convert, servers)
           ss == Each(AddRadiusEndpoint, converted)
           a == FlattenSeq(ss)
           b == SetProperty("eap_server", 0, "Defer")
           c == SetProperty("own_ip_addr", "own", "Defer")
           P == {"auth_servers", "acct_servers"}
<1>1. set = ((a \o b) \o c) \o Reload
  BY DEF SetRadiusConfiguration, Convert, Each
<1>2. servers = Taken(all) /\ IsList(all) /\ all # <<>>
  <2> DEFINE f == from
  <2>1. f = FromServiceDot1xRadiusConfiguration(radius)
    OBVIOUS
  <2>2. servers = <<f.AuthenticationServer>> \o f.AccountingServer \o f.FallbackServers
    OBVIOUS
  <2> HIDE DEF f, servers
  <2> QED  BY <2>1, <2>2, RadiusServers
<1> HIDE DEF servers, all
<1>3. IsList(servers) /\ DOMAIN servers = DOMAIN all /\ Len(servers) = Len(all)
  BY <1>2, Mapped DEF Taken
<1>4. /\ IsList(converted) /\ DOMAIN converted = DOMAIN all /\ Len(converted) = Len(all)
      /\ \A i \in DOMAIN all : converted[i] = Convert(From(all[i]))
  <2>1. converted = [i \in DOMAIN servers |-> Convert(servers[i])]
    BY DEF Each
  <2>2. \A i \in DOMAIN all : servers[i] = From(all[i])
    BY <1>2 DEF Taken
  <2> HIDE DEF converted
  <2>3. IsList(converted) /\ DOMAIN converted = DOMAIN servers /\ Len(converted) = Len(servers)
    <3>1. converted = [i \in DOMAIN servers |-> converted[i]]
      BY <2>1
    <3> QED  BY <1>3, <3>1, Mapped
  <2> QED  BY <1>3, <2>1, <2>2, <2>3
<1>5. ss = [i \in DOMAIN converted |-> AddRadiusEndpoint(converted[i])]
  BY DEF Each
<1> HIDE DEF converted, ss
<1>6. \A i \in DOMAIN converted :
         /\ converted[i].Type \in {"Authentication", "Accounting", "Unknown"}
         /\ HasPort(converted[i]) /\ Asking(converted[i]) = Wanted(all[i])
  BY <1>4, ServerTaken
<1>7. asked = [i \in DOMAIN converted |-> Asking(converted[i])]
  BY <1>4, <1>6 DEF all
<1>8. converted # <<>>
  <2>1. Len(all) # 0
    BY <1>2, Lists
  <2>2. Len(<<>>) = 0
    OBVIOUS
  <2> QED  BY <1>4, <2>1, <2>2
<1>9. /\ IsList(ss) /\ \A i \in DOMAIN ss : Within(ss[i], P)
  <2>1. ss = [i \in DOMAIN converted |-> ss[i]]
    BY <1>5
  <2>2. IsList(ss) /\ DOMAIN ss = DOMAIN converted
    BY <1>4, <2>1, Mapped
  <2>3. ASSUME NEW i \in DOMAIN ss PROVE Within(ss[i], P)
    <3> DEFINE server == converted[i]
    <3>1. ss[i] = AddRadiusEndpoint(server) /\ HasPort(server)
          /\ server.Type \in {"Authentication", "Accounting", "Unknown"}
      BY <1>5, <1>6, <2>2
    <3> HIDE DEF server
    <3> QED  BY <3>1, ServerWithin
  <2> QED  BY <2>2, <2>3
<1>10. Within(a, P)
  <2> HIDE DEF P
  <2> QED  BY <1>9, WithinFlatten
<1>11. /\ "eap_server" \in PropertyNames /\ "own_ip_addr" \in PropertyNames
       /\ "eap_server" \notin Adding /\ "own_ip_addr" \notin Adding
  BY DEF PropertyNames, Adding
<1>12. IsList(b) /\ Within(b, {"eap_server"}) /\ IsList(c) /\ Within(c, {"own_ip_addr"})
  BY <1>11, PropertySet DEF Within
<1> HIDE DEF a, b, c
<1>13. Within(set, Dot1xProperties)
  <2> DEFINE Q == Dot1xProperties
  <2>1. P \subseteq Q /\ {"eap_server"} \subseteq Q /\ {"own_ip_addr"} \subseteq Q
    BY DEF Dot1xProperties
  <2> HIDE DEF Q
  <2>2. Within(a, Q) /\ Within(b, Q) /\ Within(c, Q) /\ Within(Reload, Q)
    <3>1. Within(a, Q)
      BY <1>10, <2>1, WithinMore
    <3>2. Within(b, Q)
      BY <1>12, <2>1, WithinMore
    <3>3. Within(c, Q)
      BY <1>12, <2>1, WithinMore
    <3> QED  BY <3>1, <3>2, <3>3, WithinSmall
  <2>3. Within(a \o b, Q)
    BY <2>2, WithinConcatenation
  <2>4. Within((a \o b) \o c, Q)
    BY <2>2, <2>3, WithinConcatenation
  <2>5. Within(((a \o b) \o c) \o Reload, Q)
    BY <2>2, <2>4, WithinConcatenation
  <2> QED  BY <1>1, <2>5 DEF Q
<1>14. ASSUME NEW h, NEW x, Done(h, set, x), HasServers(h.conf)
       PROVE  Dot1xGiven(asked, x.conf) /\ x.live = x.conf
  <2>1. IsList(a) /\ IsList(a \o b) /\ IsList((a \o b) \o c)
    <3>1. IsList(a) /\ IsList(b) /\ IsList(c)
      BY <1>10, <1>12 DEF Within
    <3>2. IsList(a \o b)
      BY <3>1, Concatenation
    <3> QED  BY <3>1, <3>2, Concatenation
  <2>2. IsList(Reload)
    BY WithinSmall DEF Within
  <2>3. Done(h, ((a \o b) \o c) \o Reload, x)
    BY <1>1, <1>14
  <2>4. PICK w : Done(h, (a \o b) \o c, w) /\ Done(w, Reload, x)
    BY <2>1, <2>2, <2>3, RanConcatenation
  <2>5. PICK v : Done(h, a \o b, v) /\ Done(v, c, w)
    BY <1>12, <2>1, <2>4, RanConcatenation
  <2>6. PICK y : Done(h, a, y) /\ Done(y, b, v)
    BY <1>12, <2>1, <2>5, RanConcatenation
  <2>7. x.live = x.conf /\ x.conf = w.conf
    BY <2>4, DoneReload
  <2>8. ASSUME NEW list \in P PROVE x.conf[list] = y.conf[list]
    <3>1. list \in PropertyNames /\ list \notin {"eap_server"} /\ list \notin {"own_ip_addr"}
      BY DEF PropertyNames
    <3>2. \A d \in ToSet(b) : ~Sets(d, list)
      BY <1>12, <3>1 DEF Within, Sets
    <3>3. \A d \in ToSet(c) : ~Sets(d, list)
      BY <1>12, <3>1 DEF Within, Sets
    <3>4. v.conf[list] = y.conf[list]
      BY <2>6, <3>1, <3>2, RanKeeps DEF Done
    <3>5. w.conf[list] = v.conf[list]
      BY <2>5, <3>1, <3>3, RanKeeps DEF Done
    <3> QED  BY <2>7, <3>4, <3>5
  <2>9. ASSUME NEW list \in P
        PROVE  EndsWith(h.conf[list], x.conf[list], FlattenSeq(OfList(asked, list)))
    <3>1. Done(h, FlattenSeq(ss), y)
      BY <2>6 DEF a
    <3>2. EndsWith(h.conf[list], y.conf[list], FlattenSeq(OfList(asked, list)))
      BY <1>4, <1>5, <1>6, <1>7, <1>8, <1>14, <3>1, ServersAdded
    <3> QED  BY <2>8, <3>2
  <2>10. Dot1xGiven(asked, x.conf)
    BY <2>9, EndsGiven
  <2> QED  BY <2>7, <2>10
<1> QED  BY <1>13, <1>14

\* What is made of each value of an optional field.
LEMMA FlattenOptional ==
    ASSUME NEW v, IsOptional(v), NEW t, t = [i \in DOMAIN v |-> t[i]]
    PROVE  /\ v = <<>> => FlattenSeq(t) = <<>>
           /\ v # <<>> => FlattenSeq(t) = t[1] /\ DOMAIN v = {1} /\ v[1] \in ToSet(v)
<1>1. IsList(t) /\ DOMAIN t = DOMAIN v /\ Len(t) = Len(v)
  BY Optionals, Mapped
<1>2. CASE v = <<>>
  <2>1. t = <<>>
    BY <1>2
  <2> QED  BY <1>2, <2>1 DEF FlattenSeq
<1>3. CASE v # <<>>
  <2> DEFINE e == v[1]
  <2>1. v = <<e>> /\ ToSet(v) = {e}
    BY <1>3, Optionals
  <2> HIDE DEF e
  <2>2. DOMAIN v = {1} /\ Len(v) = 1
    BY <2>1
  <2>3. t # <<>> /\ Len(t) = 1
    BY <1>1, <2>2
  <2>4. PICK f : Flattened(f, t, Len(t)) /\ FlattenSeq(t) = f[Len(t)]
    BY <1>1, <2>3, FlattenSteps
  <2>5. f[1] = t[1]
    BY <2>3, <2>4 DEF Flattened
  <2> QED  BY <1>3, <2>1, <2>2, <2>3, <2>4, <2>5 DEF e
<1> QED  BY <1>2, <1>3

\* The servers a configuration for 802.1X asks for.
ServersOf(radius) == [i \in DOMAIN AllServers(radius) |-> Wanted(AllServers(radius)[i])]

\* The servers asked for, if any.
ServersAsked(dot1x) == IF dot1x.radius = <<>> THEN <<>> ELSE ServersOf(dot1x.radius[1])

\* Without a server of authentication too, nothing else is set.
LEMMA RadiusWithin ==
    ASSUME NEW radius, IsRadius(radius),
           NEW set, set = SetRadiusConfiguration(FromServiceDot1xRadiusConfiguration(radius))
    PROVE  Within(set, Dot1xProperties)
<1> DEFINE from == FromServiceDot1xRadiusConfiguration(radius)
           first == from.AuthenticationServer
           acct == from.AccountingServer
           fall == from.FallbackServers
           servers == (<<first>> \o acct) \o fall
           converted == Each(Convert, servers)
           ss == Each(AddRadiusEndpoint, converted)
           a == FlattenSeq(ss)
           b == SetProperty("eap_server", 0, "Defer")
           c == SetProperty("own_ip_addr", "own", "Defer")
           P == Dot1xProperties
           Good(server) ==
               server.Type \in {"Authentication", "Accounting", "Unknown"} /\ HasPort(server)
<1>1. set = ((a \o b) \o c) \o Reload
  BY DEF SetRadiusConfiguration, Convert, Each
<1>2. /\ first \in {NoRadiusServer, From(radius.authenticationServer[1])}
      /\ acct = Taken(radius.accountingServer) /\ fall = Taken(radius.fallbackServers)
  BY DEF FromServiceDot1xRadiusConfiguration, From, Taken, Each
<1>3. Good(Convert(NoRadiusServer))
  <2> DEFINE none == NoRadiusServer
             made == Convert(none)
  <2>1. made = [none EXCEPT !.Type = "Unknown"]
    BY DEF Convert, Ieee8021xRadiusServerEndpointConfigurationToWpaRadiusEndpointConfiguration,
           Ieee8021xRadiusEndpointTypeToWpaRadiusEndpointType, NoRadiusServer
  <2>2. made.Type = "Unknown" /\ made.Port = <<>>
    BY <2>1 DEF NoRadiusServer
  <2>3. HasPort(made)
    BY <2>2 DEF HasPort
  <2> QED  BY <2>2, <2>3
<1>4. \A s : Good(Convert(From(s)))
  BY ServerTaken
<1>5. IsList(acct) /\ IsList(fall)
  BY <1>2, Mapped DEF Taken, IsRadius
<1>6. (\A s \in ToSet(acct) : Good(Convert(s))) /\ (\A s \in ToSet(fall) : Good(Convert(s)))
  <2> HIDE DEF Good, acct, fall
  <2> QED  BY <1>2, <1>4 DEF Taken, ToSet
<1>7. Good(Convert(first))
  <2> HIDE DEF Good, first
  <2> QED  BY <1>2, <1>3, <1>4
<1> HIDE DEF first, acct, fall, Good
<1>8. IsList(servers) /\ \A s \in ToSet(servers) : Good(Convert(s))
  <2> DEFINE one == <<first>>
             two == one \o acct
  <2>1. IsList(one) /\ ToSet(one) = {first}
    BY Singles
  <2> HIDE DEF one
  <2>2. IsList(two) /\ ToSet(two) = ToSet(one) \cup ToSet(acct)
    BY <1>5, <2>1, Concatenation
  <2>3. servers = two \o fall
    BY DEF one
  <2> HIDE DEF two, servers
  <2>4. IsList(servers) /\ ToSet(servers) = ToSet(two) \cup ToSet(fall)
    BY <1>5, <2>2, <2>3, Concatenation
  <2> QED  BY <1>6, <1>7, <2>1, <2>2, <2>4
<1> HIDE DEF servers
<1>9. IsList(converted) /\ DOMAIN converted = DOMAIN servers
      /\ \A i \in DOMAIN converted : Good(converted[i])
  <2>1. converted = [i \in DOMAIN servers |-> Convert(servers[i])]
    BY DEF Each
  <2> HIDE DEF converted
  <2>2. IsList(converted) /\ DOMAIN converted = DOMAIN servers
    <3>1. converted = [i \in DOMAIN servers |-> converted[i]]
      BY <2>1
    <3> QED  BY <1>8, <3>1, Mapped
  <2>3. \A i \in DOMAIN servers : servers[i] \in ToSet(servers)
    BY DEF ToSet
  <2> QED  BY <1>8, <2>1, <2>2, <2>3
<1>10. ss = [i \in DOMAIN converted |-> AddRadiusEndpoint(converted[i])]
  BY DEF Each
<1> HIDE DEF converted, ss
<1>11. {"auth_servers", "acct_servers"} \subseteq P /\ {"eap_server"} \subseteq P
       /\ {"own_ip_addr"} \subseteq P
  BY DEF Dot1xProperties
<1> HIDE DEF P
<1>12. IsList(ss) /\ \A i \in DOMAIN ss : Within(ss[i], P)
  <2>1. ss = [i \in DOMAIN converted |-> ss[i]]
    BY <1>10
  <2>2. IsList(ss) /\ DOMAIN ss = DOMAIN converted
    BY <1>9, <2>1, Mapped
  <2>3. ASSUME NEW i \in DOMAIN ss PROVE Within(ss[i], P)
    <3> DEFINE server == converted[i]
    <3>1. ss[i] = AddRadiusEndpoint(server) /\ Good(server)
      BY <1>9, <1>10, <2>2
    <3> HIDE DEF server
    <3>2. Within(ss[i], {"auth_servers", "acct_servers"})
      BY <3>1, ServerWithin DEF Good
    <3> QED  BY <1>11, <3>2, WithinMore
  <2> QED  BY <2>2, <2>3
<1>13. Within(a, P)
  BY <1>12, WithinFlatten
<1>14. Within(b, {"eap_server"}) /\ Within(c, {"own_ip_addr"})
  <2>1. /\ "eap_server" \in PropertyNames /\ "own_ip_addr" \in PropertyNames
        /\ "eap_server" \notin Adding /\ "own_ip_addr" \notin Adding
    BY DEF PropertyNames, Adding
  <2> QED  BY <2>1, PropertySet
<1> HIDE DEF a, b, c
<1>15. Within(b, P) /\ Within(c, P) /\ Within(Reload, P)
  <2>1. Within(b, P)
    BY <1>11, <1>14, WithinMore
  <2>2. Within(c, P)
    BY <1>11, <1>14, WithinMore
  <2> QED  BY <2>1, <2>2, WithinSmall
<1>16. Within(a \o b, P)
  BY <1>13, <1>15, WithinConcatenation
<1>17. Within((a \o b) \o c, P)
  BY <1>15, <1>16, WithinConcatenation
<1>18. Within(((a \o b) \o c) \o Reload, P)
  BY <1>15, <1>17, WithinConcatenation
<1> QED  BY <1>1, <1>18 DEF P

\* WifiAccessPointSetAuthenticationDot1xImpl gives the servers of its request.
LEMMA Dot1xGivenBy ==
    ASSUME NEW accessPoint, NEW dot1x, IsDot1x(dot1x),
           NEW impl, impl = WifiAccessPointSetAuthenticationDot1xImpl(accessPoint, dot1x)
    PROVE  /\ Within(impl, Dot1xProperties)
           /\ \A h, x : Done(h, impl, x) /\ HasServers(h.conf) =>
                  /\ dot1x.radius # <<>> /\ dot1x.radius[1].authenticationServer # <<>>
                  /\ Dot1xGiven(ServersAsked(dot1x), x.conf) /\ x.live = x.conf
<1> DEFINE Servers(radius) == ToSet(radius.authenticationServer \o radius.accountingServer
                                    \o radius.fallbackServers)
           bad(radius) == \/ radius.authenticationServer = <<>>
                          \/ \E server \in Servers(radius) :
                                 ~IsDot1xRadiusServerEndpointConfigurationValid(server)
           Check(radius) == RefuseIf(bad(radius), "InvalidParameter")
           set(radius) == SetRadiusConfiguration(FromServiceDot1xRadiusConfiguration(radius))
           Both(radius) == Check(radius) \o set(radius)
           all == [i \in DOMAIN dot1x.radius |-> Both(dot1x.radius[i])]
           a == RefuseIf(dot1x.radius = <<>>, "InvalidParameter")
           try == TryGetAccessPointController(accessPoint)
           radius1 == dot1x.radius[1]
           P == Dot1xProperties
<1>1. impl = (a \o try) \o FlattenSeq(all)
  BY DEF WifiAccessPointSetAuthenticationDot1xImpl
<1>2. Within(a, {}) /\ Within(try, {})
  BY WithinChecks
<1>3. Passes(a) => dot1x.radius # <<>>
  <2> DEFINE b == dot1x.radius = <<>>
  <2>1. b \in BOOLEAN
    OBVIOUS
  <2> HIDE DEF b
  <2>2. Passes(RefuseIf(b, "InvalidParameter")) => ~b
    BY <2>1, RefuseIfPasses
  <2> QED  BY <2>2 DEF b
<1> HIDE DEF a, try
<1>4. Within(a \o try, {}) /\ (Passes(a \o try) => Passes(a))
  <2>1. IsList(a) /\ IsList(try)
    BY <1>2 DEF Within
  <2> QED  BY <1>2, <2>1, WithinConcatenation, RefusalsConcatenation
<1>5. /\ dot1x.radius = <<>> => FlattenSeq(all) = <<>>
      /\ dot1x.radius # <<>> => FlattenSeq(all) = Both(radius1) /\ IsRadius(radius1)
  <2> HIDE DEF Both
  <2>1. IsOptional(dot1x.radius)
    BY DEF IsDot1x
  <2>2. all = [i \in DOMAIN dot1x.radius |-> all[i]]
    OBVIOUS
  <2>3. DOMAIN dot1x.radius = {1} => all[1] = Both(radius1)
    OBVIOUS
  <2> HIDE DEF all
  <2>4. /\ dot1x.radius = <<>> => FlattenSeq(all) = <<>>
        /\ dot1x.radius # <<>> => /\ FlattenSeq(all) = all[1] /\ DOMAIN dot1x.radius = {1}
                                  /\ dot1x.radius[1] \in ToSet(dot1x.radius)
    BY <2>1, <2>2, FlattenOptional
  <2> QED  BY <2>3, <2>4 DEF IsDot1x
<1> HIDE DEF all
<1>6. Within(Check(radius1), {}) /\ (Passes(Check(radius1)) => radius1.authenticationServer # <<>>)
  <2> DEFINE b == bad(radius1)
             none == radius1.authenticationServer = <<>>
  <2>1. b \in BOOLEAN /\ (none => b)
    OBVIOUS
  <2> HIDE DEF b
  <2>2. Passes(RefuseIf(b, "InvalidParameter")) => ~b
    BY <2>1, RefuseIfPasses
  <2>3. Within(RefuseIf(b, "InvalidParameter"), {})
    BY WithinChecks
  <2> QED  BY <2>1, <2>2, <2>3 DEF b
<1> HIDE DEF Check, radius1
<1>7. ASSUME IsRadius(radius1)
      PROVE  /\ Within(set(radius1), P)
             /\ radius1.authenticationServer # <<>> =>
                   \A h, x : Done(h, set(radius1), x) /\ HasServers(h.conf) =>
                                 Dot1xGiven(ServersOf(radius1), x.conf) /\ x.live = x.conf
  <2> DEFINE asked == ServersOf(radius1)
             s == set(radius1)
  <2>1. asked = [i \in DOMAIN AllServers(radius1) |-> Wanted(AllServers(radius1)[i])]
        /\ s = SetRadiusConfiguration(FromServiceDot1xRadiusConfiguration(radius1))
    BY DEF ServersOf
  <2> HIDE DEF asked, s
  <2>2. radius1.authenticationServer # <<>> =>
           \A h, x : Done(h, s, x) /\ HasServers(h.conf) =>
                         Dot1xGiven(asked, x.conf) /\ x.live = x.conf
    BY <1>7, <2>1, RadiusGivenBy
  <2>3. Within(s, P)
    BY <1>7, <2>1, RadiusWithin
  <2> QED  BY <2>2, <2>3 DEF asked, s
<1> HIDE DEF set
<1>8. Within(FlattenSeq(all), P)
  <2>1. CASE dot1x.radius = <<>>
    BY <1>5, <2>1, WithinSmall
  <2>2. CASE dot1x.radius # <<>>
    <3>1. Within(Check(radius1), P)
      <4>1. {} \subseteq P
        OBVIOUS
      <4> QED  BY <1>6, <4>1, WithinMore
    <3>2. Within(set(radius1), P)
      BY <1>5, <1>7, <2>2
    <3> QED  BY <1>5, <2>2, <3>1, <3>2, WithinConcatenation
  <2> QED  BY <2>1, <2>2
<1>9. Within(impl, P)
  <2>1. {} \subseteq P
    OBVIOUS
  <2>2. Within(a \o try, P)
    BY <1>4, <2>1, WithinMore
  <2> QED  BY <1>1, <1>8, <2>2, WithinConcatenation
<1>10. ASSUME NEW h, NEW x, Done(h, impl, x), HasServers(h.conf)
       PROVE  /\ dot1x.radius # <<>> /\ radius1.authenticationServer # <<>>
              /\ Dot1xGiven(ServersAsked(dot1x), x.conf) /\ x.live = x.conf
  <2>1. IsList(FlattenSeq(all))
    BY <1>8 DEF Within
  <2> DEFINE s == a \o try
             t == FlattenSeq(all)
  <2>2. Done(h, s \o t, x) /\ Within(s, {}) /\ IsList(t)
    BY <1>1, <1>4, <1>10, <2>1
  <2> HIDE DEF s, t
  <2>3. PICK y : Passes(s) /\ Done(y, t, x) /\ y.conf = h.conf
    BY <2>2, DoneChecked
  <2>4. dot1x.radius # <<>>
    BY <1>3, <1>4, <2>3 DEF s
  <2>5. Done(y, Check(radius1) \o set(radius1), x)
    BY <1>5, <2>3, <2>4 DEF t
  <2> DEFINE p == Check(radius1)
             q == set(radius1)
  <2>6. Within(p, {}) /\ IsList(q)
    BY <1>5, <1>6, <1>7, <2>4 DEF Within
  <2>7. Done(y, p \o q, x)
    BY <2>5
  <2> HIDE DEF p, q
  <2>8. PICK z : Passes(p) /\ Done(z, q, x) /\ z.conf = y.conf
    BY <2>6, <2>7, DoneChecked
  <2>9. radius1.authenticationServer # <<>>
    BY <1>6, <2>8 DEF p
  <2>10. Dot1xGiven(ServersOf(radius1), x.conf) /\ x.live = x.conf
    BY <1>5, <1>7, <1>10, <2>3, <2>4, <2>8, <2>9 DEF q
  <2> QED  BY <2>4, <2>9, <2>10 DEF ServersAsked, radius1
<1> QED  BY <1>9, <1>10 DEF radius1

\* The service reads hostapd's state from its reply.
LEMMA StateRead ==
    ASSUME NEW state \in {"ENABLED", "DISABLED"}
    PROVE  (OperationalState(StatusReply(state)) = "Enabled") <=> state = "ENABLED"
<1> DEFINE none == <<>>
           zero == <<0>>
           one == <<state>>
           wlan == <<"wlan">>
           a == [key |-> "state", index |-> none, parts |-> one]
           b == [key |-> "bss", index |-> zero, parts |-> wlan]
           c == [key |-> "num_sta", index |-> zero, parts |-> zero]
           lines == <<a, b, c>>
           Usable(i) == lines[i].key # "" /\ lines[i].parts # <<>>
           Keys == {lines[i].key : i \in {j \in DOMAIN lines : Usable(j)}}
           LastLine(key) == CHOOSE i \in DOMAIN lines :
               /\ Usable(i) /\ lines[i].key = key
               /\ \A j \in i + 1 .. Len(lines) : ~(Usable(j) /\ lines[j].key = key)
           properties == TryParseProperties(lines)
           bss == BssKeys \cap DOMAIN properties
           parsed == StatusParsePayload(lines)
<1>1. StatusReply(state) = lines
  BY DEF StatusReply
<1>2. properties = [key \in Keys |-> [value |-> lines[LastLine(key)].parts[1],
                                      index |-> lines[LastLine(key)].index]]
  BY DEF TryParseProperties
<1>3. one[1] = state /\ one # none /\ zero # none /\ wlan # none /\ none = <<>>
  OBVIOUS
<1>4. "state" # "" /\ "bss" # "" /\ "num_sta" # ""
  BY Zenon
<1>5. /\ a.key = "state" /\ a.index = none /\ a.parts = one
      /\ b.key = "bss" /\ b.index = zero /\ b.parts = wlan
      /\ c.key = "num_sta" /\ c.index = zero /\ c.parts = zero
  OBVIOUS
<1> HIDE DEF none, zero, one, wlan, a, b, c
<1>6. DOMAIN lines = 1 .. 3 /\ Len(lines) = 3 /\ lines[1] = a /\ lines[2] = b /\ lines[3] = c
  OBVIOUS
<1> HIDE DEF lines
<1>7. Usable(1) /\ Usable(2) /\ Usable(3)
  BY <1>3, <1>4, <1>5, <1>6
<1>8. \A i \in DOMAIN lines : i = 1 \/ i = 2 \/ i = 3
  BY <1>6
<1>9. Keys = {"state", "bss", "num_sta"}
  <2> HIDE DEF Usable
  <2>1. {j \in DOMAIN lines : Usable(j)} = {1, 2, 3}
    BY <1>6, <1>7, <1>8
  <2>2. Keys = {lines[i].key : i \in {1, 2, 3}}
    BY <2>1
  <2> HIDE DEF Keys
  <2> QED  BY <1>5, <1>6, <2>2
<1> HIDE DEF Keys
<1>10. \A key \in {"state", "bss", "num_sta"} : \E i \in DOMAIN lines :
          /\ lines[i].key = key /\ Usable(i)
          /\ \A j \in i + 1 .. Len(lines) : ~(Usable(j) /\ lines[j].key = key)
  <2> HIDE DEF Usable
  <2>1. /\ \A j \in 2 .. 3 : lines[j].key # "state"
        /\ \A j \in 3 .. 3 : lines[j].key # "bss"
    BY <1>5, <1>6, <1>8
  <2>2. 1 + 1 = 2 /\ 2 + 1 = 3 /\ 3 + 1 = 4 /\ \A j \in 4 .. 3 : FALSE
    OBVIOUS
  <2> QED  BY <1>5, <1>6, <1>7, <2>1, <2>2
<1>11. \A key \in {"state", "bss", "num_sta"} :
          LastLine(key) \in DOMAIN lines /\ lines[LastLine(key)].key = key
  <2> HIDE DEF Usable
  <2> QED  BY <1>10
<1> HIDE DEF LastLine, Usable
<1>12. LastLine("state") = 1 /\ LastLine("bss") = 2 /\ LastLine("num_sta") = 3
  BY <1>5, <1>6, <1>8, <1>11
<1>13. /\ DOMAIN properties = {"state", "bss", "num_sta"}
       /\ properties["state"].value = state
       /\ properties["bss"].index = zero /\ properties["num_sta"].index = zero
  <2> HIDE DEF properties
  <2> QED  BY <1>2, <1>3, <1>5, <1>6, <1>9, <1>12
<1> HIDE DEF properties
<1>14. bss \subseteq {"bss", "num_sta"}
  BY <1>13 DEF BssKeys
<1>15. ~\E key \in bss : properties[key].index = <<>>
  BY <1>3, <1>13, <1>14
<1> HIDE DEF bss
<1>16. PICK phy, kept : parsed = <<[State |-> IF "state" \notin DOMAIN properties THEN "Unknown"
                                ELSE HostapdInterfaceStateFromString(properties["state"].value),
                                    Phy |-> phy, Bss |-> kept]>>
  <2> DEFINE Number(key) == IF key \in DOMAIN properties /\ properties[key].value \in Nat
                            THEN properties[key].value ELSE StatusNumbers[key]
             phy == [key \in DOMAIN StatusNumbers |-> Number(key)]
             kept == [key \in bss |-> properties[key]]
  <2>1. parsed = IF \E key \in bss : properties[key].index = <<>> THEN <<>>
                 ELSE <<[State |-> IF "state" \notin DOMAIN properties THEN "Unknown"
                                ELSE HostapdInterfaceStateFromString(properties["state"].value),
                                    Phy |-> phy, Bss |-> kept]>>
    BY DEF StatusParsePayload, properties, bss
  <2> HIDE DEF phy, kept, parsed
  <2> QED  BY <1>15, <2>1
<1> HIDE DEF parsed
<1>17. parsed[1].State = HostapdInterfaceStateFromString(state)
  <2> DEFINE s == HostapdInterfaceStateFromString(state)
             record == [State |-> s, Phy |-> phy, Bss |-> kept]
  <2>1. parsed = <<record>>
    BY <1>13, <1>16
  <2>2. record.State = s
    OBVIOUS
  <2> HIDE DEF record, s
  <2>3. parsed[1] = record
    BY <2>1
  <2> QED  BY <2>2, <2>3 DEF s
<1>18. (HostapdInterfaceStateFromString(state) = "Enabled") <=> state = "ENABLED"
  BY DEF HostapdInterfaceStateFromString, HostapdInterfaceStateTexts, Named
<1> QED  BY <1>1, <1>17, <1>18 DEF OperationalState, parsed

-----------------------------------------------------------------------------
(* The parts of a configuration *)

\* A command and the state of the interface.
States == {"ENABLED", "DISABLED"}

\* The state a command leaves.
LEMMA StepState ==
    ASSUME NEW x, Typed(x), x.state \in States, NEW c, NEW b \in BOOLEAN, NEW y, y = Step(x, c, b)
    PROVE  /\ y.state \in States
           /\ c.do \notin Switches => y.state = x.state
           /\ y.status = "Succeeded" /\ c.do = "ENABLE" => y.state = "ENABLED"
           /\ y.status = "Succeeded" /\ c.do = "DISABLE" => y.state = "DISABLED"
           /\ y.status # "Succeeded" => y.state = x.state
<1> DEFINE Enabled == OperationalState(StatusReply(x.state)) = "Enabled"
<1>1. Enabled <=> x.state = "ENABLED"
  BY StateRead DEF States
<1>2. CASE x.status # "Succeeded"
  BY <1>2, StepOrders
<1>3. CASE x.status = "Succeeded" /\ c.do \in Orders
  <2> DEFINE failed(status) == [x EXCEPT !.status = status]
             loaded == [x EXCEPT !.live = x.conf]
             on == [x EXCEPT !.live = x.conf, !.state = "ENABLED"]
             off == [x EXCEPT !.state = "DISABLED"]
  <2>1. \/ y = x \/ \E status : y = failed(status)
        \/ y = loaded
        \/ c.do = "ENABLE" /\ y = on
        \/ c.do = "DISABLE" /\ y = off
    BY <1>3 DEF Step, Orders
  <2>2. /\ y.status = "Succeeded" /\ c.do = "ENABLE" /\ x.state # "ENABLED" =>
              y = on
        /\ y.status = "Succeeded" /\ c.do = "DISABLE" /\ x.state # "DISABLED" =>
              y = off
    <3> HIDE DEF Enabled
    <3>1. ASSUME y.status = "Succeeded", c.do = "ENABLE", x.state # "ENABLED"
          PROVE  y = on
      <4>1. y = IF ~b THEN failed("InternalError")
                ELSE on
        BY <1>1, <1>3, <3>1 DEF Step, Enabled
      <4>2. failed("InternalError").status # "Succeeded"
        BY DEF Typed
      <4> QED  BY <3>1, <4>1, <4>2
    <3>2. ASSUME y.status = "Succeeded", c.do = "DISABLE", x.state # "DISABLED"
          PROVE  y = off
      <4>0. Enabled
        BY <1>1, <3>2 DEF States
      <4>1. y = IF ~b THEN failed("InternalError")
                ELSE off
        BY <4>0, <1>3, <3>2 DEF Step, Enabled
      <4>2. failed("InternalError").status # "Succeeded"
        BY DEF Typed
      <4> QED  BY <3>2, <4>1, <4>2
    <3> QED  BY <3>1, <3>2
  <2>3. /\ \A status : failed(status).state = x.state
        /\ loaded.state = x.state
        /\ loaded.status = x.status
        /\ on.state = "ENABLED"
        /\ on.status = x.status
        /\ off.state = "DISABLED"
        /\ off.status = x.status
    BY DEF Typed
  <2> HIDE DEF Enabled, failed, loaded, on, off
  <2>4. y.state \in States
    BY <2>1, <2>3 DEF States
  <2>5. c.do \notin Switches => y.state = x.state
    BY <2>1, <2>3 DEF Switches
  <2>6. y.status # "Succeeded" => y.state = x.state
    BY <1>3, <2>1, <2>3
  <2>7. y.status = "Succeeded" /\ c.do = "ENABLE" => y.state = "ENABLED"
    <3>1. ASSUME c.do = "ENABLE", y.status = "Succeeded", x.state # "ENABLED"
          PROVE  y.state = "ENABLED"
      BY <2>2, <2>3, <3>1
    <3>2. ASSUME c.do = "ENABLE", x.state = "ENABLED" PROVE y.state = "ENABLED"
      <4>1. \/ y = x \/ \E status : y = failed(status)
            \/ y = loaded
            \/ y = on
        BY <2>1, <3>2
      <4> QED  BY <2>3, <3>2, <4>1
    <3> QED  BY <3>1, <3>2
  <2>8. y.status = "Succeeded" /\ c.do = "DISABLE" => y.state = "DISABLED"
    <3>1. CASE x.state # "DISABLED"
      BY <2>2, <2>3, <3>1
    <3>2. CASE x.state = "DISABLED"
      BY <2>1, <2>3, <3>2
    <3> QED  BY <3>1, <3>2
  <2> QED  BY <2>4, <2>5, <2>6, <2>7, <2>8
<1>4. CASE x.status = "Succeeded" /\ c.do \notin Orders
  <2> DEFINE new == Assign(x.conf, c.name, c.value)
  <2>1. new = Assign(x.conf, c.name, c.value) /\ c.do \notin {"ENABLE", "DISABLE"}
    BY <1>4 DEF Orders
  <2> HIDE DEF new
  <2>2. y.state = x.state
    <3>1. \/ y.status = "InternalError" /\ y.conf = x.conf /\ y.live = x.live
             /\ y.state = x.state
          \/ /\ Accepts(c.name, c.value) /\ y.conf = new /\ y.status = "Succeeded"
             /\ y.state = x.state
             /\ y.live = IF c.name = "setband"
                         THEN [x.live EXCEPT !.setband = new.setband] ELSE x.live
      BY <1>4, <2>1, StepForms
    <3> QED  BY <3>1
  <2> QED  BY <2>1, <2>2
<1> QED  BY <1>2, <1>3, <1>4

\* A list of commands.
LEMMA RanState ==
    ASSUME NEW h, NEW s, NEW x, Ran(h, s, x), h.state \in States
    PROVE  /\ x.state \in States
           /\ \A P : Within(s, P) => x.state = h.state
<1>1. PICK f :
          /\ f[0] = h /\ f[Len(s)] = x
          /\ \A i \in 0 .. Len(s) : Typed(f[i])
          /\ \A i \in 1 .. Len(s) :
                s[i] \in ToSet(s) /\ \E b \in BOOLEAN : f[i] = Step(f[i - 1], s[i], b)
  BY Trace
<1>2. Len(s) \in Nat
  BY Trace
<1> DEFINE plain == \A c \in ToSet(s) : c.do \notin Switches
           S == {i \in 0 .. Len(s) : /\ f[i].state \in States
                                     /\ plain => f[i].state = h.state}
<1>3. 0 \in S
  BY <1>1, <1>2
<1>4. ASSUME NEW i \in 0 .. Len(s) - 1, i \in S PROVE i + 1 \in S
  <2> DEFINE l == i + 1
  <2>1. l \in 1 .. Len(s) /\ l \in 0 .. Len(s) /\ l - 1 = i
    BY <1>2
  <2> HIDE DEF l
  <2>2. Typed(f[i]) /\ s[l] \in ToSet(s)
    BY <1>1, <2>1
  <2>3. PICK b \in BOOLEAN : f[l] = Step(f[i], s[l], b)
    BY <1>1, <2>1
  <2>4. f[i].state \in States /\ (plain => f[i].state = h.state)
    BY <1>4
  <2>5. /\ f[l].state \in States
        /\ s[l].do \notin Switches => f[l].state = f[i].state
    BY <2>2, <2>3, <2>4, StepState
  <2>6. l \in S
    BY <2>1, <2>2, <2>4, <2>5
  <2> QED  BY <2>6 DEF l
<1>5. Len(s) \in S
  <2>1. Len(s) \in 0 .. Len(s)
    BY <1>2
  <2> HIDE DEF S
  <2> QED  BY <1>2, <1>3, <1>4, <2>1, Induction
<1>6. x.state \in States /\ (plain => x.state = h.state)
  BY <1>1, <1>5
<1>7. \A P : Within(s, P) => plain
  BY DEF Within
<1> HIDE DEF plain
<1> QED  BY <1>6, <1>7

\* What a part of a configuration is looked for in.
Reads(part) ==
    CASE part = "phyType" -> PhyProperties
      [] part = "dot1x" -> {"auth_servers", "acct_servers"}
      [] part = "algorithms" -> {"auth_algs"}
      [] part = "data" -> {"psk", "sae_password"}
      [] part = "akmSuites" -> {"wpa_key_mgmt", "ieee8021x", "nas_identifier"}
      [] part = "ciphers" -> Pairwise
      [] part = "ssid" -> {"ssid"}
      [] part = "bands" -> {"setband"}
      [] part = "bridge" -> {"bridge"}

\* Whether a part is given depends on the properties it reads.
LEMMA GivenReads ==
    ASSUME NEW part \in Parts, NEW asked, NEW conf, NEW phys, Given(part, asked, conf, phys),
           NEW other, \A p \in Reads(part) : other[p] = conf[p]
    PROVE  Given(part, asked, other, phys)
<1>1. CASE asked[part] = <<>>
  BY <1>1 DEF Given
<1>2. CASE asked[part] # <<>>
  <2>1. CASE part = "phyType"
    <3>1. PhyGiven(asked.phyType, conf, phys)
      BY <1>2, <2>1 DEF Given
    <3>2. \A p \in PhyProperties : other[p] = conf[p]
      BY <2>1 DEF Reads
    <3>3. /\ other.hw_mode = conf.hw_mode /\ other.ieee80211n = conf.ieee80211n
          /\ other.disable_11n = conf.disable_11n /\ other.wmm_enabled = conf.wmm_enabled
          /\ other.ieee80211ac = conf.ieee80211ac /\ other.disable_11ac = conf.disable_11ac
          /\ other.ieee80211ax = conf.ieee80211ax /\ other.disable_11ax = conf.disable_11ax
      BY <3>2 DEF PhyProperties
    <3>4. PhyGiven(asked.phyType, other, phys)
      BY <3>1, <3>3 DEF PhyGiven
    <3> QED  BY <2>1, <3>4 DEF Given
  <2>2. CASE part = "dot1x"
    <3>1. Dot1xGiven(asked.dot1x, conf)
      BY <1>2, <2>2 DEF Given
    <3>2. \A p \in {"auth_servers", "acct_servers"} : other[p] = conf[p]
      BY <2>2 DEF Reads
    <3>3. Dot1xGiven(asked.dot1x, other)
      BY <3>1, <3>2 DEF Dot1xGiven
    <3> QED  BY <2>2, <3>3 DEF Given
  <2>3. CASE part = "algorithms"
    <3>1. AlgorithmsGiven(asked.algorithms, conf)
      BY <1>2, <2>3 DEF Given
    <3>2. other.auth_algs = conf.auth_algs
      BY <2>3 DEF Reads
    <3>3. AlgorithmsGiven(asked.algorithms, other)
      BY <3>1, <3>2 DEF AlgorithmsGiven
    <3> QED  BY <2>3, <3>3 DEF Given
  <2>4. CASE part = "data"
    <3>1. DataGiven(asked.data[1], conf)
      BY <1>2, <2>4 DEF Given
    <3>2. other.psk = conf.psk /\ other.sae_password = conf.sae_password
      BY <2>4 DEF Reads
    <3>3. DataGiven(asked.data[1], other)
      BY <3>1, <3>2 DEF DataGiven
    <3> QED  BY <2>4, <3>3 DEF Given
  <2>5. CASE part = "akmSuites"
    <3>1. AkmGiven(asked.akmSuites, conf)
      BY <1>2, <2>5 DEF Given
    <3>2. /\ other.wpa_key_mgmt = conf.wpa_key_mgmt /\ other.ieee8021x = conf.ieee8021x
          /\ other.nas_identifier = conf.nas_identifier
      BY <2>5 DEF Reads
    <3>3. AkmGiven(asked.akmSuites, other)
      BY <3>1, <3>2 DEF AkmGiven
    <3> QED  BY <2>5, <3>3 DEF Given
  <2>6. CASE part = "ciphers"
    <3>1. CiphersGiven(asked.ciphers, conf)
      BY <1>2, <2>6 DEF Given
    <3>2. other.wpa_pairwise = conf.wpa_pairwise /\ other.rsn_pairwise = conf.rsn_pairwise
      BY <2>6 DEF Reads, Pairwise
    <3>3. CiphersGiven(asked.ciphers, other)
      BY <3>1, <3>2 DEF CiphersGiven
    <3> QED  BY <2>6, <3>3 DEF Given
  <2>7. CASE part = "ssid"
    <3>1. conf.ssid = asked.ssid /\ other.ssid = conf.ssid
      BY <1>2, <2>7 DEF Given, Reads
    <3> QED  BY <2>7, <3>1 DEF Given
  <2>8. CASE part = "bands"
    <3>1. BandsGiven(asked.bands, conf)
      BY <1>2, <2>8 DEF Given
    <3>2. other.setband = conf.setband
      BY <2>8 DEF Reads
    <3>3. BandsGiven(asked.bands, other)
      BY <3>1, <3>2 DEF BandsGiven
    <3> QED  BY <2>8, <3>3 DEF Given
  <2>9. CASE part = "bridge"
    <3>1. conf.bridge = asked.bridge /\ other.bridge = conf.bridge
      BY <1>2, <2>9 DEF Given, Reads
    <3> QED  BY <2>9, <3>1 DEF Given
  <2>10. part \in {"phyType", "dot1x", "algorithms", "data", "akmSuites", "ciphers", "ssid",
                   "bands", "bridge"}
    BY DEF Parts, NothingAsked
  <2> QED  BY <2>1, <2>2, <2>3, <2>4, <2>5, <2>6, <2>7, <2>8, <2>9, <2>10
<1> QED  BY <1>1, <1>2

\* What the PHY types asked for need is there for them.
LEMMA PhyKept ==
    ASSUME NEW h, NEW s, NEW x, Ran(h, s, x), NEW phys, PhyNeeded(h.conf, phys),
           \A c \in ToSet(s) : \A p \in Amendments : Sets(c, p) => Ever(phys, Needs(p))
    PROVE  PhyNeeded(x.conf, phys)
<1>1. ASSUME NEW p \in Amendments, x.conf[p] = << 1 >> PROVE Ever(phys, Needs(p))
  <2>1. p \in PropertyNames
    BY DEF Amendments, PropertyNames
  <2>2. CASE \E c \in ToSet(s) : Sets(c, p)
    BY <2>2
  <2>3. CASE \A c \in ToSet(s) : ~Sets(c, p)
    <3>1. x.conf[p] = h.conf[p]
      BY <2>1, <2>3, RanKeeps
    <3> QED  BY <1>1, <3>1 DEF PhyNeeded
  <2> QED  BY <2>2, <2>3
<1> QED  BY <1>1 DEF PhyNeeded

\* More PHY types asked for.
LEMMA PhyMore ==
    ASSUME NEW conf, NEW old, PhyNeeded(conf, old), NEW phys, old \subseteq phys
    PROVE  PhyNeeded(conf, phys)
BY DEF PhyNeeded, Ever

\* A list of commands that gives a part of what is asked for, if it succeeds,
\* and sets nothing else.
Own(part) ==
    Reads(part) \cup CASE part = "dot1x" -> {"eap_server", "own_ip_addr"}
                       [] part = "bands" -> {"ieee80211w"}
                       [] OTHER -> {}

\* The commands s give the part of what was asked, if they are done, and write nothing
\* but the properties of that part.
ServesPart(part, asked, s, phys) ==
    /\ Within(s, Own(part))
    /\ \A h, x : Done(h, s, x) /\ HasServers(h.conf) /\ PhyNeeded(x.conf, phys) =>
           /\ Given(part, asked, x.conf, phys)
           /\ asked[part] # <<>> => \A p \in Reads(part) : x.live[p] = x.conf[p]
           /\ part = "bands" => ProtectionGiven(asked.bands, x.conf)

\* Nothing serves what was not asked.
LEMMA ServesNothing ==
    ASSUME NEW part \in Parts, NEW asked, asked[part] = <<>>, NEW phys
    PROVE  ServesPart(part, asked, <<>>, phys)
<1>1. Within(<<>>, Own(part))
  BY WithinSmall
<1>2. \A conf : Given(part, asked, conf, phys)
  BY DEF Given
<1>3. part = "bands" => \A conf : ProtectionGiven(asked.bands, conf)
  BY DEF ProtectionGiven
<1> QED  BY <1>1, <1>2, <1>3 DEF ServesPart

\* WifiAccessPointSetPhyTypeImpl.
LEMMA ServesPhy ==
    ASSUME NEW accessPoint, NEW phy \in {ToDot11PhyType(p) : p \in Ieee80211PhyType},
           NEW asked, asked["phyType"] = IF Means(PhyNames, phy) THEN <<phy>> ELSE <<>>, NEW phys,
           NEW impl, impl = WifiAccessPointSetPhyTypeImpl(accessPoint, phy)
    PROVE  ServesPart("phyType", asked, impl, phys)
<1>1. Within(impl, Own("phyType"))
  <2>1. Within(impl, PhyProperties) /\ PhyProperties \subseteq Own("phyType")
    BY PhyGivenBy DEF Own, Reads
  <2> QED  BY <2>1, WithinMore
<1>2. ASSUME NEW h, NEW x, Done(h, impl, x), PhyNeeded(x.conf, phys)
      PROVE  Given("phyType", asked, x.conf, phys) /\ x.live = x.conf
  <2>1. PhySaid(phy, x.conf) /\ x.live = x.conf /\ Means(PhyNames, phy)
    BY <1>2, PhyGivenBy
  <2>2. asked.phyType = <<phy>>
    BY <2>1
  <2>3. PhyGiven(<<phy>>, x.conf, phys)
    BY <1>2, <2>1, PhyParts
  <2>4. PhyGiven(asked.phyType, x.conf, phys)
    BY <2>2, <2>3
  <2> QED  BY <2>1, <2>4 DEF Given
<1> QED  BY <1>1, <1>2 DEF ServesPart

\* WifiAccessPointSetAuthenticationDot1xImpl.
LEMMA ServesDot1x ==
    ASSUME NEW accessPoint, NEW dot1x, IsDot1x(dot1x),
           NEW asked, asked["dot1x"] = ServersAsked(dot1x), NEW phys,
           NEW impl, impl = WifiAccessPointSetAuthenticationDot1xImpl(accessPoint, dot1x)
    PROVE  ServesPart("dot1x", asked, impl, phys)
<1>1. Within(impl, Own("dot1x"))
  <2>1. Within(impl, Dot1xProperties) /\ Dot1xProperties \subseteq Own("dot1x")
    BY Dot1xGivenBy DEF Own, Reads, Dot1xProperties
  <2> QED  BY <2>1, WithinMore
<1>2. ASSUME NEW h, NEW x, Done(h, impl, x), HasServers(h.conf)
      PROVE  Given("dot1x", asked, x.conf, phys) /\ x.live = x.conf
  <2>1. Dot1xGiven(ServersAsked(dot1x), x.conf) /\ x.live = x.conf
    BY <1>2, Dot1xGivenBy
  <2> QED  BY <2>1 DEF Given
<1> QED  BY <1>1, <1>2 DEF ServesPart

\* WifiAccessPointSetAuthenticationAlgorithmsImpl.
LEMMA ServesAlgorithms ==
    ASSUME NEW accessPoint, NEW list, NEW asked, asked["algorithms"] = list, NEW phys,
           NEW impl, impl = WifiAccessPointSetAuthenticationAlgorithmsImpl(accessPoint, list)
    PROVE  ServesPart("algorithms", asked, impl, phys)
<1>1. Within(impl, Own("algorithms"))
  <2>1. Within(impl, {"auth_algs"}) /\ {"auth_algs"} \subseteq Own("algorithms")
    BY AlgorithmsGivenBy DEF Own, Reads
  <2> QED  BY <2>1, WithinMore
<1>2. ASSUME NEW h, NEW x, Done(h, impl, x)
      PROVE  Given("algorithms", asked, x.conf, phys) /\ x.live = x.conf
  <2>1. AlgorithmsGiven(list, x.conf) /\ x.live = x.conf
    BY <1>2, AlgorithmsGivenBy
  <2> QED  BY <2>1 DEF Given
<1> QED  BY <1>1, <1>2 DEF ServesPart

\* WifiAccessPointSetAkmSuitesImpl.
LEMMA ServesAkmSuites ==
    ASSUME NEW accessPoint, NEW list, NEW asked, asked["akmSuites"] = list, NEW phys,
           NEW impl, impl = WifiAccessPointSetAkmSuitesImpl(accessPoint, list)
    PROVE  ServesPart("akmSuites", asked, impl, phys)
<1>1. Within(impl, Own("akmSuites"))
  <2> DEFINE P == {"wpa_key_mgmt", "ieee8021x", "nas_identifier"}
  <2>1. P \subseteq Own("akmSuites")
    BY DEF Own, Reads
  <2>2. Within(impl, P)
    BY AkmGivenBy
  <2> QED  BY <2>1, <2>2, WithinMore
<1>2. ASSUME NEW h, NEW x, Done(h, impl, x)
      PROVE  Given("akmSuites", asked, x.conf, phys) /\ x.live = x.conf
  <2>1. AkmGiven(list, x.conf) /\ x.live = x.conf
    BY <1>2, AkmGivenBy
  <2> QED  BY <2>1 DEF Given
<1> QED  BY <1>1, <1>2 DEF ServesPart

\* WifiAccessPointSetPairwiseCipherSuitesImpl.
LEMMA ServesCiphers ==
    ASSUME NEW accessPoint, NEW list, IsList(list), NEW asked, asked["ciphers"] = list, NEW phys,
           NEW impl \in WifiAccessPointSetPairwiseCipherSuitesImpl(
                            accessPoint, ToDot11CipherSuiteMap(list))
    PROVE  ServesPart("ciphers", asked, impl, phys)
<1> DEFINE map == ToDot11CipherSuiteMap(list)
<1>0. map = ToDot11CipherSuiteMap(list)
      /\ impl \in WifiAccessPointSetPairwiseCipherSuitesImpl(accessPoint, map)
  OBVIOUS
<1> HIDE DEF map
<1>a. /\ Within(impl, Pairwise)
      /\ \A h, x : Done(h, impl, x) => CiphersGiven(list, x.conf) /\ x.live = x.conf
  BY <1>0, CiphersGivenBy
<1>1. Within(impl, Own("ciphers"))
  <2>1. Pairwise \subseteq Own("ciphers")
    BY DEF Own, Reads
  <2> QED  BY <1>a, <2>1, WithinMore
<1>2. ASSUME NEW h, NEW x, Done(h, impl, x)
      PROVE  Given("ciphers", asked, x.conf, phys) /\ x.live = x.conf
  <2>1. CiphersGiven(list, x.conf) /\ x.live = x.conf
    BY <1>a, <1>2
  <2> QED  BY <2>1 DEF Given
<1> QED  BY <1>1, <1>2 DEF ServesPart

\* WifiAccessPointSetSsidImpl.
LEMMA ServesSsid ==
    ASSUME NEW accessPoint, NEW ssid, NEW asked, asked["ssid"] = <<ssid.text>>, NEW phys,
           NEW impl, impl = WifiAccessPointSetSsidImpl(accessPoint, ssid)
    PROVE  ServesPart("ssid", asked, impl, phys)
<1>1. Within(impl, Own("ssid"))
  <2>1. Within(impl, {"ssid"}) /\ {"ssid"} \subseteq Own("ssid")
    BY SsidGivenBy DEF Own, Reads
  <2> QED  BY <2>1, WithinMore
<1>2. ASSUME NEW h, NEW x, Done(h, impl, x)
      PROVE  Given("ssid", asked, x.conf, phys) /\ x.live = x.conf
  <2>1. x.conf.ssid = <<ssid.text>> /\ x.live = x.conf
    BY <1>2, SsidGivenBy
  <2> QED  BY <2>1 DEF Given
<1> QED  BY <1>1, <1>2 DEF ServesPart

\* WifiAccessPointSetNetworkBridgeImpl.
LEMMA ServesBridge ==
    ASSUME NEW accessPoint, NEW bridge, NEW asked, asked["bridge"] \in {<<>>, <<bridge>>}, NEW phys,
           NEW impl, impl = WifiAccessPointSetNetworkBridgeImpl(accessPoint, bridge)
    PROVE  ServesPart("bridge", asked, impl, phys)
<1>1. Within(impl, Own("bridge"))
  <2>1. Within(impl, {"bridge"}) /\ {"bridge"} \subseteq Own("bridge")
    BY BridgeGivenBy DEF Own, Reads
  <2> QED  BY <2>1, WithinMore
<1>2. ASSUME NEW h, NEW x, Done(h, impl, x)
      PROVE  Given("bridge", asked, x.conf, phys) /\ x.live = x.conf
  <2>1. x.conf.bridge = <<bridge>> /\ x.live = x.conf
    BY <1>2, BridgeGivenBy
  <2> QED  BY <2>1 DEF Given
<1> QED  BY <1>1, <1>2 DEF ServesPart

\* WifiAccessPointSetFrequencyBandsImpl.
LEMMA ServesBands ==
    ASSUME NEW accessPoint,
           NEW bands \in Seq({ToDot11FrequencyBand(b) : b \in Ieee80211FrequencyBand}),
           NEW asked, asked["bands"] = bands, NEW phys,
           NEW impl, impl = WifiAccessPointSetFrequencyBandsImpl(accessPoint, bands)
    PROVE  ServesPart("bands", asked, impl, phys)
<1>0. /\ Within(impl, {"setband", "ieee80211w"})
      /\ \A h, x : Done(h, impl, x) =>
             /\ BandsGiven(bands, x.conf) /\ ProtectionGiven(bands, x.conf)
             /\ x.live.setband = x.conf.setband
  BY BandsGivenBy
<1>1. Within(impl, Own("bands"))
  <2> DEFINE P == {"setband", "ieee80211w"}
  <2>1. P \subseteq Own("bands")
    BY DEF Own, Reads
  <2> QED  BY <1>0, <2>1, WithinMore
<1>2. ASSUME NEW h, NEW x, Done(h, impl, x)
      PROVE  /\ Given("bands", asked, x.conf, phys) /\ ProtectionGiven(asked.bands, x.conf)
             /\ \A p \in Reads("bands") : x.live[p] = x.conf[p]
  <2>1. /\ BandsGiven(bands, x.conf) /\ ProtectionGiven(bands, x.conf)
        /\ x.live.setband = x.conf.setband
    BY <1>0, <1>2
  <2>2. Reads("bands") = {"setband"}
    BY DEF Reads
  <2> QED  BY <2>1, <2>2 DEF Given
<1> QED  BY <1>1, <1>2 DEF ServesPart

-----------------------------------------------------------------------------
(* What the requests of the API ask for *)

\* The key data a request asks for.
MacOf(m) == IF m.size >= 6 THEN [m EXCEPT !.size = 6] ELSE [size |-> 6, is |-> "zeros"]

\* A password as its client asks for it.
PasswordOf(p) ==
    Password(p.credential, IF p.passwordId = "" THEN <<>> ELSE <<p.passwordId>>,
             Each(MacOf, p.peerMacAddress))

\* The keys and passwords asked for, if any.
DataAsked(data) ==
    IF data.psk = <<>> /\ data.sae = <<>> THEN <<>>
    ELSE KeyData(Optional(data.psk, <<>>), Each(PasswordOf, Optional(data.sae, <<>>)))

\* A password that is given is the one that was asked for.
LEMMA PasswordsAgree ==
    \A p : PasswordOf(p) = PasswordGiven(p)
<1> SUFFICES ASSUME NEW p PROVE PasswordOf(p) = PasswordGiven(p)
  OBVIOUS
<1> DEFINE id == IF p.passwordId = "" THEN <<>> ELSE <<p.passwordId>>
           macs == Each(MacOf, p.peerMacAddress)
           from == FromDot11RsnaPassword(p)
<1>1. \A m : FromDot11MacAddress(m) = MacOf(m)
  BY DEF FromDot11MacAddress, MacOf, MacAddressSize, Ieee80211MacAddressZero
<1>2. Each(FromDot11MacAddress, p.peerMacAddress) = macs
  BY <1>1 DEF Each
<1>3. from = [Credential |-> p.credential,
              PeerMacAddress |-> Each(FromDot11MacAddress, p.peerMacAddress), PasswordId |-> id]
  BY DEF FromDot11RsnaPassword
<1> HIDE DEF id, macs, from
<1>4. from.Credential = p.credential /\ from.PeerMacAddress = macs /\ from.PasswordId = id
  BY <1>2, <1>3
<1>5. PasswordGiven(p) = [Credential |-> p.credential, PasswordId |-> id, PeerMacAddress |-> macs]
  BY <1>4 DEF PasswordGiven, Ieee80211RsnaPasswordToWpaSaePassword, from
<1>6. PasswordOf(p) = [Credential |-> p.credential, PasswordId |-> id, PeerMacAddress |-> macs]
  BY DEF PasswordOf, Password, id, macs
<1> QED  BY <1>5, <1>6

\* WifiAccessPointSetAuthenticationDataImpl.
LEMMA ServesData ==
    ASSUME NEW accessPoint, NEW data, IsData(data),
           NEW asked, asked["data"] = DataAsked(data), NEW phys,
           NEW impl, impl = WifiAccessPointSetAuthenticationDataImpl(accessPoint, data)
    PROVE  ServesPart("data", asked, impl, phys)
<1> DEFINE text == Optional(data.psk, <<>>)
           passwords == Optional(data.sae, <<>>)
           given == [i \in DOMAIN data.sae[1] |-> PasswordGiven(data.sae[1][i])]
           key == [key |-> text, passwords |-> Each(PasswordOf, passwords)]
<1>1. Within(impl, Own("data"))
  <2> DEFINE P == {"psk", "sae_password"}
  <2>1. P \subseteq Own("data")
    BY DEF Own, Reads
  <2>2. Within(impl, P)
    BY DataGivenBy
  <2> QED  BY <2>1, <2>2, WithinMore
<1>2. ASSUME NEW h, NEW x, Done(h, impl, x)
      PROVE  Given("data", asked, x.conf, phys) /\ x.live = x.conf
  <2>1. /\ data.psk # <<>> =>
              /\ data.psk[1][1].encoding = "passphrase"
              /\ x.conf.psk = <<"wpa_passphrase",
                                [size |-> data.psk[1][1].size, is |-> data.psk[1][1].is]>>
        /\ data.sae # <<>> => x.conf.sae_password = given
        /\ x.live = x.conf
    BY <1>2, DataGivenBy
  <2>2. CASE data.psk = <<>> /\ data.sae = <<>>
    BY <2>1, <2>2 DEF DataAsked, Given
  <2>3. CASE ~(data.psk = <<>> /\ data.sae = <<>>)
    <3>1. asked.data = <<key>>
      BY <2>3 DEF DataAsked, KeyData
    <3>2. key.key = text /\ key.passwords = Each(PasswordOf, passwords)
      OBVIOUS
    <3>3. text # <<>> => data.psk # <<>> /\ text = data.psk[1]
      BY DEF Optional
    <3>4. Each(PasswordOf, passwords) # <<>> =>
              data.sae # <<>> /\ Each(PasswordOf, passwords) = given
      <4>1. ASSUME data.sae = <<>> PROVE Each(PasswordOf, passwords) = <<>>
        <5>1. passwords = <<>>
          BY <4>1 DEF Optional
        <5> QED  BY <5>1 DEF Each
      <4>2. ASSUME data.sae # <<>> PROVE Each(PasswordOf, passwords) = given
        <5>1. passwords = data.sae[1]
          BY <4>2 DEF Optional
        <5>2. Each(PasswordOf, passwords) =
                  [i \in DOMAIN data.sae[1] |-> PasswordOf(data.sae[1][i])]
          BY <5>1 DEF Each
        <5> QED  BY <5>2, PasswordsAgree
      <4> QED  BY <4>1, <4>2
    <3> HIDE DEF key, text, given
    <3> DEFINE psk == <<"wpa_passphrase", [size |-> text[1].size, is |-> text[1].is]>>
               list == Each(PasswordOf, passwords)
    <3>5. text # <<>> => x.conf.psk = psk /\ text[1].encoding = "passphrase"
      BY <2>1, <3>3
    <3>6. list # <<>> => x.conf.sae_password = list
      BY <2>1, <3>4
    <3>a. text # <<>> => x.conf.psk = Installed(text[1])
      BY <3>5 DEF Installed
    <3>7. DataGiven(key, x.conf)
      <4> HIDE DEF list
      <4> QED  BY <3>2, <3>a, <3>6 DEF DataGiven, list
    <3>8. asked.data[1] = key
      BY <3>1
    <3> QED  BY <2>1, <3>7, <3>8 DEF Given
  <2> QED  BY <2>2, <2>3
<1> QED  BY <1>1, <1>2 DEF ServesPart

\* What a request asks for, field by field.
FieldOr(request, field, none) == IF field \in DOMAIN request THEN request[field] ELSE none

\* A field of a request, or none.
Field(request, field) == FieldOr(request, field, <<>>)

\* What HeardOfRequest reads.
LEMMA AskedFields ==
    ASSUME NEW request, NEW asked, asked = HeardOfRequest(request)
    PROVE  /\ asked.phyType = IF Means(PhyNames, FieldOr(request, "phyType", ""))
                              THEN <<request.phyType>> ELSE <<>>
           /\ asked.algorithms = Field(request, "algorithms")
           /\ asked.akmSuites = Field(request, "akmSuites")
           /\ asked.ciphers = Field(request, "ciphers")
           /\ asked.ssid = [i \in DOMAIN Field(request, "ssid") |-> request.ssid[i].text]
           /\ asked.bands = Field(request, "bands")
           /\ asked.bridge = IF FieldOr(request, "bridge", "") = ""
                             THEN <<>> ELSE <<request.bridge>>
           /\ asked.state = CASE request.api = "WifiAccessPointEnable" -> <<"ENABLED">>
                              [] request.api = "WifiAccessPointDisable" -> <<"DISABLED">>
                              [] OTHER -> <<>>
BY DEF HeardOfRequest, NothingAsked, FieldOr, Field

\* Of the keys and passwords.
LEMMA AskedData ==
    ASSUME NEW request, NEW asked, asked = HeardOfRequest(request)
    PROVE  asked.data = IF Field(request, "data") = <<>> THEN <<>> ELSE DataAsked(request.data)
BY DEF HeardOfRequest, NothingAsked, FieldOr, Field, DataAsked, PasswordOf, MacOf, Each

\* And of the servers.
LEMMA AskedServers ==
    ASSUME NEW request, NEW asked, asked = HeardOfRequest(request), IsRequest(request)
    PROVE  /\ request.api = "WifiAccessPointSetAuthenticationDot1x" =>
                  asked.dot1x = ServersAsked(request.dot1x)
           /\ request.api = "WifiAccessPointEnable" =>
                  asked.dot1x = IF request.dot1x = <<>> THEN <<>>
                                ELSE ServersAsked(request.dot1x[1])
           /\ request.api \notin {"WifiAccessPointSetAuthenticationDot1x",
                                  "WifiAccessPointEnable"} => asked.dot1x = <<>>
<1> DEFINE Dot1x(dot1x) ==
               Optional([i \in DOMAIN dot1x.radius |-> ServersOf(dot1x.radius[i])], <<>>)
<1>1. asked.dot1x = CASE request.api = "WifiAccessPointEnable" ->
                              Optional([i \in DOMAIN request.dot1x |-> Dot1x(request.dot1x[i])],
                                       <<>>)
                      [] request.api = "WifiAccessPointSetAuthenticationDot1x" ->
                              Dot1x(request.dot1x)
                      [] OTHER -> <<>>
  BY DEF HeardOfRequest, NothingAsked, ServersOf, AllServers, Wanted, Each
<1>2. ASSUME NEW dot1x, IsDot1x(dot1x) PROVE Dot1x(dot1x) = ServersAsked(dot1x)
  <2> DEFINE t == [i \in DOMAIN dot1x.radius |-> ServersOf(dot1x.radius[i])]
  <2>1. CASE dot1x.radius = <<>>
    BY <2>1 DEF ServersAsked, Optional
  <2>2. CASE dot1x.radius # <<>>
    <3> DEFINE r == dot1x.radius[1]
               l == dot1x.radius
    <3>0. IsOptional(l) /\ l # <<>>
      BY <1>2, <2>2 DEF IsDot1x
    <3>1. l = <<r>>
      <4> HIDE DEF l
      <4>1. l = <<l[1]>>
        BY <3>0, Optionals
      <4> QED  BY <4>1 DEF l
    <3>2. t = [i \in DOMAIN l |-> ServersOf(l[i])]
      OBVIOUS
    <3> HIDE DEF r, t, l
    <3>3. t = [i \in {1} |-> ServersOf(l[i])] /\ l[1] = r
      BY <3>1, <3>2
    <3>4. t # <<>> /\ t[1] = ServersOf(r)
      <4>1. DOMAIN t = {1}
        BY <3>3
      <4> QED  BY <3>3, <4>1
    <3> QED  BY <2>2, <3>4 DEF ServersAsked, Optional, t, r
  <2> QED  BY <2>1, <2>2
<1> HIDE DEF Dot1x
<1>3. CASE request.api = "WifiAccessPointSetAuthenticationDot1x"
  <2>1. "dot1x" \in RequestFields[request.api]
    BY <1>3 DEF RequestFields
  <2>2. IsField(request, "dot1x")
    BY <2>1 DEF IsRequest
  <2>3. IsDot1x(request.dot1x)
    BY <1>3, <2>2 DEF IsField
  <2> QED  BY <1>1, <1>2, <1>3, <2>3
<1>4. CASE request.api = "WifiAccessPointEnable"
  <2> DEFINE v == request.dot1x
             t == [i \in DOMAIN v |-> Dot1x(v[i])]
  <2>5. "dot1x" \in RequestFields[request.api]
    BY <1>4 DEF RequestFields
  <2>6. IsField(request, "dot1x")
    BY <2>5 DEF IsRequest
  <2>1. IsOptional(v) /\ \A d \in ToSet(v) : IsDot1x(d)
    BY <1>4, <2>6 DEF IsField
  <2>2. asked.dot1x = Optional(t, <<>>)
    BY <1>1, <1>4
  <2>3. CASE v = <<>>
    BY <1>4, <2>2, <2>3 DEF Optional
  <2>4. CASE v # <<>>
    <3> DEFINE d == v[1]
    <3>1. v = <<d>> /\ d \in ToSet(v)
      BY <2>1, <2>4, Optionals
    <3> HIDE DEF d, v
    <3>2. t = [i \in {1} |-> Dot1x(v[i])] /\ v[1] = d
      BY <3>1
    <3> HIDE DEF t
    <3>3. DOMAIN t = {1} /\ t[1] = Dot1x(d)
      BY <3>2
    <3>4. t # <<>>
      BY <3>3
    <3>5. Dot1x(d) = ServersAsked(d)
      BY <1>2, <2>1, <3>1
    <3>6. asked.dot1x = ServersAsked(d)
      BY <2>2, <3>3, <3>4, <3>5 DEF Optional
    <3>7. d = request.dot1x[1]
      BY DEF d, v
    <3> QED  BY <1>4, <2>4, <3>6, <3>7 DEF v
  <2> QED  BY <2>3, <2>4
<1>5. CASE request.api \notin {"WifiAccessPointSetAuthenticationDot1x", "WifiAccessPointEnable"}
  BY <1>1, <1>5
<1> QED  BY <1>3, <1>4, <1>5

\* The forms IsField gives the fields of a request.
LEMMA FieldForms ==
    ASSUME NEW request, IsRequest(request), NEW field \in RequestFields[request.api]
    PROVE  /\ field = "phyType" => request.phyType \in {ToDot11PhyType(p) : p \in Ieee80211PhyType}
           /\ field = "bands" =>
                 request.bands \in Seq({ToDot11FrequencyBand(b) : b \in Ieee80211FrequencyBand})
           /\ field = "ssid" => IsOptional(request.ssid)
           /\ field = "data" => IsData(request.data)
           /\ field \in {"algorithms", "akmSuites"} => IsList(request[field])
           /\ field = "ciphers" => IsList(request.ciphers)
           /\ field = "dot1x" /\ request.api = "WifiAccessPointEnable" =>
                 IsOptional(request.dot1x) /\ \A d \in ToSet(request.dot1x) : IsDot1x(d)
           /\ field = "dot1x" /\ request.api # "WifiAccessPointEnable" => IsDot1x(request.dot1x)
<1>1. IsField(request, field)
  BY DEF IsRequest
<1> QED  BY <1>1 DEF IsField, IsData

\* The fields a request has are those of its API.
LEMMA FieldsOf ==
    ASSUME NEW request, IsRequest(request)
    PROVE  /\ request.api \in DOMAIN RequestFields
           /\ \A field \in {"phyType", "dot1x", "algorithms", "data", "akmSuites", "ciphers",
                            "ssid", "bands", "bridge"} :
                 field \in DOMAIN request <=> field \in RequestFields[request.api]
BY DEF IsRequest

\* No name is no PHY type.
LEMMA EmptyName == ~Means(PhyNames, "")
<1>1. \A thing \in DOMAIN PhyNames : "" \notin PhyNames[thing]
  <2> DEFINE e == ""
  <2>1. /\ e # "a" /\ e # "b" /\ e # "g" /\ e # "n" /\ e # "ac" /\ e # "ax"
        /\ e # "Dot11PhyTypeA" /\ e # "Dot11PhyTypeB" /\ e # "Dot11PhyTypeG"
        /\ e # "Dot11PhyTypeN" /\ e # "Dot11PhyTypeAC" /\ e # "Dot11PhyTypeAX"
        /\ e # "Dot11PhyTypeAD" /\ e # "Dot11PhyTypeBE"
    BY Zenon
  <2> HIDE DEF e
  <2>2. \A thing \in DOMAIN PhyNames : e \notin PhyNames[thing]
    BY <2>1 DEF PhyNames
  <2> QED  BY <2>2 DEF e
<1> QED  BY <1>1 DEF Means

\* What no field is for is not asked for.
LEMMA NotAsked ==
    ASSUME NEW request, NEW asked, asked = HeardOfRequest(request), IsRequest(request),
           NEW part \in Parts, part \notin RequestFields[request.api]
    PROVE  asked[part] = <<>>
<1>1. part \in {"phyType", "dot1x", "algorithms", "data", "akmSuites", "ciphers", "ssid", "bands",
                "bridge"}
  BY DEF Parts, NothingAsked
<1>2. part \notin DOMAIN request
  BY <1>1, FieldsOf
<1>3. CASE part = "phyType"
  <2>1. FieldOr(request, "phyType", "") = ""
    BY <1>2, <1>3 DEF FieldOr
  <2> QED  BY <1>3, <2>1, AskedFields, EmptyName
<1>4. CASE part = "dot1x"
  <2>1. request.api \notin {"WifiAccessPointSetAuthenticationDot1x", "WifiAccessPointEnable"}
    BY <1>4 DEF RequestFields
  <2> QED  BY <1>4, <2>1, AskedServers
<1>5. CASE part = "bridge"
  <2>1. FieldOr(request, "bridge", "") = ""
    BY <1>2, <1>5 DEF FieldOr
  <2> QED  BY <1>5, <2>1, AskedFields
<1>6. CASE part \in {"algorithms", "akmSuites", "ciphers", "ssid", "bands", "data"}
  <2>1. Field(request, part) = <<>>
    BY <1>2, <1>6 DEF FieldOr, Field
  <2>2. CASE part = "data"
    BY <2>1, <2>2, AskedData
  <2>3. CASE part = "ssid"
    <3> DEFINE f == Field(request, "ssid")
               t == [i \in DOMAIN f |-> request.ssid[i].text]
    <3>1. asked.ssid = t
      BY AskedFields
    <3>2. f = <<>>
      BY <2>1, <2>3
    <3> HIDE DEF f
    <3>3. t = <<>>
      BY <3>2
    <3> QED  BY <2>3, <3>1, <3>3
  <2>4. CASE part \in {"algorithms", "akmSuites", "ciphers", "bands"}
    <3>1. /\ asked.algorithms = Field(request, "algorithms")
          /\ asked.akmSuites = Field(request, "akmSuites")
          /\ asked.ciphers = Field(request, "ciphers") /\ asked.bands = Field(request, "bands")
      BY AskedFields
    <3> QED  BY <2>1, <2>4, <3>1
  <2> QED  BY <1>6, <2>2, <2>3, <2>4
<1> QED  BY <1>1, <1>3, <1>4, <1>5, <1>6

\* What AskedIsGiven says of hostapd.
Fulfilled(asked, x, phys) ==
    /\ \A part \in Parts : Given(part, asked, x.live, phys)
    /\ ProtectionGiven(asked.bands, x.conf)
    /\ asked.state \in {<<>>, <<x.state>>}

\* Where nothing is asked everything is given.
LEMMA NothingFulfilled ==
    ASSUME NEW asked, \A part \in Parts : asked[part] = <<>>, NEW x,
           asked.state \in {<<>>, <<x.state>>}, NEW phys
    PROVE  Fulfilled(asked, x, phys)
<1>1. asked.bands = <<>>
  BY DEF Parts, NothingAsked
<1>2. \A part \in Parts : Given(part, asked, x.live, phys)
  BY DEF Given
<1>3. ProtectionGiven(asked.bands, x.conf)
  BY <1>1 DEF ProtectionGiven
<1> QED  BY <1>2, <1>3 DEF Fulfilled

\* One part that is given, and no other is asked.
LEMMA OneFulfilled ==
    ASSUME NEW asked, NEW part \in Parts, \A q \in Parts \ {part} : asked[q] = <<>>,
           asked.state = <<>>, NEW impl, NEW phys, ServesPart(part, asked, impl, phys),
           NEW h, NEW x, Done(h, impl, x), HasServers(h.conf), PhyNeeded(x.conf, phys)
    PROVE  Fulfilled(asked, x, phys)
<1>1. /\ Given(part, asked, x.conf, phys)
      /\ asked[part] # <<>> => \A p \in Reads(part) : x.live[p] = x.conf[p]
      /\ part = "bands" => ProtectionGiven(asked.bands, x.conf)
  BY DEF ServesPart
<1>2. Given(part, asked, x.live, phys)
  <2>1. CASE asked[part] = <<>>
    BY <2>1 DEF Given
  <2>2. CASE asked[part] # <<>>
    BY <1>1, <2>2, GivenReads
  <2> QED  BY <2>1, <2>2
<1>3. ASSUME NEW q \in Parts PROVE Given(q, asked, x.live, phys)
  <2>1. CASE q = part
    BY <1>2, <2>1
  <2>2. CASE q # part
    BY <2>2 DEF Given
  <2> QED  BY <2>1, <2>2
<1>4. ProtectionGiven(asked.bands, x.conf)
  <2>1. CASE part = "bands"
    BY <1>1, <2>1
  <2>2. CASE part # "bands"
    <3>1. asked.bands = <<>>
      BY <2>2 DEF Parts, NothingAsked
    <3> QED  BY <3>1 DEF ProtectionGiven
  <2> QED  BY <2>1, <2>2
<1> QED  BY <1>3, <1>4 DEF Fulfilled

\* The requests for one part.
PartOf ==
    [WifiAccessPointSetPhyType |-> "phyType", WifiAccessPointSetFrequencyBands |-> "bands",
     WifiAccessPointSetSsid |-> "ssid", WifiAccessPointSetNetworkBridge |-> "bridge",
     WifiAccessPointSetAuthenticationDot1x |-> "dot1x"]

\* The requests for one part ask for no other.
LEMMA OnePart ==
    ASSUME NEW request, IsRequest(request), request.api \in DOMAIN PartOf,
           NEW asked, asked = HeardOfRequest(request),
           NEW part, part = PartOf[request.api]
    PROVE  /\ part \in Parts /\ part \in RequestFields[request.api]
           /\ \A q \in Parts \ {part} : asked[q] = <<>>
           /\ asked.state = <<>>
<1>1. request.api \in {"WifiAccessPointSetPhyType", "WifiAccessPointSetFrequencyBands",
                       "WifiAccessPointSetSsid", "WifiAccessPointSetNetworkBridge",
                       "WifiAccessPointSetAuthenticationDot1x"}
  BY DEF PartOf
<1>2. RequestFields[request.api] = {"id", part}
  BY <1>1 DEF PartOf, RequestFields
<1>3. part \in Parts /\ "id" \notin Parts
  BY <1>1 DEF PartOf, Parts, NothingAsked
<1>4. \A q \in Parts \ {part} : asked[q] = <<>>
  BY <1>2, <1>3, NotAsked
<1>5. asked.state = <<>>
  BY <1>1, AskedFields
<1> QED  BY <1>2, <1>3, <1>4, <1>5

\* An optional value that is there.
LEMMA OptionalAsked ==
    ASSUME NEW v, IsOptional(v), v # <<>>
    PROVE  v = <<v[1]>> /\ DOMAIN v = {1} /\ v[1] \in ToSet(v)
<1> DEFINE e == v[1]
<1>1. v = <<e>> /\ ToSet(v) = {e}
  BY Optionals
<1> HIDE DEF e
<1>2. DOMAIN v = {1} /\ e \in ToSet(v)
  BY <1>1
<1> QED  BY <1>1, <1>2 DEF e

\* The text of an SSID that is there.
LEMMA SsidAsked ==
    ASSUME NEW ssid, IsOptional(ssid), NEW t, t = [i \in DOMAIN ssid |-> ssid[i].text]
    PROVE  /\ ssid = <<>> => t = <<>>
           /\ ssid # <<>> => t = <<ssid[1].text>>
<1>1. CASE ssid = <<>>
  BY <1>1
<1>2. CASE ssid # <<>>
  <2> DEFINE e == ssid[1]  text == e.text
  <2>1. ssid = <<e>>
    BY <1>2, OptionalAsked
  <2> HIDE DEF e
  <2>2. t = [i \in {1} |-> text]
    BY <2>1
  <2> HIDE DEF text
  <2>3. t = <<text>>
    BY <2>2
  <2> QED  BY <1>2, <2>3 DEF text, e
<1> QED  BY <1>1, <1>2

\* Commands that cannot be done serve anything.
LEMMA RefusedServes ==
    ASSUME NEW part \in Parts, NEW asked, NEW phys, NEW impl, impl = Refuse("InvalidParameter")
    PROVE  ServesPart(part, asked, impl, phys)
<1>1. Within(impl, Own(part))
  BY WithinSmall
<1>2. ASSUME NEW h, NEW x, Done(h, impl, x) PROVE FALSE
  <2>1. Passes(impl)
    BY <1>2, DonePasses
  <2> QED  BY <2>1 DEF Passes, Refuse, Stops
<1> QED  BY <1>1, <1>2 DEF ServesPart

\* The request for one part serves it.
LEMMA SetterServes ==
    ASSUME NEW request, IsRequest(request), request.api \in DOMAIN PartOf,
           NEW asked, asked = HeardOfRequest(request), NEW accessPoint,
           NEW commands \in Changes(accessPoint, request), NEW phys
    PROVE  ServesPart(PartOf[request.api], asked, commands, phys)
<1>1. request.api \in {"WifiAccessPointSetPhyType", "WifiAccessPointSetFrequencyBands",
                       "WifiAccessPointSetSsid", "WifiAccessPointSetNetworkBridge",
                       "WifiAccessPointSetAuthenticationDot1x"}
  BY DEF PartOf
<1>2. CASE request.api = "WifiAccessPointSetPhyType"
  <2>1. PartOf[request.api] = "phyType" /\ "phyType" \in RequestFields[request.api]
    BY <1>2, OnePart DEF PartOf
  <2>2. request.phyType \in {ToDot11PhyType(p) : p \in Ieee80211PhyType}
    BY <2>1, FieldForms
  <2>3. FieldOr(request, "phyType", "") = request.phyType
    BY <2>1, FieldsOf DEF FieldOr
  <2>4. asked.phyType = IF Means(PhyNames, request.phyType) THEN <<request.phyType>> ELSE <<>>
    BY <2>3, AskedFields
  <2>5. commands = WifiAccessPointSetPhyTypeImpl(accessPoint, request.phyType)
    BY <1>2 DEF Changes
  <2> QED  BY <2>1, <2>2, <2>4, <2>5, ServesPhy
<1>3. CASE request.api = "WifiAccessPointSetFrequencyBands"
  <2>1. PartOf[request.api] = "bands" /\ "bands" \in RequestFields[request.api]
    BY <1>3, OnePart DEF PartOf
  <2>2. request.bands \in Seq({ToDot11FrequencyBand(b) : b \in Ieee80211FrequencyBand})
    BY <2>1, FieldForms
  <2>3. Field(request, "bands") = request.bands
    BY <2>1, FieldsOf DEF FieldOr, Field
  <2>4. asked.bands = request.bands
    BY <2>3, AskedFields
  <2>5. commands = WifiAccessPointSetFrequencyBandsImpl(accessPoint, request.bands)
    BY <1>3 DEF Changes
  <2> QED  BY <2>1, <2>2, <2>4, <2>5, ServesBands
<1>4. CASE request.api = "WifiAccessPointSetSsid"
  <2>1. PartOf[request.api] = "ssid" /\ "ssid" \in RequestFields[request.api]
    BY <1>4, OnePart DEF PartOf
  <2>2. IsOptional(request.ssid)
    BY <2>1, FieldForms
  <2>3. Field(request, "ssid") = request.ssid
    BY <2>1, FieldsOf DEF FieldOr, Field
  <2>4. asked.ssid = [i \in DOMAIN request.ssid |-> request.ssid[i].text]
    <3> DEFINE t(f) == [i \in DOMAIN f |-> request.ssid[i].text]
    <3>1. asked.ssid = t(Field(request, "ssid"))
      BY AskedFields
    <3> HIDE DEF t
    <3>2. asked.ssid = t(request.ssid)
      BY <2>3, <3>1
    <3> QED  BY <3>2 DEF t
  <2>5. commands = IF request.ssid = <<>> THEN Refuse("InvalidParameter")
                   ELSE WifiAccessPointSetSsidImpl(accessPoint, request.ssid[1])
    BY <1>4 DEF Changes
  <2>6. CASE request.ssid = <<>>
    <3>1. "ssid" \in Parts
      BY DEF Parts, NothingAsked
    <3> QED  BY <2>1, <2>5, <2>6, <3>1, RefusedServes
  <2>7. CASE request.ssid # <<>>
    <3> DEFINE ssid == request.ssid[1]
    <3>1. asked.ssid = <<ssid.text>>
      BY <2>2, <2>4, <2>7, SsidAsked
    <3>2. commands = WifiAccessPointSetSsidImpl(accessPoint, ssid)
      BY <2>5, <2>7
    <3> HIDE DEF ssid
    <3> QED  BY <2>1, <3>1, <3>2, ServesSsid
  <2> QED  BY <2>6, <2>7
<1>5. CASE request.api = "WifiAccessPointSetNetworkBridge"
  <2>1. PartOf[request.api] = "bridge" /\ "bridge" \in RequestFields[request.api]
    BY <1>5, OnePart DEF PartOf
  <2> DEFINE bridge == request.bridge
  <2>2. asked.bridge \in {<<>>, <<bridge>>}
    BY AskedFields
  <2>3. commands = WifiAccessPointSetNetworkBridgeImpl(accessPoint, bridge)
    BY <1>5 DEF Changes
  <2> HIDE DEF bridge
  <2>4. asked["bridge"] \in {<<>>, <<bridge>>}
    BY <2>2
  <2>5. ServesPart("bridge", asked, commands, phys)
    BY ONLY <2>3, <2>4, ServesBridge
  <2> QED  BY <2>1, <2>5
<1>6. CASE request.api = "WifiAccessPointSetAuthenticationDot1x"
  <2>1. PartOf[request.api] = "dot1x" /\ "dot1x" \in RequestFields[request.api]
    BY <1>6, OnePart DEF PartOf
  <2>2. IsDot1x(request.dot1x)
    BY <1>6, <2>1, FieldForms
  <2>3. asked.dot1x = ServersAsked(request.dot1x)
    BY <1>6, AskedServers
  <2>4. commands = WifiAccessPointSetAuthenticationDot1xImpl(accessPoint, request.dot1x)
    BY <1>6 DEF Changes
  <2> QED  BY <2>1, <2>2, <2>3, <2>4, ServesDot1x
<1> QED  BY <1>1, <1>2, <1>3, <1>4, <1>5, <1>6

\* So what it asks for is fulfilled.
LEMMA SetterFulfilled ==
    ASSUME NEW request, IsRequest(request), request.api \in DOMAIN PartOf,
           NEW asked, asked = HeardOfRequest(request), NEW accessPoint,
           NEW commands \in Changes(accessPoint, request), NEW phys,
           NEW h, NEW x, Done(h, commands, x), HasServers(h.conf), PhyNeeded(x.conf, phys)
    PROVE  Fulfilled(asked, x, phys)
<1> DEFINE part == PartOf[request.api]
<1>1. ServesPart(part, asked, commands, phys)
  BY SetterServes
<1>2. part \in Parts /\ (\A q \in Parts \ {part} : asked[q] = <<>>) /\ asked.state = <<>>
  BY OnePart
<1> HIDE DEF part
<1> QED  BY <1>1, <1>2, OneFulfilled

-----------------------------------------------------------------------------
(* The enabling of an access point *)

\* The sequences the ciphers of a configuration may give.
EnableCiphers(accessPoint, request) ==
    IF request.ciphers = <<>> THEN {<<>>}
    ELSE WifiAccessPointSetPairwiseCipherSuitesImpl(accessPoint,
                                                    ToDot11CipherSuiteMap(request.ciphers))

\* WifiAccessPointEnableImpl: its PHY type, if there is one.
LEMMA EnablePhy ==
    ASSUME NEW request, IsRequest(request), request.api = "WifiAccessPointEnable",
           NEW asked, asked = HeardOfRequest(request), NEW accessPoint, NEW phys
    PROVE  LET impl == IF request.phyType # "Dot11PhyTypeUnknown"
                       THEN WifiAccessPointSetPhyTypeImpl(accessPoint, request.phyType) ELSE <<>>
           IN  ServesPart("phyType", asked, impl, phys)
<1>1. "phyType" \in RequestFields[request.api] /\ "phyType" \in Parts
  BY DEF RequestFields, Parts, NothingAsked
<1> DEFINE phy == request.phyType
<1>2. phy \in {ToDot11PhyType(p) : p \in Ieee80211PhyType}
  BY <1>1, FieldForms
<1>3. FieldOr(request, "phyType", "") = phy
  BY <1>1, FieldsOf DEF FieldOr
<1>4. asked["phyType"] = IF Means(PhyNames, phy) THEN <<phy>> ELSE <<>>
  BY <1>3, AskedFields
<1> HIDE DEF phy
<1>5. CASE phy = "Dot11PhyTypeUnknown"
  <2>1. ~Means(PhyNames, phy)
    BY <1>5 DEF Means, PhyNames
  <2>2. ServesPart("phyType", asked, <<>>, phys)
    BY <1>1, <1>4, <2>1, ServesNothing
  <2> QED  BY <1>5, <2>2 DEF phy
<1>6. CASE phy # "Dot11PhyTypeUnknown"
  <2> DEFINE impl == WifiAccessPointSetPhyTypeImpl(accessPoint, phy)
  <2>1. ServesPart("phyType", asked, impl, phys)
    BY <1>2, <1>4, ServesPhy
  <2> QED  BY <1>6, <2>1 DEF phy
<1> QED  BY <1>5, <1>6

\* Its servers.
LEMMA EnableDot1x ==
    ASSUME NEW request, IsRequest(request), request.api = "WifiAccessPointEnable",
           NEW asked, asked = HeardOfRequest(request), NEW accessPoint, NEW phys,
           NEW t, t = [i \in DOMAIN request.dot1x |->
                          WifiAccessPointSetAuthenticationDot1xImpl(accessPoint, request.dot1x[i])]
    PROVE  ServesPart("dot1x", asked, FlattenSeq(t), phys)
<1>1. "dot1x" \in RequestFields[request.api] /\ "dot1x" \in Parts
  BY DEF RequestFields, Parts, NothingAsked
<1> DEFINE v == request.dot1x
<1>2. IsOptional(v) /\ \A d \in ToSet(v) : IsDot1x(d)
  BY <1>1, FieldForms
<1>3. asked.dot1x = IF v = <<>> THEN <<>> ELSE ServersAsked(v[1])
  BY AskedServers
<1>4. t = [i \in DOMAIN v |-> WifiAccessPointSetAuthenticationDot1xImpl(accessPoint, v[i])]
  OBVIOUS
<1> HIDE DEF v
<1>5. t = [i \in DOMAIN v |-> t[i]]
  BY <1>4
<1>6. /\ v = <<>> => FlattenSeq(t) = <<>>
      /\ v # <<>> => FlattenSeq(t) = t[1] /\ DOMAIN v = {1} /\ v[1] \in ToSet(v)
  BY <1>2, <1>5, FlattenOptional
<1>7. CASE v = <<>>
  BY <1>1, <1>3, <1>6, <1>7, ServesNothing
<1>8. CASE v # <<>>
  <2> DEFINE d == v[1]
             impl == WifiAccessPointSetAuthenticationDot1xImpl(accessPoint, d)
  <2>1. FlattenSeq(t) = impl /\ IsDot1x(d)
    BY <1>2, <1>4, <1>6, <1>8
  <2>2. asked["dot1x"] = ServersAsked(d)
    BY <1>3, <1>8
  <2> HIDE DEF d
  <2>3. ServesPart("dot1x", asked, impl, phys)
    BY <2>1, <2>2, ServesDot1x
  <2> QED  BY <2>1, <2>3
<1> QED  BY <1>7, <1>8

\* Its SSID.
LEMMA EnableSsid ==
    ASSUME NEW request, IsRequest(request), request.api = "WifiAccessPointEnable",
           NEW asked, asked = HeardOfRequest(request), NEW accessPoint, NEW phys,
           NEW t, t = [i \in DOMAIN request.ssid |->
                          WifiAccessPointSetSsidImpl(accessPoint, request.ssid[i])]
    PROVE  ServesPart("ssid", asked, FlattenSeq(t), phys)
<1>1. "ssid" \in RequestFields[request.api] /\ "ssid" \in Parts
  BY DEF RequestFields, Parts, NothingAsked
<1> DEFINE v == request.ssid
           text(f) == [i \in DOMAIN f |-> request.ssid[i].text]
<1>2. IsOptional(v)
  BY <1>1, FieldForms
<1>a. Field(request, "ssid") = v
  BY <1>1, FieldsOf DEF FieldOr, Field
<1>b. asked.ssid = text(Field(request, "ssid"))
  BY AskedFields
<1> HIDE DEF text
<1>c. asked.ssid = text(v)
  BY <1>a, <1>b
<1>3. asked.ssid = [i \in DOMAIN v |-> v[i].text]
  BY <1>c DEF text
<1>4. t = [i \in DOMAIN v |-> WifiAccessPointSetSsidImpl(accessPoint, v[i])]
  OBVIOUS
<1> HIDE DEF v
<1>5. t = [i \in DOMAIN v |-> t[i]]
  BY <1>4
<1>6. /\ v = <<>> => FlattenSeq(t) = <<>>
      /\ v # <<>> => FlattenSeq(t) = t[1] /\ DOMAIN v = {1} /\ v[1] \in ToSet(v)
  BY <1>2, <1>5, FlattenOptional
<1>7. CASE v = <<>>
  <2>1. asked["ssid"] = <<>>
    BY <1>2, <1>3, <1>7, SsidAsked
  <2> QED  BY <1>1, <1>6, <1>7, <2>1, ServesNothing
<1>8. CASE v # <<>>
  <2> DEFINE d == v[1]
             impl == WifiAccessPointSetSsidImpl(accessPoint, d)
  <2>1. FlattenSeq(t) = impl
    BY <1>4, <1>6, <1>8
  <2>2. asked["ssid"] = <<d.text>>
    BY <1>2, <1>3, <1>8, SsidAsked
  <2> HIDE DEF d
  <2>3. ServesPart("ssid", asked, impl, phys)
    BY <2>2, ServesSsid
  <2> QED  BY <2>1, <2>3
<1> QED  BY <1>7, <1>8

\* Its keys and passwords.
LEMMA EnableData ==
    ASSUME NEW request, IsRequest(request), request.api = "WifiAccessPointEnable",
           NEW asked, asked = HeardOfRequest(request), NEW accessPoint, NEW phys
    PROVE  LET impl == IF request.data.psk # <<>> \/ request.data.sae # <<>>
                       THEN WifiAccessPointSetAuthenticationDataImpl(accessPoint, request.data)
                       ELSE <<>>
           IN  ServesPart("data", asked, impl, phys)
<1>1. "data" \in RequestFields[request.api] /\ "data" \in Parts
  BY DEF RequestFields, Parts, NothingAsked
<1> DEFINE data == request.data
           impl == WifiAccessPointSetAuthenticationDataImpl(accessPoint, data)
<1>2. IsData(data)
  BY <1>1, FieldForms
<1>3. Field(request, "data") = data
  BY <1>1, FieldsOf DEF FieldOr, Field
<1>4. asked.data = IF data = <<>> THEN <<>> ELSE DataAsked(data)
  BY <1>3, AskedData
<1> HIDE DEF data
<1>5. CASE ~(data.psk # <<>> \/ data.sae # <<>>)
  <2>1. asked["data"] = <<>>
    BY <1>4, <1>5 DEF DataAsked
  <2> QED  BY <1>1, <1>5, <2>1, ServesNothing DEF data
<1>6. CASE (data.psk # <<>> \/ data.sae # <<>>) /\ data # <<>>
  <2>1. asked["data"] = DataAsked(data)
    BY <1>4, <1>6
  <2>2. ServesPart("data", asked, impl, phys)
    BY <1>2, <2>1, ServesData
  <2> QED  BY <1>6, <2>2 DEF data
<1>7. CASE (data.psk # <<>> \/ data.sae # <<>>) /\ data = <<>>
  <2>1. asked["data"] = <<>>
    BY <1>4, <1>7
  <2>2. Within(impl, Own("data"))
    <3> DEFINE P == {"psk", "sae_password"}
    <3>1. P \subseteq Own("data")
      BY DEF Own, Reads
    <3>2. Within(impl, P)
      BY <1>2, DataGivenBy
    <3> QED  BY <3>1, <3>2, WithinMore
  <2>3. ServesPart("data", asked, impl, phys)
    BY <2>1, <2>2 DEF ServesPart, Given
  <2> QED  BY <1>7, <2>3 DEF data
<1> QED  BY <1>5, <1>6, <1>7

\* Its algorithms, suites, ciphers and bands.
LEMMA EnableLists ==
    ASSUME NEW request, IsRequest(request), request.api = "WifiAccessPointEnable",
           NEW asked, asked = HeardOfRequest(request), NEW accessPoint, NEW phys
    PROVE  /\ ServesPart("algorithms", asked,
                  IF request.algorithms # <<>>
                  THEN WifiAccessPointSetAuthenticationAlgorithmsImpl(accessPoint,
                                                                      request.algorithms)
                  ELSE <<>>, phys)
           /\ ServesPart("akmSuites", asked,
                  IF request.akmSuites # <<>>
                  THEN WifiAccessPointSetAkmSuitesImpl(accessPoint, request.akmSuites)
                  ELSE <<>>, phys)
           /\ ServesPart("bands", asked,
                  IF request.bands # <<>>
                  THEN WifiAccessPointSetFrequencyBandsImpl(accessPoint, request.bands)
                  ELSE <<>>, phys)
           /\ \A ciphers \in EnableCiphers(accessPoint, request) :
                  ServesPart("ciphers", asked, ciphers, phys)
<1>1. /\ {"algorithms", "akmSuites", "bands", "ciphers"} \subseteq RequestFields[request.api]
      /\ {"algorithms", "akmSuites", "bands", "ciphers"} \subseteq Parts
  BY DEF RequestFields, Parts, NothingAsked
<1>2. /\ request.bands \in Seq({ToDot11FrequencyBand(b) : b \in Ieee80211FrequencyBand})
      /\ IsList(request.ciphers)
  BY <1>1, FieldForms
<1>3. /\ Field(request, "algorithms") = request.algorithms
      /\ Field(request, "akmSuites") = request.akmSuites
      /\ Field(request, "bands") = request.bands
      /\ Field(request, "ciphers") = request.ciphers
  BY <1>1, FieldsOf DEF FieldOr, Field
<1>4. /\ asked["algorithms"] = request.algorithms /\ asked["akmSuites"] = request.akmSuites
      /\ asked["bands"] = request.bands /\ asked["ciphers"] = request.ciphers
  BY <1>3, AskedFields
<1> DEFINE algorithms == request.algorithms  akms == request.akmSuites
           bands == request.bands            lists == request.ciphers
<1>5. /\ asked["algorithms"] = algorithms /\ asked["akmSuites"] = akms
      /\ asked["bands"] = bands /\ asked["ciphers"] = lists
      /\ bands \in Seq({ToDot11FrequencyBand(b) : b \in Ieee80211FrequencyBand})
      /\ IsList(lists)
  BY <1>2, <1>4
<1> HIDE DEF algorithms, akms, bands, lists
<1>6. ServesPart("algorithms", asked,
             IF algorithms # <<>>
             THEN WifiAccessPointSetAuthenticationAlgorithmsImpl(accessPoint, algorithms)
             ELSE <<>>, phys)
  <2> DEFINE impl == WifiAccessPointSetAuthenticationAlgorithmsImpl(accessPoint, algorithms)
  <2>1. CASE algorithms = <<>>
    BY <1>1, <1>5, <2>1, ServesNothing
  <2>2. ServesPart("algorithms", asked, impl, phys)
    BY <1>5, ServesAlgorithms
  <2> QED  BY <2>1, <2>2
<1>7. ServesPart("akmSuites", asked,
             IF akms # <<>> THEN WifiAccessPointSetAkmSuitesImpl(accessPoint, akms) ELSE <<>>,
             phys)
  <2> DEFINE impl == WifiAccessPointSetAkmSuitesImpl(accessPoint, akms)
  <2>1. CASE akms = <<>>
    BY <1>1, <1>5, <2>1, ServesNothing
  <2>2. ServesPart("akmSuites", asked, impl, phys)
    BY <1>5, ServesAkmSuites
  <2> QED  BY <2>1, <2>2
<1>8. ServesPart("bands", asked,
             IF bands # <<>> THEN WifiAccessPointSetFrequencyBandsImpl(accessPoint, bands)
             ELSE <<>>, phys)
  <2> DEFINE impl == WifiAccessPointSetFrequencyBandsImpl(accessPoint, bands)
  <2>1. CASE bands = <<>>
    BY <1>1, <1>5, <2>1, ServesNothing
  <2>2. ServesPart("bands", asked, impl, phys)
    BY <1>5, ServesBands
  <2> QED  BY <2>1, <2>2
<1>9. ASSUME NEW ciphers \in EnableCiphers(accessPoint, request)
      PROVE  ServesPart("ciphers", asked, ciphers, phys)
  <2>1. ciphers \in IF lists = <<>> THEN {<<>>}
                    ELSE WifiAccessPointSetPairwiseCipherSuitesImpl(accessPoint,
                             ToDot11CipherSuiteMap(lists))
    BY DEF EnableCiphers, lists
  <2>2. CASE lists = <<>>
    BY <1>1, <1>5, <2>1, <2>2, ServesNothing
  <2>3. CASE lists # <<>>
    BY <1>5, <2>1, <2>3, ServesCiphers
  <2> QED  BY <2>2, <2>3
<1> QED  BY <1>6, <1>7, <1>8, <1>9 DEF algorithms, akms, bands

\* Every part of the configuration that is enabled gives what is asked of it.
LEMMA PartsServe ==
    ASSUME NEW request, IsRequest(request), request.api = "WifiAccessPointEnable",
           NEW asked, asked = HeardOfRequest(request), NEW accessPoint, NEW phys,
           NEW ciphers \in EnableCiphers(accessPoint, request),
           NEW part \in {"phyType", "dot1x", "algorithms", "data", "akmSuites", "ciphers",
                         "ssid", "bands"}
    PROVE  ServesPart(part, asked, ConfigurationParts(accessPoint, request, ciphers)[part], phys)
<1> DEFINE parts == ConfigurationParts(accessPoint, request, ciphers)
           dot1x == [i \in DOMAIN request.dot1x |->
                        WifiAccessPointSetAuthenticationDot1xImpl(accessPoint, request.dot1x[i])]
           ssid == [i \in DOMAIN request.ssid |->
                       WifiAccessPointSetSsidImpl(accessPoint, request.ssid[i])]
<1>1. ServesPart("phyType", asked, parts.phyType, phys)
  <2>1. parts.phyType = IF request.phyType # "Dot11PhyTypeUnknown"
                        THEN WifiAccessPointSetPhyTypeImpl(accessPoint, request.phyType) ELSE <<>>
    BY DEF ConfigurationParts
  <2> HIDE DEF parts
  <2> QED  BY <2>1, EnablePhy
<1>2. ServesPart("dot1x", asked, parts.dot1x, phys)
  <2>1. parts.dot1x = FlattenSeq(dot1x)
    BY DEF ConfigurationParts, Each
  <2> HIDE DEF parts
  <2>2. ServesPart("dot1x", asked, FlattenSeq(dot1x), phys)
    BY EnableDot1x
  <2> QED  BY <2>1, <2>2
<1>3. ServesPart("ssid", asked, parts.ssid, phys)
  <2>1. parts.ssid = FlattenSeq(ssid)
    BY DEF ConfigurationParts, Each
  <2> HIDE DEF parts
  <2>2. ServesPart("ssid", asked, FlattenSeq(ssid), phys)
    BY EnableSsid
  <2> QED  BY <2>1, <2>2
<1>4. ServesPart("data", asked, parts.data, phys)
  <2>1. parts.data = IF request.data.psk # <<>> \/ request.data.sae # <<>>
                     THEN WifiAccessPointSetAuthenticationDataImpl(accessPoint, request.data)
                     ELSE <<>>
    BY DEF ConfigurationParts
  <2> HIDE DEF parts
  <2> QED  BY <2>1, EnableData
<1>5. /\ ServesPart("algorithms", asked, parts.algorithms, phys)
      /\ ServesPart("akmSuites", asked, parts.akmSuites, phys)
      /\ ServesPart("bands", asked, parts.bands, phys)
      /\ ServesPart("ciphers", asked, parts.ciphers, phys)
  <2>1. /\ parts.algorithms = IF request.algorithms # <<>>
                  THEN WifiAccessPointSetAuthenticationAlgorithmsImpl(accessPoint,
                                                                      request.algorithms)
                  ELSE <<>>
        /\ parts.akmSuites = IF request.akmSuites # <<>>
                  THEN WifiAccessPointSetAkmSuitesImpl(accessPoint, request.akmSuites)
                  ELSE <<>>
        /\ parts.bands = IF request.bands # <<>>
                  THEN WifiAccessPointSetFrequencyBandsImpl(accessPoint, request.bands)
                  ELSE <<>>
        /\ parts.ciphers = ciphers
    BY DEF ConfigurationParts
  <2> HIDE DEF parts
  <2> QED  BY <2>1, EnableLists
<1> QED  BY <1>1, <1>2, <1>3, <1>4, <1>5

\* What sets a property only if a PHY type that was asked for needs it.
PhyJustified(s, phys) ==
    \A c \in ToSet(s) : \A p \in Amendments : Sets(c, p) => Ever(phys, Needs(p))

\* What writes no amendment turns none on.
LEMMA JustifiedElsewhere ==
    ASSUME NEW s, NEW P, Within(s, P), P \cap Amendments = {}, NEW phys
    PROVE  PhyJustified(s, phys)
BY DEF PhyJustified, Within, Sets

\* Along a chain the lists of servers stay lists and no amendment is on without need.
LEMMA ChainFacts ==
    ASSUME NEW ss, IsList(ss), NEW st, Chained(st, ss), HasServers(st[0].conf),
           NEW phys, PhyNeeded(st[0].conf, phys), \A i \in DOMAIN ss : PhyJustified(ss[i], phys)
    PROVE  \A i \in 0 .. Len(ss) : HasServers(st[i].conf) /\ PhyNeeded(st[i].conf, phys)
<1> DEFINE n == Len(ss)
           S == {i \in 0 .. n : HasServers(st[i].conf) /\ PhyNeeded(st[i].conf, phys)}
<1>1. n \in Nat /\ DOMAIN ss = 1 .. n
  BY Lists
<1>2. 0 \in S
  BY <1>1
<1>3. ASSUME NEW i \in 0 .. n - 1, i \in S PROVE i + 1 \in S
  <2> DEFINE l == i + 1
  <2>1. l \in 1 .. n /\ l - 1 = i /\ l \in 0 .. n
    BY <1>1
  <2> HIDE DEF l
  <2>2. Ran(st[i], ss[l], st[l]) /\ PhyJustified(ss[l], phys)
    BY <1>1, <2>1 DEF Chained
  <2>3. HasServers(st[l].conf)
    BY <1>3, <2>2, RanServers
  <2>4. PhyNeeded(st[l].conf, phys)
    BY <1>3, <2>2, PhyKept DEF PhyJustified
  <2>5. l \in S
    BY <2>1, <2>3, <2>4
  <2> QED  BY <2>5 DEF l
<1>4. \A i \in 0 .. n : i \in S
  <2> HIDE DEF S, n
  <2> QED  BY <1>1, <1>2, <1>3, Induction
<1> QED  BY <1>4

\* The parts write different properties.
LEMMA PartsApart ==
    /\ \A part \in Parts : Reads(part) \subseteq Own(part) /\ Own(part) \subseteq PropertyNames
    /\ \A q, r \in Parts : q # r => Own(q) \cap Own(r) = {}
    /\ \A q \in Parts \ {"phyType"} : Own(q) \cap Amendments = {}
<1>1. ASSUME NEW part \in Parts
      PROVE  /\ Reads(part) \subseteq Own(part) /\ Own(part) \subseteq PropertyNames
             /\ part # "phyType" => Own(part) \cap Amendments = {}
  BY DEF Parts, NothingAsked, Own, Reads, PhyProperties, Pairwise, PropertyNames, Amendments
<1>2. ASSUME NEW q \in Parts, NEW r \in Parts, NEW p \in Own(q), p \in Own(r) PROVE q = r
  BY <1>2 DEF Parts, NothingAsked, Own, Reads, PhyProperties, Pairwise
<1> QED  BY <1>1, <1>2

\* The order of the parts names each of them once.
LEMMA PartOrders ==
    /\ IsList(PartOrder) /\ Len(PartOrder) = 8 /\ DOMAIN PartOrder = 1 .. 8
    /\ \A i \in 1 .. 8 : PartOrder[i] \in {"phyType", "dot1x", "algorithms", "data", "akmSuites",
                                           "ciphers", "ssid", "bands"}
    /\ \A i \in 1 .. 8 : PartOrder[i] \in Parts
    /\ \A i, j \in 1 .. 8 : i # j => PartOrder[i] # PartOrder[j]
    /\ PartOrder[8] = "bands"
    /\ \A part \in {"phyType", "dot1x", "algorithms", "data", "akmSuites", "ciphers", "ssid",
                    "bands"} : \E i \in 1 .. 8 : part = PartOrder[i]
<1>1. IsList(PartOrder)
  BY DEF IsList, PartOrder, ToSet
<1> QED  BY <1>1 DEF PartOrder, Parts, NothingAsked

\* What a part gives stays, whatever comes after it.
LEMMA Served ==
    ASSUME NEW ss, IsList(ss), Len(ss) = 8, NEW st, Chained(st, ss), NEW phys, NEW asked,
           \A i \in 1 .. 8 : ServesPart(PartOrder[i], asked, ss[i], phys),
           NEW i \in 1 .. 8, st[i].status = "Succeeded",
           HasServers(st[i - 1].conf), PhyNeeded(st[i].conf, phys), NEW j \in i .. 8
    PROVE  /\ Given(PartOrder[i], asked, st[j].conf, phys)
           /\ asked[PartOrder[i]] # <<>> =>
                 \A p \in Reads(PartOrder[i]) : st[j].live[p] = st[j].conf[p]
           /\ PartOrder[i] = "bands" => ProtectionGiven(asked.bands, st[j].conf)
<1> DEFINE part == PartOrder[i]
<1>1. part \in Parts
  BY PartOrders
<1>2. Done(st[i - 1], ss[i], st[i])
  BY DEF Done, Chained
<1>3. /\ Given(part, asked, st[i].conf, phys)
      /\ asked[part] # <<>> => \A p \in Reads(part) : st[i].live[p] = st[i].conf[p]
      /\ part = "bands" => ProtectionGiven(asked.bands, st[i].conf)
  <2>1. ServesPart(part, asked, ss[i], phys)
    OBVIOUS
  <2> HIDE DEF part
  <2> QED  BY <1>2, <2>1 DEF ServesPart
<1>4. ASSUME NEW p \in Own(part)
      PROVE  st[j].conf[p] = st[i].conf[p] /\ st[j].live[p] \in {st[i].live[p], st[i].conf[p]}
  <2>1. p \in PropertyNames
    BY <1>1, PartsApart
  <2>2. ASSUME NEW m \in i + 1 .. j, NEW c \in ToSet(ss[m]) PROVE ~Sets(c, p)
    <3>1. m \in 1 .. 8 /\ m # i
      OBVIOUS
    <3>2. PartOrder[m] \in Parts /\ PartOrder[m] # part
      BY <3>1, PartOrders
    <3>3. p \notin Own(PartOrder[m])
      BY <1>1, <3>2, PartsApart
    <3>4. Within(ss[m], Own(PartOrder[m]))
      BY <3>1 DEF ServesPart
    <3> QED  BY <3>3, <3>4 DEF Within, Sets
  <2>3. i \in 0 .. Len(ss) /\ j \in i .. Len(ss)
    OBVIOUS
  <2> QED  BY <2>1, <2>2, <2>3, ChainKeeps
<1>5. \A p \in Reads(part) : p \in Own(part)
  BY <1>1, PartsApart
<1>6. Given(part, asked, st[j].conf, phys)
  <2>1. \A p \in Reads(part) : st[j].conf[p] = st[i].conf[p]
    BY <1>4, <1>5
  <2> HIDE DEF part
  <2> QED  BY <1>1, <1>3, <2>1, GivenReads
<1>7. asked[part] # <<>> => \A p \in Reads(part) : st[j].live[p] = st[j].conf[p]
  <2> HIDE DEF part
  <2> QED  BY <1>3, <1>4, <1>5
<1>8. part = "bands" => ProtectionGiven(asked.bands, st[j].conf)
  <2>1. ASSUME part = "bands" PROVE i = 8
    BY <2>1, PartOrders
  <2>2. ASSUME part = "bands" PROVE st[j] = st[i]
    BY <2>1, <2>2
  <2> QED  BY <1>3, <2>2
<1> QED  BY <1>6, <1>7, <1>8

\* Hostapd after its state is switched.
LEMMA SwitchRun ==
    ASSUME NEW h, NEW target \in {"Enabled", "Disabled"}, NEW x,
           Ran(h, SetOperationalState(target), x), h.state \in States
    PROVE  /\ x.state \in States
           /\ x.status = "Succeeded" =>
                 x.state = IF target = "Enabled" THEN "ENABLED" ELSE "DISABLED"
           /\ IsList(SetOperationalState(target))
           /\ \A c \in ToSet(SetOperationalState(target)) : c.do \in Orders
<1> DEFINE e == [do |-> IF target = "Enabled" THEN "ENABLE" ELSE "DISABLE"]
           c == [do |-> "confirm"]
           s == <<e, c>>
<1>1. s = SetOperationalState(target)
  BY DEF SetOperationalState
<1>2. IsList(s) /\ Len(s) = 2 /\ s[1] = e /\ s[2] = c /\ ToSet(s) = {e, c}
  BY Several
<1>3. e.do \in Orders /\ c.do \in Orders /\ c.do \notin Switches
      /\ e.do = IF target = "Enabled" THEN "ENABLE" ELSE "DISABLE"
  BY DEF Orders, Switches
<1> HIDE DEF e, c, s
<1>4. PICK f :
         /\ f[0] = h /\ f[Len(s)] = x
         /\ \A i \in 0 .. Len(s) : Typed(f[i])
         /\ \A i \in 1 .. Len(s) :
               s[i] \in ToSet(s) /\ \E b \in BOOLEAN : f[i] = Step(f[i - 1], s[i], b)
         /\ x.status = "Succeeded" => \A i \in 0 .. Len(s) : f[i].status = "Succeeded"
  BY <1>1, Trace
<1> DEFINE y == f[1]
<1>5. Typed(h) /\ Typed(y) /\ (\E b \in BOOLEAN : y = Step(h, e, b))
      /\ (\E b \in BOOLEAN : x = Step(y, c, b))
      /\ (x.status = "Succeeded" => y.status = "Succeeded")
  <2>1. 0 \in 0 .. 2 /\ 1 \in 0 .. 2 /\ 1 \in 1 .. 2 /\ 2 \in 1 .. 2 /\ 1 - 1 = 0 /\ 2 - 1 = 1
    OBVIOUS
  <2> QED  BY <1>2, <1>4, <2>1
<1> HIDE DEF y
<1>6. /\ y.state \in States
      /\ y.status = "Succeeded" => y.state = IF target = "Enabled" THEN "ENABLED" ELSE "DISABLED"
  BY <1>3, <1>5, StepState
<1>7. x.state = y.state
  BY <1>3, <1>5, <1>6, StepState
<1> QED  BY <1>1, <1>2, <1>3, <1>5, <1>6, <1>7

\* The commands of an enabling, part by part.
PartCommands(accessPoint, request, ciphers) ==
    [i \in DOMAIN PartOrder |-> ConfigurationParts(accessPoint, request, ciphers)[PartOrder[i]]]

\* The states of hostapd between the parts of an enabling.
Enabling(accessPoint, ss, h, x, st, z) ==
    /\ Ran(h, TryGetAccessPointController(accessPoint), st[0])
    /\ Chained(st, ss)
    /\ Ran(st[8], GetOperationalState, z)
    /\ Ran(z, SetOperationalState("Enabled"), x)
    /\ x.status = "Succeeded" =>
          z.status = "Succeeded" /\ \A i \in 0 .. 8 : st[i].status = "Succeeded"

\* Its parts serve what is asked, each its own.
LEMMA Enables ==
    ASSUME NEW request, IsRequest(request), request.api = "WifiAccessPointEnable",
           NEW accessPoint, NEW ciphers \in EnableCiphers(accessPoint, request),
           NEW ss, ss = PartCommands(accessPoint, request, ciphers)
    PROVE  /\ IsList(ss) /\ Len(ss) = 8 /\ DOMAIN ss = 1 .. 8
           /\ \A i \in 1 .. 8 : \A asked, phys : asked = HeardOfRequest(request) =>
                 ServesPart(PartOrder[i], asked, ss[i], phys)
           /\ \A i \in 1 .. 8 : IsList(ss[i])
<1>1. ss = [i \in DOMAIN PartOrder |-> ss[i]]
      /\ \A i \in 1 .. 8 : ss[i] = ConfigurationParts(accessPoint, request, ciphers)[PartOrder[i]]
  BY PartOrders DEF PartCommands
<1>2. IsList(ss) /\ Len(ss) = 8 /\ DOMAIN ss = 1 .. 8
  BY <1>1, PartOrders, Mapped
<1>3. ASSUME NEW i \in 1 .. 8, NEW phys, NEW asked, asked = HeardOfRequest(request)
      PROVE  ServesPart(PartOrder[i], asked, ss[i], phys)
  <2> DEFINE part == PartOrder[i]
             s == ConfigurationParts(accessPoint, request, ciphers)[part]
  <2>1. ss[i] = s
    BY <1>1
  <2>2. part \in {"phyType", "dot1x", "algorithms", "data", "akmSuites", "ciphers", "ssid",
                  "bands"}
    BY PartOrders
  <2>3. ServesPart(part, asked, s, phys)
    <3> HIDE DEF part
    <3> QED  BY <1>3, <2>2, PartsServe
  <2> QED  BY <2>1, <2>3
<1>4. ASSUME NEW i \in 1 .. 8 PROVE IsList(ss[i])
  BY <1>3 DEF ServesPart, Within
<1> QED  BY <1>2, <1>3, <1>4

\* What ran an enabling went through such states.
LEMMA EnableRuns ==
    ASSUME NEW request, IsRequest(request), request.api = "WifiAccessPointEnable",
           NEW accessPoint, NEW commands \in WifiAccessPointEnableImpl(accessPoint, request),
           NEW h, NEW x, Ran(h, commands, x)
    PROVE  \E ciphers \in EnableCiphers(accessPoint, request) : \E st, z :
               Enabling(accessPoint, PartCommands(accessPoint, request, ciphers), h, x, st, z)
<1>1. PICK ciphers \in EnableCiphers(accessPoint, request) :
         commands = TryGetAccessPointController(accessPoint)
                    \o FlattenSeq([i \in DOMAIN PartOrder |->
                           ConfigurationParts(accessPoint, request, ciphers)[PartOrder[i]]])
                    \o GetOperationalState \o SetOperationalState("Enabled")
  BY DEF WifiAccessPointEnableImpl, EnableCiphers
<1> DEFINE ss == PartCommands(accessPoint, request, ciphers)
           try == TryGetAccessPointController(accessPoint)
           last3 == SetOperationalState("Enabled")
           last2 == GetOperationalState
           body == FlattenSeq(ss)
<1>2. commands = ((try \o body) \o last2) \o last3
  BY <1>1 DEF PartCommands
<1>3. IsList(ss) /\ Len(ss) = 8 /\ DOMAIN ss = 1 .. 8 /\ \A i \in DOMAIN ss : IsList(ss[i])
  <2> DEFINE t == ss
  <2>1. t = PartCommands(accessPoint, request, ciphers)
    OBVIOUS
  <2> HIDE DEF t
  <2>2. IsList(t) /\ Len(t) = 8 /\ DOMAIN t = 1 .. 8 /\ \A i \in 1 .. 8 : IsList(t[i])
    BY <2>1, Enables
  <2> QED  BY <2>1, <2>2
<1> HIDE DEF ss
<1>4. IsList(body)
  BY <1>3, Flatten DEF Flattened
<1>5. IsList(try)
  BY WithinChecks DEF Within
<1>6. IsList(last2) /\ IsList(last3)
  BY Singles, Several DEF GetOperationalState, SetOperationalState
<1> HIDE DEF body, try, last2, last3
<1>7. IsList(try \o body) /\ IsList((try \o body) \o last2)
  BY <1>4, <1>5, <1>6, Concatenation
<1>8. PICK z : Ran(h, (try \o body) \o last2, z) /\ Ran(z, last3, x)
  BY <1>2, <1>6, <1>7, RanConcatenation
<1>9. PICK y1 : Ran(h, try \o body, y1) /\ Ran(y1, last2, z)
  BY <1>6, <1>7, <1>8, RanConcatenation
<1>10. PICK y0 : Ran(h, try, y0) /\ Ran(y0, body, y1)
  BY <1>4, <1>5, <1>9, RanConcatenation
<1>11. PICK st : Through(st, ss, y0, y1)
  BY <1>3, <1>10, Chain DEF body
<1>12. /\ x.status = "Succeeded" => z.status = "Succeeded"
       /\ z.status = "Succeeded" => y1.status = "Succeeded"
  BY <1>8, <1>9, RanTyped
<1>13. st[0] = y0 /\ st[8] = y1 /\ Chained(st, ss)
       /\ (y1.status = "Succeeded" => \A i \in 0 .. 8 : st[i].status = "Succeeded")
  BY <1>3, <1>11 DEF Through
<1>14. Enabling(accessPoint, ss, h, x, st, z)
  BY <1>8, <1>9, <1>10, <1>12, <1>13 DEF Enabling, try, last2, last3
<1> QED  BY <1>14 DEF ss

\* SetPhyType turns an amendment on only for a PHY type that needs it.
LEMMA PhyJustifies ==
    ASSUME NEW request, IsRequest(request), "phyType" \in RequestFields[request.api],
           NEW phys, PhyOf(request) \subseteq phys, NEW accessPoint,
           NEW impl, impl = WifiAccessPointSetPhyTypeImpl(accessPoint, request.phyType)
    PROVE  PhyJustified(impl, phys)
<1> DEFINE phy == request.phyType
<1>1. phy \in {ToDot11PhyType(p) : p \in Ieee80211PhyType}
  BY FieldForms
<1>2. phy \in phys
  BY FieldsOf DEF PhyOf
<1>3. impl = WifiAccessPointSetPhyTypeImpl(accessPoint, phy)
  OBVIOUS
<1> HIDE DEF phy
<1>4. \A c \in ToSet(impl) : \A p \in Amendments :
         Sets(c, p) => Means(PhyNames, phy) /\ Meaning(PhyNames, phy) \in Needs(p)
  BY <1>1, <1>3, PhyGivenBy
<1> QED  BY <1>2, <1>4 DEF PhyJustified, Ever

\* And the other parts none.
LEMMA EnableJustified ==
    ASSUME NEW request, IsRequest(request), request.api = "WifiAccessPointEnable",
           NEW phys, PhyOf(request) \subseteq phys,
           NEW accessPoint, NEW ciphers \in EnableCiphers(accessPoint, request),
           NEW ss, ss = PartCommands(accessPoint, request, ciphers), NEW i \in 1 .. 8
    PROVE  PhyJustified(ss[i], phys)
<1> DEFINE part == PartOrder[i]
<1>1. part \in Parts /\ part \in {"phyType", "dot1x", "algorithms", "data", "akmSuites", "ciphers",
                                  "ssid", "bands"}
  BY PartOrders
<1>2. ss[i] = ConfigurationParts(accessPoint, request, ciphers)[part]
  BY PartOrders DEF PartCommands
<1>3. CASE part = "phyType"
  <2> DEFINE impl == WifiAccessPointSetPhyTypeImpl(accessPoint, request.phyType)
  <2>1. ss[i] = IF request.phyType # "Dot11PhyTypeUnknown" THEN impl ELSE <<>>
    BY <1>2, <1>3 DEF ConfigurationParts
  <2>2. "phyType" \in RequestFields[request.api]
    BY DEF RequestFields
  <2>3. PhyJustified(impl, phys)
    BY <2>2, PhyJustifies
  <2>4. PhyJustified(<<>>, phys)
    BY Singles DEF PhyJustified
  <2> QED  BY <2>1, <2>3, <2>4
<1>4. CASE part # "phyType"
  <2>1. Within(ss[i], Own(part))
    BY Enables DEF ServesPart
  <2>2. Own(part) \cap Amendments = {}
    BY <1>1, <1>4, PartsApart
  <2> QED  BY <2>1, <2>2, JustifiedElsewhere
<1> QED  BY <1>3, <1>4

\* Something that the parts of what is enabled give.
EnableAsks(asked, request) ==
    /\ \A accessPoint : \A ciphers \in EnableCiphers(accessPoint, request) :
          \A i \in 1 .. 8 : \A phys :
              ServesPart(PartOrder[i], asked, PartCommands(accessPoint, request, ciphers)[i], phys)
    /\ asked["bridge"] = <<>> /\ asked.state = <<"ENABLED">>

\* They give what the request itself asks.
LEMMA EnableAsksIt ==
    ASSUME NEW request, IsRequest(request), request.api = "WifiAccessPointEnable"
    PROVE  EnableAsks(HeardOfRequest(request), request)
<1> DEFINE asked == HeardOfRequest(request)
<1>1. ASSUME NEW accessPoint, NEW ciphers \in EnableCiphers(accessPoint, request),
             NEW i \in 1 .. 8, NEW phys
      PROVE  ServesPart(PartOrder[i], asked, PartCommands(accessPoint, request, ciphers)[i], phys)
  <2> DEFINE t == PartCommands(accessPoint, request, ciphers)
  <2>1. t = PartCommands(accessPoint, request, ciphers)
    OBVIOUS
  <2> HIDE DEF t
  <2>2. \A j \in 1 .. 8 : \A a, ps :
            a = HeardOfRequest(request) => ServesPart(PartOrder[j], a, t[j], ps)
    BY <2>1, Enables
  <2> QED  BY <2>2 DEF t
<1>2. asked["bridge"] = <<>>
  <2>1. "bridge" \in Parts /\ "bridge" \notin RequestFields[request.api]
    BY DEF Parts, NothingAsked, RequestFields
  <2> QED  BY <2>1, NotAsked
<1>3. asked.state = <<"ENABLED">>
  BY AskedFields
<1> QED  BY <1>1, <1>2, <1>3 DEF EnableAsks

\* An enabling writes what its parts write, and gives what they give.
LEMMA EnableKept ==
    ASSUME NEW request, IsRequest(request), request.api = "WifiAccessPointEnable",
           NEW asked, EnableAsks(asked, request),
           NEW accessPoint, NEW commands \in WifiAccessPointEnableImpl(accessPoint, request),
           NEW phys, PhyOf(request) \subseteq phys,
           NEW h, NEW x, Ran(h, commands, x), HasServers(h.conf), PhyNeeded(h.conf, phys),
           h.state \in States
    PROVE  /\ PhyNeeded(x.conf, phys)
           /\ x.status = "Succeeded" => Fulfilled(asked, x, phys)
<1>a. PICK ciphers \in EnableCiphers(accessPoint, request) : \E st, z :
         Enabling(accessPoint, PartCommands(accessPoint, request, ciphers), h, x, st, z)
  BY EnableRuns
<1>1. PICK st, z :
         Enabling(accessPoint, PartCommands(accessPoint, request, ciphers), h, x, st, z)
  BY <1>a
<1> DEFINE ss == PartCommands(accessPoint, request, ciphers)
           try == TryGetAccessPointController(accessPoint)
           on == SetOperationalState("Enabled")
<1>2. /\ Ran(h, try, st[0]) /\ Chained(st, ss) /\ Ran(st[8], GetOperationalState, z)
      /\ Ran(z, on, x)
      /\ x.status = "Succeeded" =>
            z.status = "Succeeded" /\ \A i \in 0 .. 8 : st[i].status = "Succeeded"
  BY <1>1 DEF Enabling
<1>3. /\ IsList(ss) /\ Len(ss) = 8 /\ DOMAIN ss = 1 .. 8
      /\ \A i \in 1 .. 8 : ServesPart(PartOrder[i], asked, ss[i], phys)
      /\ \A i \in 1 .. 8 : PhyJustified(ss[i], phys)
  <2> DEFINE t == ss
  <2>1. t = PartCommands(accessPoint, request, ciphers)
    OBVIOUS
  <2> HIDE DEF t
  <2>2. IsList(t) /\ Len(t) = 8 /\ DOMAIN t = 1 .. 8
    BY <2>1, Enables
  <2>4. \A i \in 1 .. 8 : ServesPart(PartOrder[i], asked, t[i], phys)
    BY <2>1 DEF EnableAsks
  <2>3. \A i \in 1 .. 8 : PhyJustified(t[i], phys)
    BY <2>1, EnableJustified
  <2> QED  BY <2>2, <2>3, <2>4 DEF t
<1> HIDE DEF ss
<1>4. Within(try, {})
  BY WithinChecks
<1> HIDE DEF try
<1>5. st[0].conf = h.conf /\ st[0].state = h.state
  BY <1>2, <1>4, RanWithin, RanState
<1>6. \A i \in 0 .. 8 : HasServers(st[i].conf) /\ PhyNeeded(st[i].conf, phys)
  BY <1>2, <1>3, <1>5, ChainFacts
<1>7. ASSUME NEW s, s \in {GetOperationalState, on}
      PROVE  IsList(s) /\ \A c \in ToSet(s) : c.do \in Orders
  <2>1. CASE s = GetOperationalState
    BY <2>1, Singles DEF GetOperationalState, Orders
  <2>2. CASE s = on
    BY <2>2, Several DEF SetOperationalState, Orders
  <2> QED  BY <1>7, <2>1, <2>2
<1>8. ASSUME NEW p \in PropertyNames
      PROVE  /\ x.conf[p] = st[8].conf[p]
             /\ x.live[p] \in {st[8].live[p], st[8].conf[p]}
  <2>1. \A s \in {GetOperationalState, on} : \A c \in ToSet(s) : ~Sets(c, p)
    BY <1>7 DEF Sets
  <2>2. z.conf[p] = st[8].conf[p] /\ z.live[p] \in {st[8].live[p], st[8].conf[p]}
    BY <1>2, <2>1, RanKeeps
  <2>3. x.conf[p] = z.conf[p] /\ x.live[p] \in {z.live[p], z.conf[p]}
    BY <1>2, <2>1, RanKeeps
  <2> QED  BY <2>2, <2>3
<1>9. PhyNeeded(x.conf, phys)
  <2>1. \A p \in Amendments : x.conf[p] = st[8].conf[p]
    BY <1>8 DEF Amendments, PropertyNames
  <2> QED  BY <1>6, <2>1 DEF PhyNeeded
<1>10. ASSUME x.status = "Succeeded" PROVE Fulfilled(asked, x, phys)
  <2>1. ASSUME NEW i \in 1 .. 8
        PROVE  /\ Given(PartOrder[i], asked, x.live, phys)
               /\ i = 8 => ProtectionGiven(asked.bands, x.conf)
    <3> DEFINE part == PartOrder[i]
    <3>1. /\ Given(part, asked, st[8].conf, phys)
          /\ asked[part] # <<>> => \A p \in Reads(part) : st[8].live[p] = st[8].conf[p]
          /\ part = "bands" => ProtectionGiven(asked.bands, st[8].conf)
      <4>1. i \in 0 .. 8 /\ i - 1 \in 0 .. 8 /\ 8 \in i .. 8
        OBVIOUS
      <4>2. st[i].status = "Succeeded" /\ HasServers(st[i - 1].conf) /\ PhyNeeded(st[i].conf, phys)
        BY <1>2, <1>6, <1>10, <4>1
      <4>3. Chained(st, ss)
        BY <1>2
      <4>4. ASSUME NEW j \in i .. 8
            PROVE  /\ Given(PartOrder[i], asked, st[j].conf, phys)
                   /\ asked[PartOrder[i]] # <<>> =>
                         \A p \in Reads(PartOrder[i]) : st[j].live[p] = st[j].conf[p]
                   /\ PartOrder[i] = "bands" => ProtectionGiven(asked.bands, st[j].conf)
        BY <1>3, <4>2, <4>3, Served, ZenonT(60)
      <4> QED  BY <4>1, <4>4
    <3>2. part \in Parts /\ (i = 8 => part = "bands")
      BY PartOrders
    <3> HIDE DEF part
    <3>3. \A p \in Reads(part) : p \in PropertyNames
      BY <3>2, PartsApart
    <3>4. ASSUME asked[part] # <<>> PROVE \A p \in Reads(part) : x.live[p] = st[8].conf[p]
      BY <1>8, <3>1, <3>3, <3>4
    <3>5. Given(part, asked, x.live, phys)
      <4>1. CASE asked[part] = <<>>
        BY <4>1 DEF Given
      <4>2. CASE asked[part] # <<>>
        BY <3>1, <3>2, <3>4, <4>2, GivenReads
      <4> QED  BY <4>1, <4>2
    <3>6. x.conf.ieee80211w = st[8].conf.ieee80211w
      BY <1>8 DEF PropertyNames
    <3>7. i = 8 => ProtectionGiven(asked.bands, x.conf)
      BY <3>1, <3>2, <3>6 DEF ProtectionGiven
    <3> QED  BY <3>5, <3>7 DEF part
  <2>2. Given("bridge", asked, x.live, phys)
    <3>1. asked["bridge"] = <<>>
      BY DEF EnableAsks
    <3> QED  BY <3>1 DEF Given
  <2>3. \A part \in Parts : Given(part, asked, x.live, phys)
    <3>1. \A part \in Parts : part = "bridge" \/ \E i \in 1 .. 8 : part = PartOrder[i]
      BY PartOrders DEF Parts, NothingAsked
    <3> QED  BY <2>1, <2>2, <3>1
  <2>4. asked.state = <<x.state>>
    <3>1. asked.state = <<"ENABLED">>
      BY DEF EnableAsks
    <3>2. Within(GetOperationalState, {})
      BY WithinSmall DEF GetOperationalState, Orders, Switches
    <3>3. st[8].state \in States
      <4>1. Len(ss) \in Nat
        BY <1>3
      <4> DEFINE S == {i \in 0 .. 8 : st[i].state \in States}
      <4>2. 0 \in S
        BY <1>5
      <4>3. ASSUME NEW i \in 0 .. 7, i \in S PROVE i + 1 \in S
        <5> DEFINE l == i + 1
        <5>1. l \in 1 .. 8 /\ l - 1 = i /\ l \in 0 .. 8
          OBVIOUS
        <5> HIDE DEF l
        <5>2. Ran(st[i], ss[l], st[l])
          BY <1>2, <1>3, <5>1 DEF Chained
        <5>3. l \in S
          BY <4>3, <5>1, <5>2, RanState
        <5> QED  BY <5>3 DEF l
      <4>4. \A i \in 0 .. 8 : i \in S
        <5>1. 8 \in Nat /\ 8 - 1 = 7
          OBVIOUS
        <5> HIDE DEF S
        <5> QED  BY <4>2, <4>3, <5>1, Induction
      <4> QED  BY <4>4
    <3>4. z.state \in States
      BY <1>2, <3>3, RanState
    <3>5. x.state = "ENABLED"
      BY <1>2, <1>10, <3>4, SwitchRun
    <3> QED  BY <3>1, <3>5
  <2>5. ProtectionGiven(asked.bands, x.conf)
    BY <2>1
  <2> QED  BY <2>3, <2>4, <2>5 DEF Fulfilled
<1> QED  BY <1>9, <1>10

-----------------------------------------------------------------------------
(* Every change *)

\* An enabling is a list of commands.
LEMMA EnableIsList ==
    ASSUME NEW request, IsRequest(request), request.api = "WifiAccessPointEnable",
           NEW accessPoint, NEW commands \in WifiAccessPointEnableImpl(accessPoint, request)
    PROVE  IsList(commands)
<1>1. PICK ciphers \in EnableCiphers(accessPoint, request) :
         commands = TryGetAccessPointController(accessPoint)
                    \o FlattenSeq([i \in DOMAIN PartOrder |->
                           ConfigurationParts(accessPoint, request, ciphers)[PartOrder[i]]])
                    \o GetOperationalState \o SetOperationalState("Enabled")
  BY DEF WifiAccessPointEnableImpl, EnableCiphers
<1> DEFINE ss == PartCommands(accessPoint, request, ciphers)
           try == TryGetAccessPointController(accessPoint)
           last3 == SetOperationalState("Enabled")
           last2 == GetOperationalState
           body == FlattenSeq(ss)
<1>2. commands = ((try \o body) \o last2) \o last3
  BY <1>1 DEF PartCommands
<1>3. IsList(ss) /\ Len(ss) = 8 /\ DOMAIN ss = 1 .. 8 /\ \A i \in DOMAIN ss : IsList(ss[i])
  <2> DEFINE t == ss
  <2>1. t = PartCommands(accessPoint, request, ciphers)
    OBVIOUS
  <2> HIDE DEF t
  <2>2. IsList(t) /\ Len(t) = 8 /\ DOMAIN t = 1 .. 8 /\ \A i \in 1 .. 8 : IsList(t[i])
    BY <2>1, Enables
  <2> QED  BY <2>1, <2>2
<1> HIDE DEF ss
<1>4. IsList(body)
  BY <1>3, Flatten DEF Flattened
<1>5. IsList(try)
  BY WithinChecks DEF Within
<1>6. IsList(last2) /\ IsList(last3)
  BY Singles, Several DEF GetOperationalState, SetOperationalState
<1> HIDE DEF body, try, last2, last3
<1>7. IsList(try \o body) /\ IsList((try \o body) \o last2)
  BY <1>4, <1>5, <1>6, Concatenation
<1> QED  BY <1>2, <1>6, <1>7, Concatenation

\* The requests that change nothing.
Enumerations == {"WifiAccessPointsEnumerate", "NetworkInterfacesEnumerate"}

\* The others, by what they change.
LEMMA Apis ==
    ASSUME NEW request, IsRequest(request), request.api \notin Enumerations
    PROVE  \/ request.api \in DOMAIN PartOf \/ request.api = "WifiAccessPointEnable"
           \/ request.api = "WifiAccessPointDisable"
           \/ request.api = "WifiAccessPointGetAttributes"
BY DEF IsRequest, RequestFields, PartOf, Enumerations

\* WifiAccessPointDisableImpl: its commands.
LEMMA DisableForm ==
    ASSUME NEW accessPoint
    PROVE  LET try == TryGetAccessPointController(accessPoint)
               off == SetOperationalState("Disabled")
           IN  /\ WifiAccessPointDisableImpl(accessPoint) = (try \o GetOperationalState) \o off
               /\ Within(try \o GetOperationalState, {}) /\ IsList(off)
               /\ IsList((try \o GetOperationalState) \o off)
<1> DEFINE try == TryGetAccessPointController(accessPoint)
           off == SetOperationalState("Disabled")
<1>1. WifiAccessPointDisableImpl(accessPoint) = (try \o GetOperationalState) \o off
  BY DEF WifiAccessPointDisableImpl
<1>2. Within(try, {})
  BY WithinChecks
<1>3. Within(GetOperationalState, {})
  BY WithinSmall DEF GetOperationalState, Orders, Switches
<1>4. IsList(off)
  BY Several DEF SetOperationalState
<1> HIDE DEF try, off
<1>5. Within(try \o GetOperationalState, {})
  BY <1>2, <1>3, WithinConcatenation
<1>6. IsList(try \o GetOperationalState)
  BY <1>5 DEF Within
<1>7. IsList((try \o GetOperationalState) \o off)
  BY <1>4, <1>6, Concatenation
<1> QED  BY <1>1, <1>4, <1>5, <1>7 DEF try, off

\* Every change is a list of commands.
LEMMA ChangeIsList ==
    ASSUME NEW request, IsRequest(request), request.api \notin Enumerations, NEW accessPoint,
           NEW commands \in Changes(accessPoint, request)
    PROVE  IsList(commands)
<1>1. CASE request.api \in DOMAIN PartOf
  <2>1. ServesPart(PartOf[request.api], HeardOfRequest(request), commands, {})
    BY <1>1, SetterServes
  <2> QED  BY <2>1 DEF ServesPart, Within
<1>2. CASE request.api = "WifiAccessPointEnable"
  <2>1. commands \in WifiAccessPointEnableImpl(accessPoint, request)
    BY <1>2 DEF Changes
  <2> QED  BY <1>2, <2>1, EnableIsList
<1>3. CASE request.api = "WifiAccessPointDisable"
  <2>1. commands = WifiAccessPointDisableImpl(accessPoint)
    BY <1>3 DEF Changes
  <2> QED  BY <2>1, DisableForm
<1>4. CASE request.api = "WifiAccessPointGetAttributes"
  <2>1. commands = TryGetAccessPoint(accessPoint)
    BY <1>4 DEF Changes, WifiAccessPointGetAttributesImpl
  <2> QED  BY <2>1, WithinChecks DEF Within
<1> QED  BY <1>1, <1>2, <1>3, <1>4, Apis

\* What a request asks for, or another form of it.
Asks(asked, request) ==
    IF request.api = "WifiAccessPointEnable" THEN EnableAsks(asked, request)
    ELSE \A x, phys : Fulfilled(HeardOfRequest(request), x, phys) => Fulfilled(asked, x, phys)

\* A request asks what it asks.
LEMMA AsksItself ==
    ASSUME NEW request, IsRequest(request)
    PROVE  Asks(HeardOfRequest(request), request)
BY EnableAsksIt DEF Asks

\* A request with none of the fields asks for no part: what it asks is the state.
LEMMA StateFulfilled ==
    ASSUME NEW request, IsRequest(request),
           request.api \in {"WifiAccessPointDisable", "WifiAccessPointGetAttributes"},
           NEW asked, asked = HeardOfRequest(request), NEW x,
           request.api = "WifiAccessPointDisable" => x.state = "DISABLED", NEW phys
    PROVE  Fulfilled(asked, x, phys)
<1>1. /\ request.api = "WifiAccessPointDisable" => asked.state = <<"DISABLED">>
      /\ request.api = "WifiAccessPointGetAttributes" => asked.state = <<>>
  BY AskedFields
<1>2. ASSUME NEW part \in Parts PROVE asked[part] = <<>>
  <2>1. part \notin RequestFields[request.api]
    BY DEF RequestFields, Parts, NothingAsked
  <2> QED  BY <2>1, NotAsked
<1>3. asked.state \in {<<>>, <<x.state>>}
  BY <1>1
<1> QED  BY ONLY <1>2, <1>3, NothingFulfilled

\* A change keeps what is known of hostapd and, when it succeeds, gives what is
\* asked for.
LEMMA ChangeKept ==
    ASSUME NEW request, IsRequest(request), request.api \notin Enumerations,
           NEW given, Asks(given, request), NEW accessPoint,
           NEW commands \in Changes(accessPoint, request),
           NEW phys, PhyOf(request) \subseteq phys,
           NEW h, NEW x, Ran(h, commands, x), HasServers(h.conf), PhyNeeded(h.conf, phys),
           h.state \in States
    PROVE  /\ HasServers(x.conf) /\ PhyNeeded(x.conf, phys) /\ x.state \in States
           /\ x.status = "Succeeded" => Fulfilled(given, x, phys)
<1> DEFINE asked == HeardOfRequest(request)
<1>1. HasServers(x.conf) /\ x.state \in States
  BY RanServers, RanState
<1>a. ASSUME request.api # "WifiAccessPointEnable", Fulfilled(asked, x, phys)
      PROVE  Fulfilled(given, x, phys)
  BY <1>a DEF Asks
<1>2. CASE request.api \in DOMAIN PartOf
  <2> DEFINE part == PartOf[request.api]
  <2>1. part \in Parts /\ part \in RequestFields[request.api]
    BY <1>2, OnePart
  <2>2. Within(commands, Own(part))
    BY <1>2, SetterServes DEF ServesPart
  <2>3. PhyJustified(commands, phys)
    <3>1. CASE part = "phyType"
      <4>1. request.api = "WifiAccessPointSetPhyType"
        BY <1>2, <3>1 DEF PartOf
      <4>2. commands = WifiAccessPointSetPhyTypeImpl(accessPoint, request.phyType)
        BY <4>1 DEF Changes
      <4> QED  BY <2>1, <3>1, <4>2, PhyJustifies
    <3>2. CASE part # "phyType"
      <4>1. Own(part) \cap Amendments = {}
        BY <2>1, <3>2, PartsApart
      <4> HIDE DEF part
      <4> QED  BY <2>2, <4>1, JustifiedElsewhere
    <3> QED  BY <3>1, <3>2
  <2>4. PhyNeeded(x.conf, phys)
    BY <2>3, PhyKept DEF PhyJustified
  <2>5. ASSUME x.status = "Succeeded" PROVE Fulfilled(asked, x, phys)
    <3>1. Done(h, commands, x)
      BY <2>5 DEF Done
    <3> QED  BY <1>2, <2>4, <3>1, SetterFulfilled
  <2>6. request.api # "WifiAccessPointEnable"
    BY <1>2 DEF PartOf
  <2> QED  BY <1>1, <1>a, <2>4, <2>5, <2>6
<1>3. CASE request.api = "WifiAccessPointEnable"
  <2>1. commands \in WifiAccessPointEnableImpl(accessPoint, request)
    BY <1>3 DEF Changes
  <2>2. EnableAsks(given, request)
    BY <1>3 DEF Asks
  <2> QED  BY <1>1, <1>3, <2>1, <2>2, EnableKept
<1>4. CASE request.api = "WifiAccessPointDisable"
  <2> DEFINE s == TryGetAccessPointController(accessPoint) \o GetOperationalState
             off == SetOperationalState("Disabled")
  <2>1. commands = s \o off /\ Within(s, {}) /\ IsList(off)
    BY <1>4, DisableForm DEF Changes
  <2> HIDE DEF s
  <2>2. \A c \in ToSet(off) : c.do \in Orders
    BY Several DEF SetOperationalState, Orders
  <2>3. PICK y : Ran(h, s, y) /\ Ran(y, off, x)
    BY <2>1, RanConcatenation DEF Within
  <2>4. y.conf = h.conf /\ y.state \in States
    BY <2>1, <2>3, RanWithin, RanState
  <2>5. PhyJustified(off, phys)
    BY <2>2 DEF PhyJustified, Sets
  <2>6. PhyNeeded(x.conf, phys)
    BY <2>3, <2>4, <2>5, PhyKept DEF PhyJustified
  <2>7. ASSUME x.status = "Succeeded" PROVE Fulfilled(asked, x, phys)
    <3>1. x.state = "DISABLED"
      BY <2>3, <2>4, <2>7, SwitchRun
    <3> QED  BY <1>4, <3>1, StateFulfilled
  <2> QED  BY <1>1, <1>4, <1>a, <2>6, <2>7
<1>5. CASE request.api = "WifiAccessPointGetAttributes"
  <2>1. commands = TryGetAccessPoint(accessPoint)
    BY <1>5 DEF Changes, WifiAccessPointGetAttributesImpl
  <2>2. Within(commands, {})
    BY <2>1, WithinChecks
  <2>3. PhyNeeded(x.conf, phys)
    BY <2>2, RanWithin
  <2>4. Fulfilled(asked, x, phys)
    BY <1>5, StateFulfilled
  <2> QED  BY <1>1, <1>5, <1>a, <2>3, <2>4
<1> QED  BY <1>2, <1>3, <1>4, <1>5, Apis

-----------------------------------------------------------------------------
(* What the command lines ask for *)

\* What serves a request serves what asks for no more.
LEMMA ServesLess ==
    ASSUME NEW part, NEW more, NEW s, NEW phys, ServesPart(part, more, s, phys), NEW asked,
           \A conf : Given(part, more, conf, phys) => Given(part, asked, conf, phys),
           asked[part] # <<>> => more[part] # <<>>,
           part = "bands" =>
              \A conf : ProtectionGiven(more.bands, conf) => ProtectionGiven(asked.bands, conf)
    PROVE  ServesPart(part, asked, s, phys)
BY DEF ServesPart

\* The commands that enable an access point.
EnableNames == {"access-point-enable", "ap-enable", "enable", "ape"}

\* The key a command line gives.
PskKeyOf(line) ==
    IF line.psk = <<>>
    THEN IF Filled(line.passphrase)
         THEN <<[encoding |-> "passphrase", size |-> line.passphrase[1].size,
                 is |-> line.passphrase[1].is]>>
         ELSE <<>>
    ELSE IF Filled(line.psk)
         THEN <<[encoding |-> "hex", size |-> line.psk[1].size, is |-> line.psk[1].is]>>
         ELSE <<>>

\* And the password.
LinePassword(sae) ==
    Password(sae.password, IF sae.passwordId = <<"">> THEN <<>> ELSE sae.passwordId,
             IF sae.peer = <<>> \/ sae.peer[1].is = "no address" THEN <<>> ELSE sae.peer)

\* What such a command line asks for.
LEMMA EnableLine ==
    ASSUME NEW line, IsLine(line), line.command \in EnableNames,
           NEW asked, asked = HeardOfLine(line)
    PROVE  /\ asked.phyType = line.phy /\ asked.bands = line.bands
           /\ asked.ssid = IF line.ssid = <<"">> THEN <<>> ELSE line.ssid
           /\ asked.state = <<"ENABLED">>
           /\ asked.data = IF PskKeyOf(line) = <<>> /\ line.sae = <<>> THEN <<>>
                           ELSE KeyData(PskKeyOf(line), Each(LinePassword, line.sae))
           /\ asked.dot1x = <<>> /\ asked.algorithms = <<>> /\ asked.akmSuites = <<>>
           /\ asked.ciphers = <<>> /\ asked.bridge = <<>>
<1> DEFINE Coded(encoding, text) ==
               IF text = <<>> \/ text[1].size = 0 THEN <<>>
               ELSE <<[encoding |-> encoding, size |-> text[1].size, is |-> text[1].is]>>
           key == IF line.psk = <<>> THEN Coded("passphrase", line.passphrase)
                  ELSE Coded("hex", line.psk)
           data == IF key = <<>> /\ line.sae = <<>> THEN <<>>
                   ELSE KeyData(key, Each(LinePassword, line.sae))
           ssid == IF line.ssid = <<"">> THEN <<>> ELSE line.ssid
           passwords == Each(LinePassword, line.sae)
<1>1. \A text : text \in {line.psk, line.passphrase} =>
          (text = <<>> \/ text[1].size = 0 <=> ~Filled(text))
  <2>1. ASSUME NEW text, text \in {line.psk, line.passphrase}, text # <<>>
        PROVE  text[1].size \in Nat
    <3>1. text = <<text[1]>>
      BY <2>1, LineForms DEF IsOptional
    <3>2. text[1] \in ToSet(text)
      BY <3>1, Singles
    <3> QED  BY <2>1, <3>2 DEF IsLine
  <2> QED  BY <2>1 DEF Filled
<1>2. key = PskKeyOf(line)
  BY <1>1 DEF PskKeyOf
<1>3. asked = [NothingAsked EXCEPT !.phyType = line.phy, !.bands = line.bands,
                  !.ssid = ssid, !.state = <<"ENABLED">>, !.data = data]
  <2>1. HeardOfLine(line) = [NothingAsked EXCEPT !.phyType = line.phy, !.bands = line.bands,
                  !.ssid = HeardOfLine(line).ssid, !.state = <<"ENABLED">>,
                  !.data = HeardOfLine(line).data]
    BY DEF HeardOfLine, NothingAsked, EnableNames
  <2>2. HeardOfLine(line).ssid = ssid
    BY DEF HeardOfLine, NothingAsked, EnableNames
  <2>3. HeardOfLine(line).data = data
    BY DEF HeardOfLine, NothingAsked, EnableNames, LinePassword, Each
  <2> HIDE DEF ssid, data
  <2> QED  BY <2>1, <2>2, <2>3
<1>4. data = IF PskKeyOf(line) = <<>> /\ line.sae = <<>> THEN <<>>
             ELSE KeyData(PskKeyOf(line), Each(LinePassword, line.sae))
  <2> HIDE DEF key
  <2> QED  BY <1>2
<1> HIDE DEF data, key, ssid
<1>5. /\ asked.phyType = line.phy /\ asked.bands = line.bands /\ asked.ssid = ssid
      /\ asked.state = <<"ENABLED">> /\ asked.data = data
      /\ asked.dot1x = <<>> /\ asked.algorithms = <<>> /\ asked.akmSuites = <<>>
      /\ asked.ciphers = <<>> /\ asked.bridge = <<>>
  BY <1>3 DEF NothingAsked
<1> QED  BY <1>4, <1>5 DEF ssid

\* The request of a command line that enables an access point asks for its PHY type.
LEMMA LinePhy ==
    ASSUME NEW line, IsLine(line), NEW configuration, Configured(line, configuration),
           ToSet(line.phy) \subseteq DOMAIN Ieee80211PhyTypeNames, line.phy # <<>>,
           NEW request, request.phyType = IF configuration.PhyType = <<>>
                                          THEN "Dot11PhyTypeUnknown"
                                          ELSE ToDot11PhyType(configuration.PhyType[1])
    PROVE  /\ Means(PhyNames, request.phyType) /\ Means(PhyNames, line.phy[1])
           /\ Meaning(PhyNames, request.phyType) = Meaning(PhyNames, line.phy[1])
<1>1. line.phy = <<line.phy[1]>> /\ line.phy[1] \in DOMAIN Ieee80211PhyTypeNames
  BY Singles DEF IsLine, IsOptional
<1>2. configuration.PhyType = <<Ieee80211PhyTypeNames[line.phy[1]]>>
  <2>1. configuration.PhyType = [i \in {1} |-> Ieee80211PhyTypeNames[line.phy[i]]]
    <3>1. DOMAIN line.phy = {1}
      BY <1>1
    <3> QED  BY <3>1 DEF Configured
  <2> QED  BY <2>1
<1>3. request.phyType = ToDot11PhyType(Ieee80211PhyTypeNames[line.phy[1]])
  BY <1>2
<1> QED  BY <1>1, <1>3, PhyWords

\* What is given of a PHY type is said of what it means.
LEMMA PhyGivenAlike ==
    ASSUME NEW asked, NEW other, Meaning(PhyNames, asked[1]) = Meaning(PhyNames, other[1]),
           NEW conf, NEW phys, PhyGiven(asked, conf, phys)
    PROVE  PhyGiven(other, conf, phys)
BY DEF PhyGiven

\* Its bands.
LEMMA LineBands ==
    ASSUME NEW line, IsLine(line), NEW configuration, Configured(line, configuration),
           ToSet(line.bands) \subseteq DOMAIN Ieee80211FrequencyBandNames,
           NEW request, request.bands = Each(ToDot11FrequencyBand, configuration.FrequencyBands)
    PROVE  /\ DOMAIN request.bands = DOMAIN line.bands
           /\ request.bands = <<>> <=> line.bands = <<>>
           /\ \A i \in DOMAIN line.bands :
                 Meaning(BandNames, request.bands[i]) = Meaning(BandNames, line.bands[i])
<1> DEFINE Band(i) == Ieee80211FrequencyBandNames[line.bands[i]]
           N == DOMAIN line.bands
<1>1. \A i \in N : line.bands[i] \in DOMAIN Ieee80211FrequencyBandNames
  BY DEF ToSet
<1>2. request.bands = [i \in N |-> ToDot11FrequencyBand(Band(i))]
  BY DEF Configured, Each
<1>3. \A i \in N : Meaning(BandNames, ToDot11FrequencyBand(Band(i)))
                     = Meaning(BandNames, line.bands[i])
  BY <1>1, BandWords
<1>4. IsList(line.bands)
  BY LineForms
<1>5. IsList(request.bands) /\ DOMAIN request.bands = N
  <2> HIDE DEF Band
  <2> QED  BY <1>2, <1>4, Mapped
<1>6. request.bands = <<>> <=> line.bands = <<>>
  BY <1>4, <1>5 DEF IsList
<1> QED  BY <1>2, <1>3, <1>5, <1>6

\* What is given of bands is said of what they mean.
LEMMA BandsGivenAlike ==
    ASSUME NEW asked, NEW other, DOMAIN asked = DOMAIN other,
           \A i \in DOMAIN asked : Meaning(BandNames, asked[i]) = Meaning(BandNames, other[i]),
           NEW conf
    PROVE  /\ BandsGiven(asked, conf) => BandsGiven(other, conf)
           /\ ProtectionGiven(asked, conf) => ProtectionGiven(other, conf)
<1>1. [i \in DOMAIN asked |-> Meaning(BandNames, asked[i])]
        = [i \in DOMAIN other |-> Meaning(BandNames, other[i])]
  OBVIOUS
<1> QED  BY <1>1 DEF BandsGiven, ProtectionGiven

\* And its name.
NameOf(line) == IF line.ssid = <<"">> THEN <<>> ELSE line.ssid

\* The SSID of a command line.
LEMMA LineSsid ==
    ASSUME NEW line, IsLine(line), NEW configuration, Configured(line, configuration),
           NEW request, request.ssid = Each(CliSsid, configuration.Ssid),
           NEW texts, texts = [i \in DOMAIN request.ssid |-> request.ssid[i].text]
    PROVE  texts = NameOf(line)
<1> DEFINE ssid == configuration.Ssid
<1>1. ssid = NameOf(line)
  BY DEF Configured, Keyed, NameOf
<1>2. IsOptional(ssid)
  <2>1. ssid \in {<<>>, line.ssid}
    BY DEF Configured
  <2> QED  BY <2>1, LineForms DEF IsOptional
<1>3. request.ssid = [i \in DOMAIN ssid |-> CliSsid(ssid[i])]
  BY DEF Each
<1> HIDE DEF ssid
<1>4. \A i \in DOMAIN ssid : request.ssid[i].text = ssid[i]
  <2>1. \A name : CliSsid(name).text = name
    BY DEF CliSsid
  <2>2. \A i \in DOMAIN ssid : request.ssid[i] = CliSsid(ssid[i])
    BY <1>3
  <2> QED  BY <2>1, <2>2
<1>5. [i \in DOMAIN request.ssid |-> request.ssid[i].text] = [i \in DOMAIN ssid |-> ssid[i]]
  BY <1>3, <1>4
<1>6. [i \in DOMAIN ssid |-> ssid[i]] = ssid
  <2>1. IsList(ssid)
    BY <1>2, Optionals
  <2> QED  BY <2>1 DEF IsList
<1> QED  BY <1>1, <1>5, <1>6

\* The password hostapd is given for one of a command line's.
LEMMA LinePasswordGiven ==
    ASSUME NEW line, IsLine(line), NEW sae \in ToSet(line.sae)
    PROVE  PasswordGiven(ToDot11RsnaPassword(ParseSaePasswordCliArgument(sae)))
             = LinePassword(sae)
<1> DEFINE parsed == ParseSaePasswordCliArgument(sae)
           p == ToDot11RsnaPassword(parsed)
           none == sae.peer = <<>> \/ sae.peer[1].is = "no address"
           peers == IF none THEN <<>> ELSE sae.peer
           id == IF sae.passwordId = <<"">> THEN <<>> ELSE sae.passwordId
           given == IF p.passwordId = "" THEN <<>> ELSE <<p.passwordId>>
           macs == Each(MacOf, p.peerMacAddress)
<1>1. /\ IsOptional(sae.passwordId) /\ IsOptional(sae.peer)
      /\ \A mac \in ToSet(sae.peer) :
            mac.is # "no address" => mac = [size |-> MacAddressSize, is |-> mac.is]
  BY DEF IsLine
<1>2. /\ parsed.Credential = sae.password /\ parsed.PasswordId = sae.passwordId
      /\ parsed.PeerMacAddress = peers
  BY DEF ParseSaePasswordCliArgument
<1> HIDE DEF parsed, peers
<1>3. /\ p.credential = sae.password
      /\ p.passwordId = IF sae.passwordId = <<>> THEN "" ELSE sae.passwordId[1]
      /\ p.peerMacAddress = Each(ToDot11MacAddress, peers)
  BY <1>2 DEF ToDot11RsnaPassword
<1> HIDE DEF p
<1>4. given = id
  <2> DEFINE e == ""
             text == sae.passwordId
  <2>1. /\ p.passwordId = IF text = <<>> THEN e ELSE text[1]
        /\ given = IF p.passwordId = e THEN <<>> ELSE <<p.passwordId>>
        /\ id = IF text = <<e>> THEN <<>> ELSE text
        /\ text = <<>> \/ text = <<text[1]>>
    BY <1>1, <1>3 DEF IsOptional
  <2> HIDE DEF e, text, given, id
  <2>2. CASE text = <<>>
    BY <2>1, <2>2
  <2>3. CASE text # <<>>
    <3> DEFINE t == text[1]
    <3>1. text = <<t>> /\ p.passwordId = t
      BY <2>1, <2>3
    <3> HIDE DEF t
    <3>2. <<t>> = <<e>> <=> t = e
      OBVIOUS
    <3> QED  BY <2>1, <2>3, <3>1, <3>2
  <2> QED  BY <2>2, <2>3
<1>5. macs = peers
  <2>1. CASE none
    <3>1. peers = <<>>
      BY <2>1 DEF peers
    <3>2. Each(ToDot11MacAddress, <<>>) = <<>> /\ Each(MacOf, <<>>) = <<>>
      BY DEF Each
    <3> QED  BY <1>3, <3>1, <3>2
  <2>2. CASE ~none
    <3> DEFINE mac == sae.peer[1]
    <3>1. peers = <<mac>> /\ mac \in ToSet(sae.peer)
      BY <1>1, <2>2, Singles DEF IsOptional, peers
    <3>2. mac = [size |-> 6, is |-> mac.is]
      BY <1>1, <2>2, <3>1 DEF MacAddressSize
    <3> HIDE DEF mac
    <3>3. MacOf(mac) = mac
      <4> DEFINE m == mac.is
      <4>1. mac = [size |-> 6, is |-> m]
        BY <3>2
      <4> HIDE DEF m
      <4> QED  BY <4>1 DEF MacOf
    <3>4. Each(ToDot11MacAddress, <<mac>>) = <<mac>>
      BY DEF Each, ToDot11MacAddress
    <3>5. Each(MacOf, <<mac>>) = <<mac>>
      <4>1. Each(MacOf, <<mac>>) = <<MacOf(mac)>>
        BY DEF Each
      <4> QED  BY <3>3, <4>1
    <3> QED  BY <1>3, <3>1, <3>4, <3>5
  <2> QED  BY <2>1, <2>2
<1>6. PasswordOf(p) = Password(sae.password, given, macs)
  BY <1>3 DEF PasswordOf
<1>7. LinePassword(sae) = Password(sae.password, id, peers)
  BY DEF LinePassword, peers
<1> HIDE DEF given, id, macs
<1>8. PasswordGiven(p) = LinePassword(sae)
  BY <1>4, <1>5, <1>6, <1>7, PasswordsAgree
<1> QED  BY <1>8 DEF p, parsed

\* The data of its request.
LEMMA LineKeys ==
    ASSUME NEW line, IsLine(line), NEW configuration, Configured(line, configuration),
           NEW data, data = ToDot11AuthenticationData(configuration.AuthenticationData)
    PROVE  /\ data.psk = <<>> <=> PskKeyOf(line) = <<>>
           /\ data.psk # <<>> /\ data.psk[1][1].encoding = "passphrase" =>
                 /\ PskKeyOf(line)[1].encoding = "passphrase"
                 /\ PskKeyOf(line)[1].size = data.psk[1][1].size
                 /\ PskKeyOf(line)[1].is = data.psk[1][1].is
           /\ line.sae = <<>> => data.sae = <<>>
           /\ line.sae # <<>> =>
                 data.sae = <<[i \in DOMAIN line.sae |->
                                 ToDot11RsnaPassword(ParseSaePasswordCliArgument(line.sae[i]))]>>
<1> DEFINE given == configuration.AuthenticationData
           psk == given.Psk
           sae == given.Sae
<1>1. /\ Keyed(line, configuration.Ssid, given) /\ IsOptional(psk)
  BY DEF Configured
<1>2. /\ data.psk = Each(ToDot11AuthenticationDataPsk, psk)
      /\ data.sae = Each(ToDot11AuthenticationDataSae, sae)
  BY DEF ToDot11AuthenticationData
<1>3. /\ line.psk = <<>> \/ line.passphrase = <<>>
      /\ Filled(line.psk) => psk # <<>> /\ psk[1].Psk.encoding = "Value"
      /\ ~Filled(line.psk) /\ Filled(line.passphrase) =>
            psk = <<[Psk |-> [encoding |-> "Passphrase", size |-> line.passphrase[1].size,
                              is |-> line.passphrase[1].is]]>>
      /\ ~Filled(line.psk) /\ ~Filled(line.passphrase) => psk = <<>>
      /\ line.sae = <<>> => sae = <<>>
      /\ line.sae # <<>> =>
            sae = <<[Passwords |-> Each(ParseSaePasswordCliArgument, line.sae)]>>
  BY <1>1 DEF Keyed
<1> HIDE DEF given, psk, sae
<1>4. psk = <<>> => data.psk = <<>>
  BY <1>2 DEF Each
<1>5. ASSUME psk # <<>>
      PROVE  /\ data.psk # <<>>
             /\ data.psk[1][1] = ToDot11RsnaPsk(psk[1].Psk)
  <2> DEFINE k == psk[1]
  <2>1. psk = <<k>>
    BY <1>1, <1>5 DEF IsOptional
  <2> HIDE DEF k
  <2>2. data.psk = <<ToDot11AuthenticationDataPsk(k)>>
    BY <1>2, <2>1 DEF Each
  <2>3. data.psk[1][1] = ToDot11RsnaPsk(k.Psk)
    BY <2>2 DEF ToDot11AuthenticationDataPsk
  <2> QED  BY <2>2, <2>3 DEF k
<1>6. CASE Filled(line.psk)
  <2>1. psk # <<>> /\ psk[1].Psk.encoding = "Value"
    BY <1>3, <1>6
  <2>2. data.psk # <<>> /\ data.psk[1][1].encoding = "raw"
    <3>1. ToDot11RsnaPsk(psk[1].Psk).encoding = "raw"
      BY <2>1 DEF ToDot11RsnaPsk
    <3> QED  BY <1>5, <2>1, <3>1
  <2>3. PskKeyOf(line) # <<>>
    BY <1>6 DEF PskKeyOf, Filled
  <2>4. (data.psk = <<>> <=> PskKeyOf(line) = <<>>) /\ data.psk[1][1].encoding # "passphrase"
    BY <2>2, <2>3
  <2>5. line.sae # <<>> => data.sae = <<[i \in DOMAIN line.sae |->
                             ToDot11RsnaPassword(ParseSaePasswordCliArgument(line.sae[i]))]>>
    BY <1>2, <1>3 DEF Each, ToDot11AuthenticationDataSae
  <2>6. line.sae = <<>> => data.sae = <<>>
    BY <1>2, <1>3 DEF Each
  <2> QED  BY <2>4, <2>5, <2>6
<1>7. CASE ~Filled(line.psk)
  <2>1. line.sae # <<>> => data.sae = <<[i \in DOMAIN line.sae |->
                             ToDot11RsnaPassword(ParseSaePasswordCliArgument(line.sae[i]))]>>
    BY <1>2, <1>3 DEF Each, ToDot11AuthenticationDataSae
  <2>2. line.sae = <<>> => data.sae = <<>>
    BY <1>2, <1>3 DEF Each
  <2>3. CASE ~Filled(line.passphrase)
    <3>1. PskKeyOf(line) = <<>> /\ data.psk = <<>>
      BY <1>3, <1>4, <1>7, <2>3 DEF PskKeyOf
    <3> QED  BY <2>1, <2>2, <3>1
  <2>4. CASE Filled(line.passphrase)
    <3> DEFINE text == line.passphrase[1]
               key == [encoding |-> "Passphrase", size |-> text.size, is |-> text.is]
               coded == [encoding |-> "passphrase", size |-> text.size, is |-> text.is]
    <3>1. psk = <<[Psk |-> key]>>
      BY <1>3, <1>7, <2>4
    <3>2. line.psk = <<>>
      BY <1>3, <2>4 DEF Filled
    <3>3. PskKeyOf(line) = <<coded>>
      BY <2>4, <3>2 DEF PskKeyOf
    <3>4. ToDot11RsnaPsk(key) = coded
      BY DEF ToDot11RsnaPsk
    <3>5. coded.encoding = "passphrase" /\ coded.size = text.size /\ coded.is = text.is
      OBVIOUS
    <3> HIDE DEF key, coded, text
    <3>6. psk # <<>> /\ psk[1].Psk = key
      BY <3>1
    <3>7. data.psk # <<>> /\ data.psk[1][1] = coded
      BY <1>5, <3>4, <3>6
    <3>8. PskKeyOf(line) # <<>> /\ PskKeyOf(line)[1] = coded
      BY <3>3
    <3> QED  BY <2>1, <2>2, <3>5, <3>7, <3>8
  <2> QED  BY <2>3, <2>4
<1> QED  BY <1>6, <1>7

\* The key data a command line asks for is served by its request.
LEMMA LineData ==
    ASSUME NEW line, IsLine(line), NEW configuration, Configured(line, configuration),
           NEW data, data = ToDot11AuthenticationData(configuration.AuthenticationData),
           IsData(data), NEW accessPoint, NEW phys,
           NEW asked, asked["data"] = IF PskKeyOf(line) = <<>> /\ line.sae = <<>> THEN <<>>
                                      ELSE KeyData(PskKeyOf(line), Each(LinePassword, line.sae))
    PROVE  LET impl == IF data.psk # <<>> \/ data.sae # <<>>
                       THEN WifiAccessPointSetAuthenticationDataImpl(accessPoint, data)
                       ELSE <<>>
           IN  ServesPart("data", asked, impl, phys)
<1> DEFINE impl == WifiAccessPointSetAuthenticationDataImpl(accessPoint, data)
           passwords == Each(LinePassword, line.sae)
           parsed == [i \in DOMAIN line.sae |->
                        ToDot11RsnaPassword(ParseSaePasswordCliArgument(line.sae[i]))]
           given == [i \in DOMAIN data.sae[1] |-> PasswordGiven(data.sae[1][i])]
           keyed == [key |-> PskKeyOf(line), passwords |-> passwords]
<1>0. "data" \in Parts
  BY DEF Parts, NothingAsked
<1>1. /\ data.psk = <<>> <=> PskKeyOf(line) = <<>>
      /\ data.psk # <<>> /\ data.psk[1][1].encoding = "passphrase" =>
            /\ PskKeyOf(line)[1].encoding = "passphrase"
            /\ PskKeyOf(line)[1].size = data.psk[1][1].size
            /\ PskKeyOf(line)[1].is = data.psk[1][1].is
      /\ line.sae = <<>> => data.sae = <<>>
      /\ line.sae # <<>> => data.sae = <<parsed>>
  BY LineKeys
<1>2. CASE ~(data.psk # <<>> \/ data.sae # <<>>)
  <2>1. asked["data"] = <<>>
    BY <1>1, <1>2
  <2> QED  BY <1>0, <1>2, <2>1, ServesNothing
<1>3. CASE data.psk # <<>> \/ data.sae # <<>>
  <2>1. asked["data"] = <<keyed>>
    <3>1. ~(PskKeyOf(line) = <<>> /\ line.sae = <<>>)
      BY <1>1, <1>3
    <3>2. KeyData(PskKeyOf(line), passwords) = <<keyed>>
      BY DEF KeyData
    <3> HIDE DEF keyed, passwords
    <3> QED  BY <3>1, <3>2 DEF passwords
  <2>2. Within(impl, Own("data"))
    <3> DEFINE P == {"psk", "sae_password"}
    <3>1. P \subseteq Own("data")
      BY DEF Own, Reads
    <3>2. Within(impl, P)
      BY DataGivenBy
    <3> QED  BY <3>1, <3>2, WithinMore
  <2>3. passwords # <<>> => data.sae # <<>> /\ given = passwords
    <3>1. CASE line.sae = <<>>
      BY <3>1 DEF Each
    <3>2. CASE line.sae # <<>>
      <4>1. data.sae = <<parsed>>
        BY <1>1, <3>2
      <4>2. \A i \in DOMAIN line.sae : line.sae[i] \in ToSet(line.sae)
        BY DEF ToSet
      <4>3. \A i \in DOMAIN parsed : PasswordGiven(parsed[i]) = LinePassword(line.sae[i])
        BY <4>2, LinePasswordGiven
      <4>4. passwords = [i \in DOMAIN parsed |-> PasswordGiven(parsed[i])]
        <5>1. passwords = [i \in DOMAIN line.sae |-> LinePassword(line.sae[i])]
          BY DEF Each
        <5>2. DOMAIN parsed = DOMAIN line.sae
          OBVIOUS
        <5> HIDE DEF parsed, passwords
        <5> QED  BY <4>3, <5>1, <5>2
      <4> HIDE DEF parsed, passwords
      <4>5. data.sae # <<>> /\ data.sae[1] = parsed
        BY <4>1
      <4> DEFINE t(f) == [i \in DOMAIN f |-> PasswordGiven(f[i])]
      <4>6. given = t(data.sae[1]) /\ passwords = t(parsed)
        BY <4>4
      <4> HIDE DEF t, given
      <4> QED  BY <4>5, <4>6
    <3> QED  BY <3>1, <3>2
  <2>4. ASSUME NEW h, NEW x, Done(h, impl, x)
        PROVE  Given("data", asked, x.conf, phys) /\ x.live = x.conf
    <3> DEFINE k == data.psk[1][1]
               installed == <<"wpa_passphrase", [size |-> k.size, is |-> k.is]>>
    <3>1. /\ data.psk # <<>> => k.encoding = "passphrase" /\ x.conf.psk = installed
          /\ data.sae # <<>> => x.conf.sae_password = given
          /\ x.live = x.conf
      BY <2>4, DataGivenBy
    <3>2. PskKeyOf(line) # <<>> => x.conf.psk = Installed(PskKeyOf(line)[1])
      <4> DEFINE l == PskKeyOf(line)[1]
      <4> SUFFICES ASSUME PskKeyOf(line) # <<>> PROVE x.conf.psk = Installed(l)
        OBVIOUS
      <4>1. l.encoding = "passphrase" /\ l.size = k.size /\ l.is = k.is
            /\ x.conf.psk = <<"wpa_passphrase", [size |-> k.size, is |-> k.is]>>
        BY <1>1, <3>1
      <4> HIDE DEF l, k
      <4>2. Installed(l) = <<"wpa_passphrase", [size |-> l.size, is |-> l.is]>>
        BY <4>1 DEF Installed
      <4> QED  BY <4>1, <4>2
    <3> HIDE DEF passwords, given, k, installed
    <3>3. keyed.key = PskKeyOf(line) /\ keyed.passwords = passwords
      OBVIOUS
    <3> HIDE DEF keyed
    <3>4. DataGiven(keyed, x.conf)
      BY <2>3, <3>1, <3>2, <3>3 DEF DataGiven
    <3>5. Given("data", asked, x.conf, phys)
      <4>1. asked.data = <<keyed>>
        BY <2>1
      <4>2. asked.data[1] = keyed
        BY <4>1
      <4> QED  BY <3>4, <4>2 DEF Given
    <3> QED  BY <3>1, <3>5
  <2> HIDE DEF impl
  <2>5. ServesPart("data", asked, impl, phys)
    BY <2>2, <2>4 DEF ServesPart
  <2> QED  BY <1>3, <2>5 DEF impl
<1> QED  BY <1>2, <1>3

\* A command line that enables an access point asks for what its request does.
LEMMA LineEnables ==
    ASSUME NEW line, IsLine(line), NEW configuration, Configured(line, configuration),
           ToSet(line.phy) \subseteq DOMAIN Ieee80211PhyTypeNames,
           ToSet(line.bands) \subseteq DOMAIN Ieee80211FrequencyBandNames,
           line.command \in EnableNames
    PROVE  EnableAsks(HeardOfLine(line), CliWifiAccessPointEnable(line.id[1], configuration))
<1> DEFINE request == CliWifiAccessPointEnable(line.id[1], configuration)
           asked == HeardOfLine(line)
           more == HeardOfRequest(request)
<1>1. IsRequest(request) /\ request.api = "WifiAccessPointEnable"
  <2>1. request.api = "WifiAccessPointEnable"
    BY DEF CliWifiAccessPointEnable
  <2> QED  BY <2>1, EnableRequest
<1>2. /\ request.phyType = IF configuration.PhyType = <<>> THEN "Dot11PhyTypeUnknown"
                           ELSE ToDot11PhyType(configuration.PhyType[1])
      /\ request.ssid = Each(CliSsid, configuration.Ssid)
      /\ request.bands = Each(ToDot11FrequencyBand, configuration.FrequencyBands)
      /\ request.data = ToDot11AuthenticationData(configuration.AuthenticationData)
  BY DEF CliWifiAccessPointEnable
<1> HIDE DEF request
<1>3. /\ asked.phyType = line.phy /\ asked.bands = line.bands
      /\ asked.ssid = IF line.ssid = <<"">> THEN <<>> ELSE line.ssid
      /\ asked.state = <<"ENABLED">>
      /\ asked.data = IF PskKeyOf(line) = <<>> /\ line.sae = <<>> THEN <<>>
                      ELSE KeyData(PskKeyOf(line), Each(LinePassword, line.sae))
      /\ asked.dot1x = <<>> /\ asked.algorithms = <<>> /\ asked.akmSuites = <<>>
      /\ asked.ciphers = <<>> /\ asked.bridge = <<>>
  BY EnableLine
<1>4. /\ more.phyType = IF Means(PhyNames, request.phyType) THEN <<request.phyType>> ELSE <<>>
      /\ more.ssid = [i \in DOMAIN request.ssid |-> request.ssid[i].text]
      /\ more.bands = request.bands
  <2>1. \A field \in {"phyType", "ssid", "bands"} :
            field \in DOMAIN request /\ field \in RequestFields[request.api]
    BY <1>1, FieldsOf DEF RequestFields
  <2>2. FieldOr(request, "phyType", "") = request.phyType
    BY <2>1 DEF FieldOr
  <2>3. Field(request, "ssid") = request.ssid /\ Field(request, "bands") = request.bands
    BY <2>1 DEF FieldOr, Field
  <2> DEFINE t(f) == [i \in DOMAIN f |-> request.ssid[i].text]
  <2>4. more.ssid = t(Field(request, "ssid"))
    BY AskedFields
  <2>5. more.phyType = IF Means(PhyNames, FieldOr(request, "phyType", ""))
                       THEN <<request.phyType>> ELSE <<>>
    BY AskedFields
  <2>6. more.bands = request.bands
    BY <2>3, AskedFields
  <2> HIDE DEF t, more
  <2>7. more.ssid = t(request.ssid)
    BY <2>3, <2>4
  <2>8. more.phyType = IF Means(PhyNames, request.phyType) THEN <<request.phyType>> ELSE <<>>
    BY <2>2, <2>5
  <2> QED  BY <2>6, <2>7, <2>8 DEF t
<1> HIDE DEF asked, more
<1>5. \A conf, phys : Given("phyType", more, conf, phys) => Given("phyType", asked, conf, phys)
  <2>1. CASE line.phy = <<>>
    BY <1>3, <2>1 DEF Given
  <2>2. CASE line.phy # <<>>
    <3>1. /\ Means(PhyNames, request.phyType)
          /\ Meaning(PhyNames, request.phyType) = Meaning(PhyNames, line.phy[1])
      BY <1>2, <2>2, LinePhy
    <3>2. more.phyType = <<request.phyType>> /\ more.phyType # <<>>
          /\ more.phyType[1] = request.phyType
      BY <1>4, <3>1
    <3>3. Meaning(PhyNames, more.phyType[1]) = Meaning(PhyNames, asked.phyType[1])
      BY <1>3, <3>1, <3>2
    <3>4. \A conf, phys : PhyGiven(more.phyType, conf, phys) => PhyGiven(asked.phyType, conf, phys)
      BY <3>3, PhyGivenAlike
    <3> QED  BY <3>2, <3>4 DEF Given
  <2> QED  BY <2>1, <2>2
<1>6. asked.phyType # <<>> => more.phyType # <<>>
  <2>1. ASSUME line.phy # <<>> PROVE Means(PhyNames, request.phyType)
    BY <1>2, <2>1, LinePhy
  <2>2. <<request.phyType>> # <<>>
    OBVIOUS
  <2> QED  BY <1>3, <1>4, <2>1, <2>2
<1>7. /\ DOMAIN request.bands = DOMAIN line.bands
      /\ request.bands = <<>> <=> line.bands = <<>>
      /\ \A i \in DOMAIN line.bands :
            Meaning(BandNames, request.bands[i]) = Meaning(BandNames, line.bands[i])
  BY <1>2, LineBands
<1>8. \A conf : /\ BandsGiven(more.bands, conf) => BandsGiven(asked.bands, conf)
                /\ ProtectionGiven(more.bands, conf) => ProtectionGiven(asked.bands, conf)
  <2>1. DOMAIN more.bands = DOMAIN asked.bands
    BY <1>3, <1>4, <1>7
  <2>2. \A i \in DOMAIN more.bands :
            Meaning(BandNames, more.bands[i]) = Meaning(BandNames, asked.bands[i])
    BY <1>3, <1>4, <1>7
  <2> QED  BY <2>1, <2>2, BandsGivenAlike
<1>9. more.bands = <<>> <=> asked.bands = <<>>
  BY <1>3, <1>4, <1>7
<1>10. more.ssid = asked.ssid
  <2>1. request.ssid = Each(CliSsid, configuration.Ssid)
    BY <1>2
  <2>2. more.ssid = [i \in DOMAIN request.ssid |-> request.ssid[i].text]
    BY <1>4
  <2> DEFINE texts == more.ssid
  <2>3. texts = [i \in DOMAIN request.ssid |-> request.ssid[i].text]
    BY <2>2
  <2> HIDE DEF texts
  <2>4. texts = NameOf(line)
    BY <2>1, <2>3, LineSsid
  <2>5. asked.ssid = NameOf(line)
    BY <1>3 DEF NameOf
  <2> QED  BY <2>4, <2>5 DEF texts
<1>11. EnableAsks(more, request)
  BY <1>1, EnableAsksIt DEF more
<1>12. ASSUME NEW accessPoint, NEW ciphers \in EnableCiphers(accessPoint, request),
              NEW i \in 1 .. 8, NEW phys
       PROVE  ServesPart(PartOrder[i], asked, PartCommands(accessPoint, request, ciphers)[i], phys)
  <2> DEFINE part == PartOrder[i]
             s == PartCommands(accessPoint, request, ciphers)[i]
  <2>1. ServesPart(part, more, s, phys)
    BY <1>11, <1>12 DEF EnableAsks
  <2>2. part \in {"phyType", "dot1x", "algorithms", "data", "akmSuites", "ciphers", "ssid", "bands"}
        /\ i \in DOMAIN PartOrder
    BY DEF PartOrder
  <2>3. s = ConfigurationParts(accessPoint, request, ciphers)[part]
    BY <2>2 DEF PartCommands
  <2> HIDE DEF part, s
  <2>4. ASSUME part = "data" PROVE ServesPart(part, asked, s, phys)
    <3> DEFINE data == request.data
               impl == IF data.psk # <<>> \/ data.sae # <<>>
                       THEN WifiAccessPointSetAuthenticationDataImpl(accessPoint, data)
                       ELSE <<>>
    <3>1. IsData(data)
      <4>1. "data" \in RequestFields[request.api]
        BY <1>1 DEF RequestFields
      <4> QED  BY <1>1, <4>1, FieldForms
    <3>2. s = impl
      BY <2>3, <2>4 DEF ConfigurationParts
    <3>3. ServesPart("data", asked, impl, phys)
      <4>1. data = ToDot11AuthenticationData(configuration.AuthenticationData)
        BY <1>2
      <4>2. asked["data"] = IF PskKeyOf(line) = <<>> /\ line.sae = <<>> THEN <<>>
                            ELSE KeyData(PskKeyOf(line), Each(LinePassword, line.sae))
        BY <1>3
      <4> HIDE DEF data
      <4> QED  BY <3>1, <4>1, <4>2, LineData
    <3> QED  BY <2>4, <3>2, <3>3
  <2>5. ASSUME part = "phyType" PROVE ServesPart(part, asked, s, phys)
    <3>1. \A conf : Given(part, more, conf, phys) => Given(part, asked, conf, phys)
      BY <1>5, <2>5
    <3>2. asked[part] # <<>> => more[part] # <<>>
      BY <1>6, <2>5
    <3> QED  BY <2>1, <2>5, <3>1, <3>2, ServesLess
  <2>6. ASSUME part = "bands" PROVE ServesPart(part, asked, s, phys)
    <3>1. \A conf : Given(part, more, conf, phys) => Given(part, asked, conf, phys)
      BY <1>8, <1>9, <2>6 DEF Given
    <3>2. asked[part] # <<>> => more[part] # <<>>
      BY <1>9, <2>6
    <3> QED  BY <1>8, <2>1, <2>6, <3>1, <3>2, ServesLess
  <2>7. ASSUME part = "ssid" PROVE ServesPart(part, asked, s, phys)
    <3>1. \A conf : Given(part, more, conf, phys) => Given(part, asked, conf, phys)
      BY <1>10, <2>7 DEF Given
    <3>2. asked[part] # <<>> => more[part] # <<>>
      BY <1>10, <2>7
    <3> QED  BY <2>1, <2>7, <3>1, <3>2, ServesLess
  <2>8. ASSUME part \in {"dot1x", "algorithms", "akmSuites", "ciphers"}
        PROVE  ServesPart(part, asked, s, phys)
    <3>1. asked[part] = <<>>
      BY <1>3, <2>8
    <3>2. \A conf : Given(part, more, conf, phys) => Given(part, asked, conf, phys)
      BY <3>1 DEF Given
    <3> QED  BY <2>1, <2>8, <3>1, <3>2, ServesLess
  <2>9. ServesPart(part, asked, s, phys)
    BY <2>2, <2>4, <2>5, <2>6, <2>7, <2>8
  <2> QED  BY <2>9 DEF part, s
<1>13. EnableAsks(asked, request)
  BY <1>3, <1>12 DEF EnableAsks
<1> QED  BY <1>13 DEF asked, request

\* The servers asked for by a list of the API's.
AllWanted(s) == [i \in DOMAIN s |-> Wanted(s[i])]

\* One after another.
LEMMA WantedMore ==
    ASSUME NEW s, IsList(s), NEW t, IsList(t), NEW all, all = s \o t
    PROVE  IsList(all) /\ AllWanted(s) \o AllWanted(t) = AllWanted(all)
<1> DEFINE a == AllWanted(s)  b == AllWanted(t)  r == AllWanted(all)
<1>1. IsList(a) /\ DOMAIN a = DOMAIN s /\ Len(a) = Len(s)
  BY Mapped DEF AllWanted
<1>2. IsList(b) /\ DOMAIN b = DOMAIN t /\ Len(b) = Len(t)
  BY Mapped DEF AllWanted
<1>3. IsList(all) /\ Len(all) = Len(s) + Len(t)
  BY Concatenation
<1>4. /\ \A i \in 1 .. Len(s) : all[i] = s[i]
      /\ \A i \in 1 .. Len(t) : all[Len(s) + i] = t[i]
  BY Concatenation
<1>5. IsList(r) /\ DOMAIN r = DOMAIN all /\ Len(r) = Len(all)
  BY <1>3, Mapped DEF AllWanted
<1>6. /\ \A i \in DOMAIN s : a[i] = Wanted(s[i])
      /\ \A i \in DOMAIN t : b[i] = Wanted(t[i])
      /\ \A i \in DOMAIN all : r[i] = Wanted(all[i])
  BY DEF AllWanted
<1>7. /\ Len(s) \in Nat /\ Len(t) \in Nat /\ DOMAIN s = 1 .. Len(s) /\ DOMAIN t = 1 .. Len(t)
      /\ DOMAIN all = 1 .. Len(all)
  BY <1>3, Lists
<1> HIDE DEF a, b, r
<1> DEFINE l == a \o b
<1>8. IsList(l) /\ Len(l) = Len(a) + Len(b)
  BY <1>1, <1>2, Concatenation
<1>9. /\ \A i \in 1 .. Len(a) : l[i] = a[i]
      /\ \A i \in 1 .. Len(b) : l[Len(a) + i] = b[i]
  BY <1>1, <1>2, Concatenation
<1> HIDE DEF l
<1>10. ASSUME NEW i \in 1 .. Len(l) PROVE l[i] = r[i]
  <2>1. CASE i \in 1 .. Len(s)
    BY <1>1, <1>3, <1>4, <1>6, <1>7, <1>9, <2>1
  <2>2. CASE i \notin 1 .. Len(s)
    <3> DEFINE j == i - Len(s)
    <3>1. j \in 1 .. Len(t) /\ i = Len(s) + j /\ i \in DOMAIN all
      BY <1>1, <1>2, <1>3, <1>7, <1>8, <2>2
    <3> HIDE DEF j
    <3>2. l[Len(a) + j] = b[j] /\ all[Len(s) + j] = t[j]
      BY <1>2, <1>4, <1>9, <3>1
    <3>3. l[i] = b[j] /\ all[i] = t[j]
      BY <1>1, <3>1, <3>2
    <3>4. b[j] = Wanted(t[j]) /\ r[i] = Wanted(all[i])
      BY <1>6, <1>7, <3>1
    <3> QED  BY <3>3, <3>4
  <2> QED  BY <2>1, <2>2
<1>11. l = r
  BY <1>1, <1>2, <1>3, <1>5, <1>8, <1>10, SameLists
<1> QED  BY <1>3, <1>11 DEF a, b, l, r

\* Optional values one after another make a list as long as there are of them only
\* when none is missing.
LEMMA FlattenFull ==
    ASSUME NEW ss, IsList(ss), \A i \in DOMAIN ss : IsOptional(ss[i]),
           NEW t, t = FlattenSeq(ss), Len(t) = Len(ss)
    PROVE  \A i \in DOMAIN ss : ss[i] # <<>> /\ ss[i][1] = t[i]
<1>1. CASE ss = <<>>
  BY <1>1
<1>2. CASE ss # <<>>
  <2> DEFINE n == Len(ss)
  <2>1. PICK f : Flattened(f, ss, n) /\ t = f[n]
    BY <1>2, FlattenSteps
  <2>2. n \in Nat /\ n # 0 /\ DOMAIN ss = 1 .. n
    BY <1>2, Lists
  <2> DEFINE Full(m) == /\ IsList(f[m]) /\ Len(f[m]) \in 0 .. m
                        /\ Len(f[m]) = m =>
                              \A i \in 1 .. m : ss[i] # <<>> /\ ss[i][1] = f[m][i]
             S == {m \in 0 .. n : m # 0 => Full(m)}
  <2>3. \A i \in 1 .. n : IsList(ss[i]) /\ Len(ss[i]) \in {0, 1}
                          /\ (Len(ss[i]) = 0 <=> ss[i] = <<>>)
    <3> SUFFICES ASSUME NEW i \in 1 .. n
                 PROVE  IsList(ss[i]) /\ Len(ss[i]) \in {0, 1}
                        /\ (Len(ss[i]) = 0 <=> ss[i] = <<>>)
      OBVIOUS
    <3> DEFINE v == ss[i]
    <3>1. IsOptional(v)
      BY <2>2
    <3> HIDE DEF v
    <3>2. v = <<>> \/ v = <<v[1]>>
      BY <3>1 DEF IsOptional
    <3>3. IsList(v)
      BY <3>1, Optionals
    <3>4. Len(v) \in {0, 1} /\ (Len(v) = 0 <=> v = <<>>)
      BY <3>2
    <3> QED  BY <3>3, <3>4 DEF v
  <2>4. \A i \in 1 .. n : f[i] = IF i = 1 THEN ss[i] ELSE f[i - 1] \o ss[i]
    BY <2>1 DEF Flattened
  <2>5. 0 \in S
    BY <2>2
  <2>6. ASSUME NEW m \in 0 .. n - 1, m \in S PROVE m + 1 \in S
    <3> DEFINE k == m + 1
    <3>1. k \in 1 .. n
      BY <2>2
    <3>2. Full(k)
      <4>1. CASE m = 0
        <5>0. k = 1 /\ 1 \in 1 .. n
          BY <3>1, <4>1
        <5>1. f[k] = ss[1]
          BY <2>4, <5>0
        <5>2. IsList(ss[1]) /\ Len(ss[1]) \in {0, 1} /\ (Len(ss[1]) = 0 <=> ss[1] = <<>>)
          BY <2>2, <2>3
        <5> DEFINE w == f[k]  v == ss[1]
        <5>3. w = f[k] /\ w = v /\ v = ss[1]
          BY <5>1
        <5>4. IsList(v) /\ Len(v) \in {0, 1} /\ (Len(v) = 0 <=> v = <<>>)
          BY <5>2
        <5> HIDE DEF k, w, v, Full
        <5>5. IsList(w) /\ Len(w) \in 0 .. k
          BY <5>0, <5>3, <5>4
        <5>6. ASSUME Len(w) = k, NEW i \in 1 .. k PROVE ss[i] # <<>> /\ ss[i][1] = w[i]
          <6>1. i = 1 /\ Len(v) = 1
            BY <5>0, <5>3, <5>6
          <6> QED  BY <5>3, <5>4, <6>1
        <5> QED  BY <5>3, <5>5, <5>6 DEF Full
      <4>2. CASE m # 0
        <5> DEFINE s == f[m]  v == ss[k]  w == f[k]
        <5>1. w = s \o v
          <6>1. \A j \in 1 .. n : j # 1 => f[j] = f[j - 1] \o ss[j]
            BY <2>4
          <6>2. k # 1 /\ k - 1 = m
            BY <2>2, <4>2
          <6> HIDE DEF k
          <6>3. f[k] = f[m] \o ss[k]
            BY <3>1, <6>1, <6>2
          <6> QED  BY <6>3
        <5>2. Full(m)
          BY <2>6, <4>2
        <5>3. IsList(v) /\ Len(v) \in {0, 1} /\ (Len(v) = 0 <=> v = <<>>)
          BY <2>3, <3>1
        <5>4. IsList(s) /\ Len(s) \in 0 .. m
              /\ (Len(s) = m => \A i \in 1 .. m : ss[i] # <<>> /\ ss[i][1] = s[i])
          BY <5>2
        <5>5. k = m + 1 /\ m \in Nat
          BY <2>2
        <5>6. w = f[k] /\ v = ss[k]
          OBVIOUS
        <5> HIDE DEF s, v, w, Full, S, k
        <5>7. IsList(w) /\ Len(w) = Len(s) + Len(v)
          BY <5>1, <5>3, <5>4, Concatenation
        <5>8. \A i \in 1 .. Len(s) : w[i] = s[i]
          BY <5>1, <5>3, <5>4, Concatenation
        <5>9. \A i \in 1 .. Len(v) : w[Len(s) + i] = v[i]
          BY <5>1, <5>3, <5>4, Concatenation
        <5> DEFINE a == Len(s)  c == Len(v)  d == Len(w)
        <5>a. a \in 0 .. m /\ c \in {0, 1} /\ d = a + c /\ k = m + 1 /\ m \in Nat
          BY <5>3, <5>4, <5>5, <5>7
        <5>b. d \in 0 .. k /\ (d = k => a = m /\ c = 1)
          <6> HIDE DEF a, c, d
          <6> QED  BY <5>a
        <5>10. Len(w) \in 0 .. k
          BY <5>b
        <5>11. ASSUME Len(w) = k, NEW i \in 1 .. k PROVE ss[i] # <<>> /\ ss[i][1] = w[i]
          <6>1. Len(s) = m /\ Len(v) = 1
            BY <5>b, <5>11
          <6>2. CASE i = k
            <7>1. w[k] = v[1]
              BY <5>5, <5>9, <6>1
            <7> QED  BY <5>3, <5>6, <6>1, <6>2, <7>1
          <6>3. CASE i # k
            <7>1. i \in 1 .. m
              BY <5>5, <6>3
            <7> QED  BY <5>4, <5>8, <6>1, <7>1
          <6> QED  BY <6>2, <6>3
        <5> QED  BY <5>6, <5>7, <5>10, <5>11 DEF Full
      <4> QED  BY <4>1, <4>2
    <3> HIDE DEF Full, k
    <3>3. k \in 0 .. n
      BY <2>2, <3>1
    <3>4. k \in S
      BY <3>2, <3>3
    <3> QED  BY <3>4 DEF k
  <2> HIDE DEF S
  <2>7. \A i \in 0 .. n : i \in S
    BY <2>2, <2>5, <2>6, Induction
  <2>8. Full(n)
    BY <2>2, <2>7 DEF S
  <2> QED  BY <2>1, <2>2, <2>8
<1> QED  BY <1>1, <1>2

\* The text of a server.
IsServerText(text) ==
    /\ IsList(text)
    /\ \A token \in ToSet(text) : IsOptional(token.port) /\ ToSet(token.port) \subseteq Nat

\* What is read of the text of a server in the documented form.
ReadFrom(server, text) ==
    LET n == Len(text)
    IN  /\ DOMAIN server = {"Type", "Address", "Port", "SharedSecret"}
        /\ server.Type = "Authentication" /\ server.Address = text[n - 1].host
        /\ server.SharedSecret = text[n].host
        /\ server.Port = IF text[n - 1].port = <<0>> THEN <<>> ELSE text[n - 1].port
        /\ server.Port = <<>> \/ \E p \in 1 .. 2^16 - 1 : server.Port = <<p>>

\* The text of a server is read as its documented form says.
LEMMA ServerRead ==
    ASSUME NEW text, IsServerText(text), Documented(text),
           ParseIeee8021xRadiusServerEndpointConfiguration(text) # <<>>,
           NEW server, server = ParseIeee8021xRadiusServerEndpointConfiguration(text)[1]
    PROVE  ReadFrom(server, text)
<1> DEFINE n == Len(text)
           D == DOMAIN text
           IsType(i)    == i = 1 /\ text[1].host \in RadiusTypeTokens
           IsAddress(i) == i <= 2 /\ ~IsType(i) /\ GetIpAddressCategory(text[i]) # "Unknown"
           IsSecret(i)  == i <= 3 /\ ~IsType(i) /\ ~IsAddress(i)
           Readable(t) == IF t.port = <<>> THEN t.form # "any6" ELSE t.port[1] < 2^16
           A == {i \in D : IsAddress(i) /\ \A j \in D : IsAddress(j) => j <= i}
           S == {i \in D : IsSecret(i) /\ \A j \in D : IsSecret(j) => j <= i}
           Ports == {i \in D : IsAddress(i) /\ text[i].port # <<>>}
           port  == IF Ports = {} THEN <<>>
                    ELSE text[CHOOSE i \in Ports : \A j \in Ports : j <= i].port
           bad == \/ \E i \in D : IsAddress(i) /\ ~Readable(text[i])
                  \/ A = {} \/ S = {}
           a == CHOOSE i \in A : TRUE
           s == CHOOSE i \in S : TRUE
           read == [Type |-> "Authentication", Address |-> text[a].host,
                    Port |-> IF port = <<0>> THEN <<>> ELSE port,
                    SharedSecret |-> text[s].host]
<1>1. ParseIeee8021xRadiusServerEndpointConfiguration(text)
        = IF bad THEN <<>> ELSE <<read>>
  BY DEF ParseIeee8021xRadiusServerEndpointConfiguration
<1>2. n \in {2, 3} /\ D = 1 .. n
  BY Lists DEF Documented, IsServerText
<1>3. /\ GetIpAddressCategory(text[n - 1]) # "Unknown"
      /\ n = 2 => text[1].host \notin RadiusTypeTokens
      /\ n = 3 => text[1].host \in RadiusTypeTokens
  <2>1. CASE n = 2
    <3>1. n - 1 = 1 /\ n # 3
      BY <2>1
    <3> QED  BY <2>1, <3>1 DEF Documented
  <2>2. CASE n = 3
    <3>1. n - 1 = 2 /\ n # 2
      BY <2>2
    <3> QED  BY <2>2, <3>1 DEF Documented
  <2> QED  BY <1>2, <2>1, <2>2
<1> HIDE DEF n
<1>4. /\ n - 1 \in D /\ n \in D
      /\ IsAddress(n - 1)
      /\ \A i \in D : i < n - 1 => ~IsAddress(i) /\ ~IsSecret(i)
  BY <1>2, <1>3
<1>5. ~bad /\ server = read
  <2> HIDE DEF bad, read
  <2>1. ~bad
    BY <1>1
  <2>2. server = <<read>>[1]
    BY <1>1, <2>1
  <2> QED  BY <2>1, <2>2
<1>6. A # {} /\ S # {} /\ Readable(text[n - 1])
  BY <1>4, <1>5
<1>7. ~IsAddress(n)
  \* were the last an address too, it would be no secret
  <2>1. ASSUME IsAddress(n) PROVE S = {}
    <3>1. \A i \in D : i = n \/ i = n - 1 \/ i < n - 1
      BY <1>2
    <3>2. \A i \in D : ~IsSecret(i)
      BY <1>4, <2>1, <3>1
    <3> QED  BY <3>2
  <2> QED  BY <1>6, <2>1
<1>8. IsSecret(n)
  <2>1. n <= 3 /\ n # 1
    BY <1>2
  <2>2. ~IsType(n)
    BY <2>1
  <2> HIDE DEF IsType, IsAddress
  <2> QED  BY <1>7, <2>1, <2>2
<1>9. A = {n - 1} /\ S = {n} /\ \A i \in D : IsAddress(i) => i = n - 1
  <2>1. \A i \in D : i \in Nat /\ (i = n \/ i = n - 1 \/ i < n - 1) /\ i <= n
    BY <1>2
  <2>2. \A i \in D : IsAddress(i) => i = n - 1
    BY <1>4, <1>7, <2>1
  <2>3. \A i \in D : IsSecret(i) => i = n
    BY <1>4, <2>1
  <2> HIDE DEF IsAddress, IsSecret
  <2>4. A = {n - 1}
    BY <1>2, <1>4, <2>2
  <2>5. S = {n}
    BY <1>2, <1>4, <1>8, <2>3
  <2> QED  BY <2>2, <2>4, <2>5
<1>10. a = n - 1 /\ s = n
  <2> HIDE DEF A, S
  <2> QED  BY <1>9
<1> DEFINE p == text[n - 1].port
<1>11. port = p
  <2> HIDE DEF IsAddress
  <2>1. CASE p = <<>>
    <3>1. Ports = {}
      BY <1>9, <2>1
    <3> QED  BY <2>1, <3>1
  <2>2. CASE p # <<>>
    <3>1. Ports = {n - 1}
      BY <1>4, <1>9, <2>2
    <3> HIDE DEF Ports
    <3>2. n - 1 <= n - 1
      BY <1>2
    <3>3. (CHOOSE i \in Ports : \A j \in Ports : j <= i) = n - 1
      BY <3>1, <3>2
    <3> QED  BY <3>1, <3>3
  <2> QED  BY <2>1, <2>2
<1>12. p = <<>> \/ \E k \in Nat : p = <<k>> /\ k < 2^16
  <2>1. text[n - 1] \in ToSet(text)
    BY <1>4 DEF ToSet
  <2>2. IsOptional(p) /\ ToSet(p) \subseteq Nat
    BY <2>1 DEF IsServerText
  <2>3. p # <<>> => p[1] < 2^16
    BY <1>6
  <2> HIDE DEF p
  <2>4. CASE p = <<p[1]>>
    <3> DEFINE k == p[1]
    <3>1. p = <<k>>
      BY <2>4
    <3>2. k \in Nat
      <4>1. k \in ToSet(p)
        BY <3>1, Singles
      <4> QED  BY <2>2, <4>1
    <3>3. k < 2^16
      BY <2>3, <3>1
    <3> HIDE DEF k
    <3> QED  BY <3>1, <3>2, <3>3
  <2> QED  BY <2>2, <2>4 DEF IsOptional
<1> DEFINE kept == IF p = <<0>> THEN <<>> ELSE p
<1>13. kept = <<>> \/ \E k \in 1 .. 2^16 - 1 : kept = <<k>>
  <2> HIDE DEF p
  <2>1. ASSUME NEW k \in Nat, p = <<k>>, k < 2^16, k # 0
        PROVE  \E j \in 1 .. 2^16 - 1 : kept = <<j>>
    <3>1. k \in 1 .. 2^16 - 1
      BY <2>1
    <3>2. kept = p
      BY <2>1
    <3> QED  BY <2>1, <3>1, <3>2
  <2> QED  BY <1>12, <2>1
<1>14. read.Type = "Authentication" /\ read.Address = text[a].host /\ read.Port = kept
       /\ read.SharedSecret = text[s].host
       /\ DOMAIN read = {"Type", "Address", "Port", "SharedSecret"}
  BY <1>11
<1> HIDE DEF read, a, s, kept
<1>15. /\ DOMAIN server = {"Type", "Address", "Port", "SharedSecret"}
       /\ server.Type = "Authentication" /\ server.Address = text[n - 1].host
       /\ server.SharedSecret = text[n].host /\ server.Port = kept
  BY <1>5, <1>10, <1>14
<1> QED  BY <1>13, <1>15 DEF ReadFrom, kept, n, p

\* The server a command line asks for with the text of one.
LineServer(text, list) ==
    LET n == Len(text)
    IN  Server(list, text[n - 1].host, text[n].host,
               IF text[n - 1].port = <<0>> THEN <<>> ELSE text[n - 1].port)

\* The servers of the texts of a command line.
LineServers(texts, list) == [i \in DOMAIN texts |-> LineServer(texts[i], list)]

\* A port that fits its 16 bits is kept.
LEMMA ModuloSmall == ASSUME NEW w \in Nat, NEW p \in 1 .. w - 1 PROVE p # 0 /\ p % w = p
  OBVIOUS
LEMMA Modulo == \A p \in 1 .. 2^16 - 1 : p # 0 /\ p % 2^16 = p
<1>1. 2^16 \in Nat
  OBVIOUS
<1> DEFINE w == 2^16
<1>2. w \in Nat
  BY <1>1
<1> HIDE DEF w
<1>3. \A p \in 1 .. w - 1 : p # 0 /\ p % w = p
  BY <1>2, ModuloSmall
<1> QED  BY <1>3 DEF w

\* What its API form asks for.
LEMMA ServerWanted ==
    ASSUME NEW server, server.Port = <<>> \/ \E p \in 1 .. 2^16 - 1 : server.Port = <<p>>,
           NEW list, list = IF server.Type = "Accounting" THEN "acct_servers" ELSE "auth_servers",
           server.Type \in {"Authentication", "Accounting"}
    PROVE  Wanted(ToServiceDot1xRadiusServerEndpointConfiguration(server))
             = Server(list, server.Address, server.SharedSecret, server.Port)
<1> DEFINE s == ToServiceDot1xRadiusServerEndpointConfiguration(server)
           port == IF s.port = 0 THEN <<>> ELSE <<s.port % 2^16>>
           kind == IF s.endpoint = "Dot1xRadiusServerEndpointAccounting" THEN "acct_servers"
                   ELSE "auth_servers"
<1>1. /\ s.endpoint = ToServiceDot1xRadiusServerEndpoint(server.Type)
      /\ s.address = server.Address /\ s.sharedSecret = server.SharedSecret
      /\ s.port = IF server.Port = <<>> THEN 0 ELSE server.Port[1]
  BY DEF ToServiceDot1xRadiusServerEndpointConfiguration
<1> HIDE DEF s
<1>a. /\ ToServiceDot1xRadiusServerEndpoint("Authentication")
            = "Dot1xRadiusServerEndpointAuthentication"
      /\ ToServiceDot1xRadiusServerEndpoint("Accounting") = "Dot1xRadiusServerEndpointAccounting"
  BY DEF ToServiceDot1xRadiusServerEndpoint, Switch
<1>2. kind = list
  <2>1. CASE server.Type = "Authentication"
    <3>1. s.endpoint = "Dot1xRadiusServerEndpointAuthentication"
      BY <1>1, <1>a, <2>1
    <3> QED  BY <2>1, <3>1
  <2>2. CASE server.Type = "Accounting"
    <3>1. s.endpoint = "Dot1xRadiusServerEndpointAccounting"
      BY <1>1, <1>a, <2>2
    <3> QED  BY <2>2, <3>1
  <2> QED  BY <2>1, <2>2
<1>3. port = server.Port
  <2>1. CASE server.Port = <<>>
    BY <1>1, <2>1
  <2>2. ASSUME NEW p \in 1 .. 2^16 - 1, server.Port = <<p>> PROVE port = server.Port
    <3>1. s.port = p
      BY ONLY <1>1, server.Port = <<p>>
    <3>2. p # 0 /\ p % 2^16 = p
      BY Modulo
    <3> QED  BY <2>2, <3>1, <3>2
  <2> QED  BY <2>1, <2>2
<1>4. Wanted(s) = Server(kind, server.Address, server.SharedSecret, port)
  BY <1>1 DEF Wanted
<1> HIDE DEF kind, port
<1>5. Wanted(s) = Server(list, server.Address, server.SharedSecret, server.Port)
  BY <1>2, <1>3, <1>4
<1> QED  BY <1>5 DEF s

\* The conversion of a server to the API's.
ApiServer(server) == ToServiceDot1xRadiusServerEndpointConfiguration(server)

\* The servers of an option, given their type, ask for those of its texts.
LEMMA OptionServers ==
    ASSUME NEW texts, IsList(texts),
           \A text \in ToSet(texts) : IsServerText(text) /\ Documented(text),
           NEW extracted, extracted = ExtractRadiusServers(texts), Len(extracted) = Len(texts),
           NEW type \in {"Authentication", "Accounting"},
           NEW list, list = IF type = "Accounting" THEN "acct_servers" ELSE "auth_servers"
    PROVE  /\ IsList(extracted) /\ DOMAIN extracted = DOMAIN texts
           /\ \A i \in DOMAIN texts :
                 /\ Wanted(ApiServer(extracted[i]))
                      = LineServer(texts[i], "auth_servers")
                 /\ Wanted(ApiServer([extracted[i] EXCEPT !.Type = type]))
                      = LineServer(texts[i], list)
<1> DEFINE ss == Each(ParseIeee8021xRadiusServerEndpointConfiguration, texts)
<1>1. \A tokens : IsOptional(ParseIeee8021xRadiusServerEndpointConfiguration(tokens))
  BY ZenonT(40) DEF ParseIeee8021xRadiusServerEndpointConfiguration, IsOptional
<1>2. /\ \A i \in DOMAIN texts :
            ss[i] = ParseIeee8021xRadiusServerEndpointConfiguration(texts[i])
      /\ extracted = FlattenSeq(ss)
  BY DEF Each, ExtractRadiusServers
<1>3. IsList(ss) /\ DOMAIN ss = DOMAIN texts /\ Len(ss) = Len(texts)
  BY Mapped DEF Each
<1> HIDE DEF ss
<1>4. \A i \in DOMAIN ss : IsOptional(ss[i])
  BY <1>1, <1>2, <1>3
<1>5. \A i \in DOMAIN ss : ss[i] # <<>> /\ ss[i][1] = extracted[i]
  BY <1>2, <1>3, <1>4, FlattenFull
<1>6. IsList(extracted) /\ DOMAIN extracted = DOMAIN texts
  <2>1. IsList(extracted)
    BY ServersRead
  <2> QED  BY <2>1, Lists
<1>7. ASSUME NEW i \in DOMAIN texts
      PROVE  /\ Wanted(ApiServer(extracted[i]))
                  = LineServer(texts[i], "auth_servers")
             /\ Wanted(ApiServer([extracted[i] EXCEPT !.Type = type]))
                  = LineServer(texts[i], list)
  <2> DEFINE text == texts[i]
             server == extracted[i]
             n == Len(text)
             typed == [server EXCEPT !.Type = type]
  <2>1. IsServerText(text) /\ Documented(text)
    BY DEF ToSet
  <2>2. /\ ParseIeee8021xRadiusServerEndpointConfiguration(text) # <<>>
        /\ server = ParseIeee8021xRadiusServerEndpointConfiguration(text)[1]
    BY <1>2, <1>3, <1>5
  <2>3. text = texts[i] /\ server = extracted[i] /\ n = Len(text)
    OBVIOUS
  <2> HIDE DEF text, server, n
  <2>4. /\ DOMAIN server = {"Type", "Address", "Port", "SharedSecret"}
        /\ server.Type = "Authentication" /\ server.Address = text[n - 1].host
        /\ server.SharedSecret = text[n].host
        /\ server.Port = IF text[n - 1].port = <<0>> THEN <<>> ELSE text[n - 1].port
        /\ server.Port = <<>> \/ \E p \in 1 .. 2^16 - 1 : server.Port = <<p>>
    <3>1. ReadFrom(server, text)
      BY <2>1, <2>2, ServerRead
    <3> QED  BY <2>3, <3>1 DEF ReadFrom
  <2>5. /\ typed.Type = type /\ typed.Address = server.Address
        /\ typed.SharedSecret = server.SharedSecret /\ typed.Port = server.Port
    BY <2>4
  <2>6. \A place : LineServer(text, place)
                    = Server(place, server.Address, server.SharedSecret, server.Port)
    <3> SUFFICES ASSUME NEW place
                 PROVE  LineServer(text, place)
                          = Server(place, server.Address, server.SharedSecret, server.Port)
      OBVIOUS
    <3> DEFINE port == IF text[n - 1].port = <<0>> THEN <<>> ELSE text[n - 1].port
    <3>1. LineServer(text, place) = Server(place, text[n - 1].host, text[n].host, port)
      BY <2>3 DEF LineServer
    <3>2. server.Port = port
      BY <2>4
    <3> HIDE DEF port
    <3> QED  BY <2>4, <3>1, <3>2
  <2> HIDE DEF typed
  <2>7. Wanted(ToServiceDot1xRadiusServerEndpointConfiguration(typed))
          = Server(list, typed.Address, typed.SharedSecret, typed.Port)
    BY <2>4, <2>5, ServerWanted
  <2>8. Wanted(ToServiceDot1xRadiusServerEndpointConfiguration(typed)) = LineServer(text, list)
    BY <2>5, <2>6, <2>7
  <2>9. Wanted(ToServiceDot1xRadiusServerEndpointConfiguration(server))
          = LineServer(text, "auth_servers")
    <3> DEFINE place == "auth_servers"
    <3>1. place = IF server.Type = "Accounting" THEN "acct_servers" ELSE "auth_servers"
      BY <2>4
    <3> HIDE DEF place
    <3>2. Wanted(ToServiceDot1xRadiusServerEndpointConfiguration(server))
            = Server(place, server.Address, server.SharedSecret, server.Port)
      BY <2>4, <3>1, ServerWanted
    <3> QED  BY <2>6, <3>2 DEF place
  <2> QED  BY <2>3, <2>8, <2>9 DEF typed, ApiServer
<1> QED  BY <1>6, <1>7

\* The commands that set the servers of an access point.
RadiusNames == {"access-point-set-radius", "ap-set-radius", "ap-radius", "radius"}

\* Those that set its name.
SsidNames == {"access-point-set-ssid", "ap-set-ssid", "set-ssid", "setssid", "ssid"}

\* Those that disable it.
DisableNames == {"access-point-disable", "ap-disable", "disable", "apd"}

\* The texts of servers of a command line.
AllDocumented(line) ==
    \A option \in {"auth", "acct", "fallback"} : \A i \in DOMAIN line[option] :
        Documented(line[option][i])

\* What these commands ask for.
LEMMA LineAsks ==
    ASSUME NEW line, NEW asked, asked = HeardOfLine(line)
    PROVE  /\ line.command \in RadiusNames =>
                 /\ asked.state = <<>> /\ \A part \in Parts \ {"dot1x"} : asked[part] = <<>>
                 /\ asked["dot1x"] = IF ~AllDocumented(line) THEN <<>>
                                     ELSE LineServers(line.auth, "auth_servers")
                                          \o LineServers(line.acct, "acct_servers")
                                          \o LineServers(line.fallback, "auth_servers")
           /\ line.command \in SsidNames =>
                 /\ asked.state = <<>> /\ \A part \in Parts \ {"ssid"} : asked[part] = <<>>
                 /\ asked["ssid"] = line.ssid
           /\ line.command \in DisableNames =>
                 /\ asked.state = <<"DISABLED">> /\ \A part \in Parts : asked[part] = <<>>
<1>1. ASSUME line.command \in RadiusNames
      PROVE  /\ asked.state = <<>> /\ \A part \in Parts \ {"dot1x"} : asked[part] = <<>>
             /\ asked["dot1x"] = IF ~AllDocumented(line) THEN <<>>
                                 ELSE LineServers(line.auth, "auth_servers")
                                      \o LineServers(line.acct, "acct_servers")
                                      \o LineServers(line.fallback, "auth_servers")
  <2>1. asked = [NothingAsked EXCEPT !.dot1x =
                    IF ~AllDocumented(line) THEN <<>>
                    ELSE LineServers(line.auth, "auth_servers")
                         \o LineServers(line.acct, "acct_servers")
                         \o LineServers(line.fallback, "auth_servers")]
    BY <1>1 DEF HeardOfLine, RadiusNames, AllDocumented, LineServers, LineServer
  <2> DEFINE dot1x == IF ~AllDocumented(line) THEN <<>>
                      ELSE LineServers(line.auth, "auth_servers")
                           \o LineServers(line.acct, "acct_servers")
                           \o LineServers(line.fallback, "auth_servers")
  <2>2. asked = [NothingAsked EXCEPT !.dot1x = dot1x]
    BY <2>1
  <2> HIDE DEF dot1x
  <2>3. asked.dot1x = dot1x
    BY <2>2 DEF NothingAsked
  <2>4. asked.state = <<>> /\ \A part \in Parts \ {"dot1x"} : asked[part] = <<>>
    BY <2>2 DEF NothingAsked, Parts
  <2> QED  BY <2>3, <2>4 DEF dot1x
<1>2. ASSUME line.command \in SsidNames
      PROVE  /\ asked.state = <<>> /\ \A part \in Parts \ {"ssid"} : asked[part] = <<>>
             /\ asked["ssid"] = line.ssid
  <2>1. asked = [NothingAsked EXCEPT !.ssid = line.ssid]
    BY <1>2 DEF HeardOfLine, SsidNames
  <2> QED  BY <2>1 DEF NothingAsked, Parts
<1>3. ASSUME line.command \in DisableNames
      PROVE  asked.state = <<"DISABLED">> /\ \A part \in Parts : asked[part] = <<>>
  <2>1. asked = [NothingAsked EXCEPT !.state = <<"DISABLED">>]
    BY <1>3 DEF HeardOfLine, DisableNames
  <2> QED  BY <2>1 DEF NothingAsked, Parts
<1> QED  BY <1>1, <1>2, <1>3

\* Nothing else than what is asked for is asked for.
LEMMA FulfilledLess ==
    ASSUME NEW asked, NEW more, \A part \in Parts : asked[part] \in {<<>>, more[part]},
           asked.state = more.state, NEW x, NEW phys, Fulfilled(more, x, phys)
    PROVE  Fulfilled(asked, x, phys)
<1>1. ASSUME NEW part \in Parts PROVE Given(part, asked, x.live, phys)
  <2>1. CASE asked[part] = <<>>
    BY <2>1 DEF Given
  <2>2. CASE asked[part] = more[part]
    <3>1. Given(part, more, x.live, phys)
      BY DEF Fulfilled
    <3>2. part \in {"phyType", "dot1x", "algorithms", "data", "akmSuites", "ciphers", "ssid",
                    "bands", "bridge"}
      BY DEF Parts, NothingAsked
    <3> QED  BY <2>2, <3>1, <3>2 DEF Given
  <2> QED  BY <2>1, <2>2
<1>2. ProtectionGiven(asked.bands, x.conf)
  <2>1. asked.bands \in {<<>>, more.bands}
    BY DEF Parts, NothingAsked
  <2>2. ProtectionGiven(<<>>, x.conf)
    BY DEF ProtectionGiven
  <2> QED  BY <2>1, <2>2 DEF Fulfilled
<1>3. asked.state \in {<<>>, <<x.state>>}
  BY DEF Fulfilled
<1> QED  BY <1>1, <1>2, <1>3 DEF Fulfilled

\* The request for servers.
LEMMA RadiusMakes ==
    ASSUME NEW connection, NEW line,
           AddSubcommandWifiAccessPointSet8021xRadius(connection, line).request # <<>>
    PROVE  AddSubcommandWifiAccessPointSet8021xRadius(connection, line).request[1].api
             = "WifiAccessPointSetAuthenticationDot1x"
<1> DEFINE run == AddSubcommandWifiAccessPointSet8021xRadius(connection, line)
           Extract(option) == ExtractRadiusServers(line[option])
           radius == [AuthenticationServer |->
                          [Extract("auth")[1] EXCEPT !.Type = "Authentication"],
                      AccountingServer |-> [i \in DOMAIN line.acct |->
                                              [Extract("acct")[i] EXCEPT !.Type = "Accounting"]],
                      FallbackServers |-> Extract("fallback")]
           made == CliWifiAccessPointSet8021xRadius(line.id[1], radius)
<1>1. run \in {ParseError, HandleCommand(connection, made)}
  BY DEF AddSubcommandWifiAccessPointSet8021xRadius
<1>2. ParseError.request = <<>>
  BY DEF ParseError
<1>3. made.api = "WifiAccessPointSetAuthenticationDot1x"
  BY DEF CliWifiAccessPointSet8021xRadius
<1> HIDE DEF made
<1>4. run.request # <<>>
  OBVIOUS
<1> HIDE DEF run
<1>5. run.request[1] = made
  BY <1>1, <1>2, <1>4, Handled
<1> QED  BY <1>3, <1>5 DEF run

\* The servers of the request ask for those of the command line.
LEMMA RadiusAsks ==
    ASSUME NEW connection, NEW line, IsLine(line), AllDocumented(line),
           AddSubcommandWifiAccessPointSet8021xRadius(connection, line).request # <<>>,
           NEW request, IsRequest(request),
           request = AddSubcommandWifiAccessPointSet8021xRadius(connection, line).request[1],
           NEW asked, asked = HeardOfRequest(request)
    PROVE  asked["dot1x"] = LineServers(line.auth, "auth_servers")
                            \o LineServers(line.acct, "acct_servers")
                            \o LineServers(line.fallback, "auth_servers")
<1> DEFINE run == AddSubcommandWifiAccessPointSet8021xRadius(connection, line)
           Extract(option) == ExtractRadiusServers(line[option])
           auth == Extract("auth")
           acct == Extract("acct")
           fallback == Extract("fallback")
           radius == [AuthenticationServer |-> [auth[1] EXCEPT !.Type = "Authentication"],
                      AccountingServer |-> [i \in DOMAIN line.acct |->
                                              [acct[i] EXCEPT !.Type = "Accounting"]],
                      FallbackServers |-> fallback]
           made == CliWifiAccessPointSet8021xRadius(line.id[1], radius)
           bad == \/ line.id = <<>> \/ line.auth = <<>>
                  \/ \E option \in {"auth", "acct", "fallback"} :
                        Len(Extract(option)) # Len(line[option])
           message == ToServiceDot1xRadiusConfiguration(radius)
<1>1. run = IF bad THEN ParseError ELSE HandleCommand(connection, made)
  BY DEF AddSubcommandWifiAccessPointSet8021xRadius
<1>2. ~bad /\ request = made
  <2> HIDE DEF bad, made, run
  <2>1. run.request # <<>> /\ request = run.request[1]
    BY DEF run
  <2>2. ParseError.request = <<>>
    BY DEF ParseError
  <2>3. ~bad
    BY <1>1, <2>1, <2>2
  <2> QED  BY <1>1, <2>1, <2>3, Handled
<1>3. /\ line.auth # <<>> /\ Len(auth) = Len(line.auth) /\ Len(acct) = Len(line.acct)
      /\ Len(fallback) = Len(line.fallback)
  BY <1>2
<1>4. request.api = "WifiAccessPointSetAuthenticationDot1x" /\ request.dot1x.radius = <<message>>
  <2>1. made.api = "WifiAccessPointSetAuthenticationDot1x"
        /\ made.dot1x.radius = Each(ToServiceDot1xRadiusConfiguration, <<radius>>)
    BY DEF CliWifiAccessPointSet8021xRadius, ToDot11AuthenticationDot1x
  <2> HIDE DEF made, radius
  <2> QED  BY <1>2, <2>1 DEF Each
<1> DEFINE first == [auth[1] EXCEPT !.Type = "Authentication"]
           second == [i \in DOMAIN line.acct |-> ApiServer([acct[i] EXCEPT !.Type = "Accounting"])]
           third == [i \in DOMAIN fallback |-> ApiServer(fallback[i])]
<1>5. /\ message.authenticationServer = <<ApiServer(first)>>
      /\ message.accountingServer = second /\ message.fallbackServers = third
  BY DEF ToServiceDot1xRadiusConfiguration, ApiServer, Each
<1>6. asked.dot1x = AllWanted(AllServers(message))
  <2> HIDE DEF message
  <2>1. request.dot1x.radius # <<>> /\ request.dot1x.radius[1] = message
    BY <1>4
  <2>2. asked.dot1x = ServersAsked(request.dot1x)
    BY <1>4, AskedServers
  <2> QED  BY <2>1, <2>2 DEF ServersAsked, ServersOf, AllWanted
<1>7. ASSUME NEW option \in {"auth", "acct", "fallback"}
      PROVE  /\ IsList(line[option])
             /\ \A text \in ToSet(line[option]) : IsServerText(text) /\ Documented(text)
  <2>1. IsList(line[option])
    BY LineForms
  <2>2. \A text \in ToSet(line[option]) : IsServerText(text)
    BY DEF IsLine, IsServerText
  <2>3. \A text \in ToSet(line[option]) : Documented(text)
    BY DEF AllDocumented, ToSet
  <2> QED  BY <2>1, <2>2, <2>3
<1>8. /\ auth = ExtractRadiusServers(line.auth) /\ acct = ExtractRadiusServers(line.acct)
      /\ fallback = ExtractRadiusServers(line.fallback)
  OBVIOUS
<1> HIDE DEF auth, acct, fallback, message, radius, bad, made
<1>9. /\ DOMAIN auth = DOMAIN line.auth
      /\ \A i \in DOMAIN line.auth :
            Wanted(ApiServer([auth[i] EXCEPT !.Type = "Authentication"]))
              = LineServer(line.auth[i], "auth_servers")
  <2> DEFINE texts == line.auth
             type == "Authentication"
             list == "auth_servers"
  <2>1. IsList(texts) /\ (\A text \in ToSet(texts) : IsServerText(text) /\ Documented(text))
        /\ auth = ExtractRadiusServers(texts) /\ Len(auth) = Len(texts)
        /\ type \in {"Authentication", "Accounting"}
        /\ list = IF type = "Accounting" THEN "acct_servers" ELSE "auth_servers"
    BY <1>3, <1>7, <1>8
  <2> HIDE DEF texts, type, list
  <2>2. /\ IsList(auth) /\ DOMAIN auth = DOMAIN texts
        /\ \A i \in DOMAIN texts :
              /\ Wanted(ApiServer(auth[i])) = LineServer(texts[i], "auth_servers")
              /\ Wanted(ApiServer([auth[i] EXCEPT !.Type = type]))
                   = LineServer(texts[i], list)
    BY <2>1, OptionServers, SMTT(30)
  <2> QED  BY <2>2 DEF texts, type, list
<1>10. \A i \in DOMAIN line.acct : Wanted(ApiServer([acct[i] EXCEPT !.Type = "Accounting"]))
                                     = LineServer(line.acct[i], "acct_servers")
  <2> DEFINE texts == line.acct
             type == "Accounting"
             list == "acct_servers"
  <2>1. IsList(texts) /\ (\A text \in ToSet(texts) : IsServerText(text) /\ Documented(text))
        /\ acct = ExtractRadiusServers(texts) /\ Len(acct) = Len(texts)
        /\ type \in {"Authentication", "Accounting"}
        /\ list = IF type = "Accounting" THEN "acct_servers" ELSE "auth_servers"
    BY <1>3, <1>7, <1>8
  <2> HIDE DEF texts, type, list
  <2>2. /\ IsList(acct) /\ DOMAIN acct = DOMAIN texts
        /\ \A i \in DOMAIN texts :
              /\ Wanted(ApiServer(acct[i])) = LineServer(texts[i], "auth_servers")
              /\ Wanted(ApiServer([acct[i] EXCEPT !.Type = type]))
                   = LineServer(texts[i], list)
    BY <2>1, OptionServers, SMTT(30)
  <2> QED  BY <2>2 DEF texts, type, list
<1>11. /\ DOMAIN fallback = DOMAIN line.fallback
       /\ \A i \in DOMAIN line.fallback : Wanted(ApiServer(fallback[i]))
                                           = LineServer(line.fallback[i], "auth_servers")
  <2> DEFINE texts == line.fallback
             type == "Authentication"
             list == "auth_servers"
  <2>1. IsList(texts) /\ (\A text \in ToSet(texts) : IsServerText(text) /\ Documented(text))
        /\ fallback = ExtractRadiusServers(texts) /\ Len(fallback) = Len(texts)
        /\ type \in {"Authentication", "Accounting"}
        /\ list = IF type = "Accounting" THEN "acct_servers" ELSE "auth_servers"
    BY <1>3, <1>7, <1>8
  <2> HIDE DEF texts, type, list
  <2>2. /\ IsList(fallback) /\ DOMAIN fallback = DOMAIN texts
        /\ \A i \in DOMAIN texts :
              /\ Wanted(ApiServer(fallback[i])) = LineServer(texts[i], "auth_servers")
              /\ Wanted(ApiServer([fallback[i] EXCEPT !.Type = type]))
                   = LineServer(texts[i], list)
    BY <2>1, OptionServers, SMTT(30)
  <2> QED  BY <2>2 DEF texts
<1> DEFINE one == <<ApiServer(first)>>
<1>12. IsList(one) /\ AllWanted(one) = LineServers(line.auth, "auth_servers")
  <2> DEFINE l == line.auth
             e == line.auth[1]
             w == Wanted(ApiServer(first))
  <2>1. l = <<e>>
    BY <1>3, LineForms DEF IsOptional
  <2>2. w = LineServer(e, "auth_servers")
    <3>1. 1 \in DOMAIN line.auth
      <4> HIDE DEF e
      <4>1. 1 \in DOMAIN l
        BY <2>1
      <4> QED  BY <4>1
    <3> QED  BY <1>9, <3>1
  <2>3. AllWanted(one) = <<w>>
    <3> DEFINE s == ApiServer(first)
    <3>1. AllWanted(<<s>>) = <<Wanted(s)>>
      <4> HIDE DEF s
      <4> QED  BY DEF AllWanted
    <3> QED  BY <3>1
  <2>4. IsList(one)
    BY Singles
  <2>5. LineServers(<<e>>, "auth_servers") = <<LineServer(e, "auth_servers")>>
    <3> HIDE DEF e
    <3> QED  BY DEF LineServers
  <2> HIDE DEF e, w, one, first
  <2>6. LineServers(l, "auth_servers") = <<LineServer(e, "auth_servers")>>
    BY <2>1, <2>5
  <2> QED  BY <2>2, <2>3, <2>4, <2>6 DEF l
<1>13. IsList(second) /\ AllWanted(second) = LineServers(line.acct, "acct_servers")
  <2>1. IsList(second) /\ DOMAIN second = DOMAIN line.acct
    BY LineForms, Mapped
  <2>2. \A i \in DOMAIN line.acct : Wanted(second[i]) = LineServer(line.acct[i], "acct_servers")
    BY <1>10
  <2> HIDE DEF second
  <2> QED  BY <2>1, <2>2 DEF AllWanted, LineServers
<1>14. IsList(third) /\ AllWanted(third) = LineServers(line.fallback, "auth_servers")
  <2>1. IsList(third) /\ DOMAIN third = DOMAIN line.fallback
    <3>1. IsList(fallback)
      BY <1>8, LineForms, ServersRead
    <3> QED  BY <1>11, <3>1, Mapped
  <2>2. \A i \in DOMAIN line.fallback :
            Wanted(third[i]) = LineServer(line.fallback[i], "auth_servers")
    BY <1>11
  <2> HIDE DEF third
  <2> QED  BY <2>1, <2>2 DEF AllWanted, LineServers
<1>15. AllServers(message) = (one \o second) \o third
  BY <1>5 DEF AllServers
<1> HIDE DEF one, second, third
<1> DEFINE two == one \o second
<1>16. IsList(two) /\ AllWanted(one) \o AllWanted(second) = AllWanted(two)
  BY <1>12, <1>13, WantedMore
<1> HIDE DEF two
<1> DEFINE all == two \o third
<1>17. AllWanted(two) \o AllWanted(third) = AllWanted(all)
  <2>1. IsList(two) /\ IsList(third) /\ all = two \o third
    BY <1>14, <1>16
  <2> HIDE DEF all
  <2> QED  BY ONLY <2>1, WantedMore
<1>18. AllServers(message) = all
  BY <1>15 DEF two
<1> HIDE DEF all
<1>19. asked["dot1x"] = (AllWanted(one) \o AllWanted(second)) \o AllWanted(third)
  BY <1>6, <1>16, <1>17, <1>18
<1> QED  BY <1>12, <1>13, <1>14, <1>19

\* What a request asks for, a command line may ask for in its words.
LineAsked(line, request) ==
    LET asked == HeardOfLine(line)
    IN  IF request.api \in Enumerations
        THEN asked.state = <<>> /\ \A part \in Parts : asked[part] = <<>>
        ELSE /\ IsRequest(request) /\ Asks(asked, request)
             /\ asked.state = <<"ENABLED">> => request.api = "WifiAccessPointEnable"

\* It asks for nothing else.
LEMMA AskedLess ==
    ASSUME NEW line, NEW request, IsRequest(request),
           request.api \notin Enumerations \cup {"WifiAccessPointEnable"},
           NEW asked, asked = HeardOfLine(line), NEW more, more = HeardOfRequest(request),
           asked.state = more.state, \A part \in Parts : asked[part] \in {<<>>, more[part]}
    PROVE  LineAsked(line, request)
<1>1. \A x, phys : Fulfilled(more, x, phys) => Fulfilled(asked, x, phys)
  BY FulfilledLess
<1>2. more.state # <<"ENABLED">>
  <2>1. more.state = <<"DISABLED">> \/ more.state = <<>>
    BY AskedFields
  <2>2. <<"DISABLED">> # <<"ENABLED">> /\ <<>> # <<"ENABLED">>
    OBVIOUS
  <2> QED  BY <2>1, <2>2
<1> QED  BY <1>1, <1>2 DEF LineAsked, Asks

\* A request made with a connection is the one of the command.
LEMMA RequestOf ==
    ASSUME NEW run, run.request # <<>>, NEW connection, NEW made,
           run \in {ParseError, HandleCommand(connection, made)}
    PROVE  run = HandleCommand(connection, made) /\ run.request[1] = made
<1>1. ParseError.request = <<>>
  BY DEF ParseError
<1> QED  BY <1>1, Handled

\* The enabling of an access point asks for what its command line does.
LEMMA EnableAsked ==
    ASSUME NEW connection, NEW line, IsLine(line), line.command \in EnableNames,
           NEW run, run = AddSubcommandWifiAccessPointEnable(connection, line),
           run.request # <<>>
    PROVE  LineAsked(line, run.request[1])
<1>1. PICK configuration : /\ Configured(line, configuration)
                           /\ run.request[1] = CliWifiAccessPointEnable(line.id[1], configuration)
  BY EnableConfigures
<1>2. /\ ToSet(line.phy) \subseteq DOMAIN Ieee80211PhyTypeNames
      /\ ToSet(line.bands) \subseteq DOMAIN Ieee80211FrequencyBandNames
  BY EnableConfigures
<1> DEFINE request == CliWifiAccessPointEnable(line.id[1], configuration)
<1>3. IsRequest(request)
  BY <1>1, <1>2, EnableRequest
<1>4. EnableAsks(HeardOfLine(line), request)
  BY <1>1, <1>2, LineEnables
<1>5. request.api = "WifiAccessPointEnable"
  BY DEF CliWifiAccessPointEnable
<1>6. request.api \notin Enumerations
  BY <1>5 DEF Enumerations
<1> HIDE DEF request
<1>7. LineAsked(line, request)
  BY <1>3, <1>4, <1>5, <1>6 DEF LineAsked, Asks
<1> QED  BY <1>1, <1>7 DEF request

\* So does its disabling,
LEMMA DisableAsked ==
    ASSUME NEW connection, NEW line, IsLine(line), line.command \in DisableNames,
           NEW run, run = AddSubcommandWifiAccessPointDisable(connection, line),
           run.request # <<>>
    PROVE  LineAsked(line, run.request[1])
<1> DEFINE request == CliWifiAccessPointDisable(line.id[1])
           asked == HeardOfLine(line)
           more == HeardOfRequest(request)
<1>1. run \in {ParseError, HandleCommand(connection, request)}
  BY DEF AddSubcommandWifiAccessPointDisable
<1>2. request.api = "WifiAccessPointDisable" /\ DOMAIN request = {"api", "id"}
  BY DEF CliWifiAccessPointDisable
<1> HIDE DEF request
<1>3. run.request[1] = request
  BY <1>1, RequestOf
<1>4. IsRequest(request)
  BY <1>2 DEF IsRequest, RequestFields, IsField
<1>5. asked.state = <<"DISABLED">> /\ \A part \in Parts : asked[part] = <<>>
  BY LineAsks
<1>6. more.state = <<"DISABLED">>
  BY <1>2, AskedFields
<1>7. request.api \notin Enumerations \cup {"WifiAccessPointEnable"}
  BY <1>2 DEF Enumerations
<1>8. asked.state = more.state /\ \A part \in Parts : asked[part] \in {<<>>, more[part]}
  BY <1>5, <1>6
<1> HIDE DEF asked, more
<1>9. LineAsked(line, request)
  BY <1>4, <1>7, <1>8, AskedLess DEF asked, more
<1> QED  BY <1>3, <1>9

\* the setting of its SSID,
LEMMA SetSsidAsked ==
    ASSUME NEW connection, NEW line, IsLine(line), line.command \in SsidNames,
           NEW run, run = AddSubcommandWifiAccessPointSetSsid(connection, line),
           run.request # <<>>
    PROVE  LineAsked(line, run.request[1])
<1> DEFINE name == line.ssid[1]
           request == CliWifiAccessPointSetSsid(line.id[1], name)
           asked == HeardOfLine(line)
           more == HeardOfRequest(request)
           bad == line.id = <<>> \/ line.ssid = <<>>
<1>1. run = IF bad THEN ParseError ELSE HandleCommand(connection, request)
  BY DEF AddSubcommandWifiAccessPointSetSsid
<1>2. request.api = "WifiAccessPointSetSsid" /\ DOMAIN request = {"api", "id", "ssid"}
      /\ request.ssid = <<CliSsid(name)>>
  BY DEF CliWifiAccessPointSetSsid
<1>3. line.ssid = <<>> \/ line.ssid = <<name>>
  BY LineForms DEF IsOptional
<1> HIDE DEF request, name
<1>4. ~bad /\ run.request[1] = request
  <2> HIDE DEF bad
  <2>1. ParseError.request = <<>>
    BY DEF ParseError
  <2>2. ~bad
    BY <1>1, <2>1
  <2>3. run \in {ParseError, HandleCommand(connection, request)}
    BY <1>1
  <2> QED  BY <2>2, <2>3, RequestOf
<1>5. IsRequest(request)
  <2>1. IsOptional(<<CliSsid(name)>>)
    BY DEF IsOptional
  <2> QED  BY <1>2, <2>1 DEF IsRequest, RequestFields, IsField
<1>6. asked.state = <<>> /\ asked["ssid"] = line.ssid
      /\ \A part \in Parts \ {"ssid"} : asked[part] = <<>>
  BY LineAsks
<1>7. more.state = <<>>
  BY <1>2, AskedFields
<1>8. more.ssid = <<name>>
  <2> DEFINE ssid == Field(request, "ssid")
             t == [i \in DOMAIN ssid |-> request.ssid[i].text]
             e == CliSsid(name)
  <2>1. more.ssid = t
    BY AskedFields
  <2>2. ssid = <<e>> /\ request.ssid = <<e>> /\ e.text = name
    BY <1>2 DEF Field, FieldOr, CliSsid
  <2> HIDE DEF e, ssid
  <2>3. t = <<e.text>>
    BY <2>2
  <2> HIDE DEF t, more
  <2> QED  BY <2>1, <2>2, <2>3
<1>9. request.api \notin Enumerations \cup {"WifiAccessPointEnable"}
  BY <1>2 DEF Enumerations
<1>10. asked.state = more.state /\ \A part \in Parts : asked[part] \in {<<>>, more[part]}
  <2>1. asked["ssid"] = more["ssid"]
    BY <1>3, <1>4, <1>6, <1>8
  <2> QED  BY <1>6, <1>7, <2>1
<1> HIDE DEF asked, more
<1>11. LineAsked(line, request)
  BY <1>5, <1>9, <1>10, AskedLess DEF asked, more
<1> QED  BY <1>4, <1>11

\* and that of its RADIUS servers.
LEMMA RadiusAsked ==
    ASSUME NEW connection, NEW line, IsLine(line), line.command \in RadiusNames,
           NEW run, run = AddSubcommandWifiAccessPointSet8021xRadius(connection, line),
           run.request # <<>>
    PROVE  LineAsked(line, run.request[1])
<1> DEFINE request == run.request[1]
           asked == HeardOfLine(line)
           more == HeardOfRequest(request)
<1>1. IsRequest(request)
  <2>1. Faithful(line, request)
    BY RadiusFaithful DEF RadiusNames
  <2> QED  BY <2>1 DEF Faithful
<1>2. request.api = "WifiAccessPointSetAuthenticationDot1x"
  BY RadiusMakes
<1> HIDE DEF request
<1>3. asked.state = <<>> /\ \A part \in Parts \ {"dot1x"} : asked[part] = <<>>
  BY LineAsks
<1>4. more.state = <<>>
  BY <1>2, AskedFields
<1>5. asked["dot1x"] \in {<<>>, more["dot1x"]}
  <2>1. CASE ~AllDocumented(line)
    BY <2>1, LineAsks
  <2>2. CASE AllDocumented(line)
    <3> DEFINE servers == LineServers(line.auth, "auth_servers")
                          \o LineServers(line.acct, "acct_servers")
                          \o LineServers(line.fallback, "auth_servers")
    <3>1. asked["dot1x"] = servers
      BY <2>2, LineAsks
    <3>2. more["dot1x"] = servers
      BY <1>1, <2>2, RadiusAsks DEF request
    <3> QED  BY <3>1, <3>2
  <2> QED  BY <2>1, <2>2
<1>6. request.api \notin Enumerations \cup {"WifiAccessPointEnable"}
  BY <1>2 DEF Enumerations
<1>7. asked.state = more.state /\ \A part \in Parts : asked[part] \in {<<>>, more[part]}
  BY <1>3, <1>4, <1>5
<1> HIDE DEF asked, more
<1>8. LineAsked(line, request)
  BY <1>1, <1>6, <1>7, AskedLess DEF asked, more
<1> QED  BY <1>8 DEF request

\* The request a command line makes asks for what the line does.
LEMMA ParsedAsks ==
    ASSUME NEW channel \in BOOLEAN, NEW line, IsLine(line), Parse(channel, line).request # <<>>
    PROVE  LineAsked(line, Parse(channel, line).request[1])
<1> DEFINE run == Parse(channel, line)
           request == run.request[1]
           connection == OnServerAddressChanged(Optional(line.server, ServerDefault), channel)
           wifi == AddSubcommandWifi(connection, line)
           network == AddSubcommandNetwork(connection, line)
           enumerating == {"enumerate-access-points", "enumaps", "enum", "aps"}
           named == EnableNames \cup DisableNames \cup SsidNames \cup RadiusNames
<1>1. ParseError.request = <<>>
  BY DEF ParseError
<1>2. run \in {wifi, network, ParseError} /\ run.request # <<>>
  BY DEF Parse, CreateParser
<1>3. ASSUME line.command \notin named
      PROVE  HeardOfLine(line).state = <<>> /\ \A part \in Parts : HeardOfLine(line)[part] = <<>>
  <2>1. HeardOfLine(line) = NothingAsked
    BY <1>3 DEF HeardOfLine, EnableNames, DisableNames, SsidNames, RadiusNames
  <2> QED  BY <2>1 DEF NothingAsked, Parts
<1>4. ASSUME NEW api \in Enumerations, request = [api |-> api], line.command \notin named
      PROVE  LineAsked(line, request)
  <2>1. request.api \in Enumerations
    BY <1>4
  <2> HIDE DEF request, named
  <2> QED  BY <1>3, <1>4, <2>1 DEF LineAsked
<1>5. CASE run = network
  <2>1. network \in {ParseError, HandleCommand(connection, [api |-> "NetworkInterfacesEnumerate"])}
    BY DEF AddSubcommandNetwork
  <2>2. network # ParseError => line.command \in {"enumerate-interfaces", "enumifs", "enum",
                                                  "interfaces", "ifaces", "ifs"}
    BY DEF AddSubcommandNetwork
  <2> HIDE DEF run, network
  <2>3. network # ParseError
    BY <1>1, <1>2, <1>5
  <2>4. request = [api |-> "NetworkInterfacesEnumerate"]
    BY <1>2, <1>5, <2>1, RequestOf
  <2>5. line.command \notin named
    BY <2>2, <2>3 DEF EnableNames, DisableNames, SsidNames, RadiusNames
  <2>6. LineAsked(line, request)
    BY <1>4, <2>4, <2>5 DEF Enumerations
  <2> QED  BY <2>6 DEF run
<1>6. CASE run = wifi
  <2>1. CASE line.command \in enumerating
    <3>1. wifi = HandleCommand(connection, [api |-> "WifiAccessPointsEnumerate"])
      BY <2>1 DEF AddSubcommandWifi
    <3>2. line.command \notin named
      BY <2>1 DEF EnableNames, DisableNames, SsidNames, RadiusNames
    <3> HIDE DEF run, wifi
    <3>3. request = [api |-> "WifiAccessPointsEnumerate"]
      BY <1>2, <1>6, <3>1, Handled
    <3>4. LineAsked(line, request)
      BY <1>4, <3>2, <3>3 DEF Enumerations
    <3> QED  BY <3>4 DEF run
  <2>2. CASE line.command \in EnableNames
    <3>1. wifi = AddSubcommandWifiAccessPointEnable(connection, line)
      BY <2>2 DEF AddSubcommandWifi, EnableNames
    <3> HIDE DEF run, wifi, connection
    <3>2. LineAsked(line, request)
      BY <1>2, <1>6, <2>2, <3>1, EnableAsked
    <3> QED  BY <3>2 DEF run
  <2>3. CASE line.command \in DisableNames
    <3>1. wifi = AddSubcommandWifiAccessPointDisable(connection, line)
      BY <2>3 DEF AddSubcommandWifi, DisableNames
    <3> HIDE DEF run, wifi, connection
    <3>2. LineAsked(line, request)
      BY <1>2, <1>6, <2>3, <3>1, DisableAsked
    <3> QED  BY <3>2 DEF run
  <2>4. CASE line.command \in SsidNames
    <3>1. wifi = AddSubcommandWifiAccessPointSetSsid(connection, line)
      BY <2>4 DEF AddSubcommandWifi, SsidNames
    <3> HIDE DEF run, wifi, connection
    <3>2. LineAsked(line, request)
      BY <1>2, <1>6, <2>4, <3>1, SetSsidAsked
    <3> QED  BY <3>2 DEF run
  <2>5. CASE line.command \in RadiusNames
    <3>1. wifi = AddSubcommandWifiAccessPointSet8021xRadius(connection, line)
      BY <2>5 DEF AddSubcommandWifi, RadiusNames
    <3> HIDE DEF run, wifi, connection
    <3>2. LineAsked(line, request)
      BY <1>2, <1>6, <2>5, <3>1, RadiusAsked
    <3> QED  BY <3>2 DEF run
  <2>6. CASE line.command \notin enumerating \cup named
    <3>1. wifi = ParseError
      BY <2>6 DEF AddSubcommandWifi, EnableNames, DisableNames, SsidNames, RadiusNames
    <3> QED  BY <1>1, <1>2, <1>6, <3>1
  <2> QED  BY <2>1, <2>2, <2>3, <2>4, <2>5, <2>6
<1>7. CASE run = ParseError
  BY <1>1, <1>2, <1>7
<1> QED  BY <1>2, <1>5, <1>6, <1>7

-----------------------------------------------------------------------------
(* What is asked is given *)

\* The inductive invariant: the form of hostapd's record and of its configuration, and
\* that what the last call asked is in force.
GivenInv ==
    /\ calls \in Nat /\ Typed(hostapd) /\ hostapd.state \in States
    /\ HasServers(hostapd.conf) /\ PhyNeeded(hostapd.conf, phyAsked)
    /\ last.client # "none" /\ last.code = Succeeded => Fulfilled(Heard(last), hostapd, phyAsked)

-----------------------------------------------------------------------------
(* What a client asks is heard, but for what is lost of it *)

\* The password of a command line as it is named, and its servers.
LinePasswordNamed(sae) ==
    Password(sae.password, IF sae.passwordId = <<"">> THEN <<>> ELSE sae.passwordId, sae.peer)
FallbackNamed(line) ==
    [i \in DOMAIN line.fallback |->
        LineServer(line.fallback[i], IF ForAccounting(line.fallback[i]) THEN "acct_servers"
                                     ELSE "auth_servers")]

\* The command lines.
LEMMA LineKept ==
    ASSUME NEW line, IsLine(line), NEW part \in Parts \ LostOfLine(line)
    PROVE  AskedOfLine(line)[part] = HeardOfLine(line)[part]
<1> DEFINE asked == AskedOfLine(line)
           heard == HeardOfLine(line)
<1>1. CASE line.command \in EnableNames
  <2> DEFINE Coded(encoding, text) ==
                 IF text = <<>> \/ text[1].size = 0 THEN <<>>
                 ELSE <<[encoding |-> encoding, size |-> text[1].size, is |-> text[1].is]>>
             key == IF line.psk = <<>> THEN Coded("passphrase", line.passphrase)
                    ELSE Coded("hex", line.psk)
             Data(passwords) == IF key = <<>> /\ line.sae = <<>> THEN <<>>
                                ELSE KeyData(key, passwords)
  <2>1. ASSUME "data" \notin LostOfLine(line)
        PROVE  Each(LinePasswordNamed, line.sae) = Each(LinePassword, line.sae)
    <3>1. \A i \in DOMAIN line.sae :
              line.sae[i].peer = <<>> \/ line.sae[i].peer[1].is # "no address"
      BY <2>1 DEF LostOfLine
    <3>2. \A i \in DOMAIN line.sae : LinePasswordNamed(line.sae[i]) = LinePassword(line.sae[i])
      BY <3>1 DEF LinePasswordNamed, LinePassword
    <3> QED  BY <3>2 DEF Each
  <2>2. asked.data = Data(Each(LinePasswordNamed, line.sae))
    BY <1>1 DEF AskedOfLine, NothingAsked, EnableNames, LinePasswordNamed, Each
  <2>3. heard.data = Data(Each(LinePassword, line.sae))
    BY <1>1 DEF HeardOfLine, NothingAsked, EnableNames, LinePassword, Each
  <2>4. asked.ssid = heard.ssid
    BY <1>1 DEF AskedOfLine, HeardOfLine, NothingAsked, EnableNames
  <2>5. /\ asked.phyType = heard.phyType /\ asked.bands = heard.bands
        /\ asked.dot1x = heard.dot1x /\ asked.ciphers = heard.ciphers
        /\ asked.bridge = heard.bridge
    BY <1>1, ZenonT(40) DEF AskedOfLine, HeardOfLine, NothingAsked, EnableNames
  <2> HIDE DEF asked, heard, Data
  <2>6. part \in {"phyType", "dot1x", "data", "ciphers", "ssid", "bands", "bridge"}
    BY DEF Parts, NothingAsked, LostOfLine
  <2>7. asked[part] = heard[part]
    BY <2>1, <2>2, <2>3, <2>4, <2>5, <2>6
  <2> QED  BY <2>7 DEF asked, heard
<1>2. CASE line.command \in RadiusNames
  <2> DEFINE Dot1x(fallback) ==
                 IF ~AllDocumented(line) THEN <<>>
                 ELSE LineServers(line.auth, "auth_servers")
                      \o LineServers(line.acct, "acct_servers") \o fallback
  <2>1. ASSUME "dot1x" \notin LostOfLine(line)
        PROVE  FallbackNamed(line) = LineServers(line.fallback, "auth_servers")
    <3>1. \A i \in DOMAIN line.fallback : ~ForAccounting(line.fallback[i])
      BY <2>1 DEF LostOfLine
    <3> QED  BY <3>1 DEF FallbackNamed, LineServers
  <2>2. asked = [NothingAsked EXCEPT !.dot1x = Dot1x(FallbackNamed(line))]
    BY <1>2 DEF AskedOfLine, RadiusNames, AllDocumented, LineServers, LineServer, FallbackNamed
  <2>3. heard = [NothingAsked EXCEPT !.dot1x = Dot1x(LineServers(line.fallback, "auth_servers"))]
    BY <1>2 DEF HeardOfLine, RadiusNames, AllDocumented, LineServers, LineServer
  <2> HIDE DEF asked, heard, Dot1x
  <2>4. asked[part] = heard[part]
    BY <2>1, <2>2, <2>3 DEF NothingAsked, Parts
  <2> QED  BY <2>4 DEF asked, heard
<1>3. CASE line.command \notin EnableNames \cup RadiusNames
  <2>1. asked = heard
    BY <1>3 DEF AskedOfLine, HeardOfLine, EnableNames, RadiusNames
  <2> QED  BY <2>1 DEF asked, heard
<1> QED  BY <1>1, <1>2, <1>3

\* A server of a request as it is named, the servers, and a password.
ServerNamed(s) ==
    Server(IF s.endpoint = "Dot1xRadiusServerEndpointAccounting" THEN "acct_servers"
           ELSE "auth_servers", s.address, s.sharedSecret,
           IF s.port = 0 THEN <<>> ELSE <<s.port>>)
ServersNamed(radius) ==
    [i \in DOMAIN AllServers(radius) |-> ServerNamed(AllServers(radius)[i])]
PasswordNamed(p) ==
    Password(p.credential, IF p.passwordId = "" THEN <<>> ELSE <<p.passwordId>>, p.peerMacAddress)

\* What is made of an optional value, or nothing.
LEMMA OptionalOf ==
    ASSUME NEW v, IsOptional(v), NEW t, t = [i \in DOMAIN v |-> t[i]]
    PROVE  Optional(t, <<>>) = IF v = <<>> THEN <<>> ELSE t[1]
<1>1. CASE v = <<>>
  <2>1. t = <<>>
    BY <1>1
  <2> QED  BY <1>1, <2>1 DEF Optional
<1>2. CASE v # <<>>
  <2>1. DOMAIN v = {1}
    BY <1>2, OptionalAsked
  <2>2. DOMAIN t = {1}
    BY <2>1
  <2>3. t # <<>>
    BY <2>2
  <2> QED  BY <1>2, <2>3 DEF Optional
<1> QED  BY <1>1, <1>2

\* The servers of the requests.
LEMMA RequestServersKept ==
    ASSUME NEW request, IsRequest(request)
    PROVE  \/ AskedOfRequest(request).dot1x = HeardOfRequest(request).dot1x
           \/ \E radius : /\ AskedOfRequest(request).dot1x = ServersNamed(radius)
                          /\ HeardOfRequest(request).dot1x = ServersOf(radius)
<1> DEFINE asked == AskedOfRequest(request).dot1x
           heard == HeardOfRequest(request).dot1x
           Dot1x(dot1x) ==
               Optional([i \in DOMAIN dot1x.radius |-> ServersNamed(dot1x.radius[i])], <<>>)
<1>1. asked = CASE request.api = "WifiAccessPointEnable" ->
                        Optional([i \in DOMAIN request.dot1x |-> Dot1x(request.dot1x[i])], <<>>)
                [] request.api = "WifiAccessPointSetAuthenticationDot1x" -> Dot1x(request.dot1x)
                [] OTHER -> <<>>
  BY DEF AskedOfRequest, NothingAsked, ServersNamed, AllServers, ServerNamed, Each
<1>2. ASSUME NEW dot1x, IsDot1x(dot1x)
      PROVE  Dot1x(dot1x) = IF dot1x.radius = <<>> THEN <<>> ELSE ServersNamed(dot1x.radius[1])
  <2> DEFINE t == [i \in DOMAIN dot1x.radius |-> ServersNamed(dot1x.radius[i])]
  <2>1. IsOptional(dot1x.radius)
    BY <1>2 DEF IsDot1x
  <2>2. dot1x.radius # <<>> => t[1] = ServersNamed(dot1x.radius[1])
    BY <2>1, OptionalAsked
  <2>3. t = [i \in DOMAIN dot1x.radius |-> t[i]]
    OBVIOUS
  <2> HIDE DEF t
  <2>4. Optional(t, <<>>) = IF dot1x.radius = <<>> THEN <<>> ELSE t[1]
    BY <2>1, <2>3, OptionalOf
  <2> QED  BY <2>2, <2>4 DEF t
<1>3. ASSUME NEW dot1x, IsDot1x(dot1x), asked = Dot1x(dot1x), heard = ServersAsked(dot1x)
      PROVE  asked = heard \/ \E radius : asked = ServersNamed(radius) /\ heard = ServersOf(radius)
  <2> HIDE DEF asked, heard, Dot1x
  <2> QED  BY <1>2, <1>3 DEF ServersAsked
<1> HIDE DEF Dot1x
<1>4. CASE request.api = "WifiAccessPointSetAuthenticationDot1x"
  <2>1. "dot1x" \in RequestFields[request.api]
    BY <1>4 DEF RequestFields
  <2>2. IsDot1x(request.dot1x)
    BY <1>4, <2>1 DEF IsRequest, IsField
  <2>3. asked = Dot1x(request.dot1x)
    BY <1>1, <1>4
  <2>4. heard = ServersAsked(request.dot1x)
    BY <1>4, AskedServers
  <2> HIDE DEF asked, heard
  <2>5. asked = heard \/ \E radius : asked = ServersNamed(radius) /\ heard = ServersOf(radius)
    BY <1>3, <2>2, <2>3, <2>4
  <2> QED  BY <2>5 DEF asked, heard
<1>5. CASE request.api = "WifiAccessPointEnable"
  <2> DEFINE v == request.dot1x
             t == [i \in DOMAIN v |-> Dot1x(v[i])]
  <2>1. "dot1x" \in RequestFields[request.api]
    BY <1>5 DEF RequestFields
  <2>2. IsField(request, "dot1x")
    BY <2>1 DEF IsRequest
  <2>3. IsOptional(v) /\ \A d \in ToSet(v) : IsDot1x(d)
    BY <1>5, <2>2 DEF IsField
  <2>4. asked = Optional(t, <<>>)
    BY <1>1, <1>5
  <2>5. heard = IF v = <<>> THEN <<>> ELSE ServersAsked(v[1])
    BY <1>5, AskedServers
  <2>6. v # <<>> => t[1] = Dot1x(v[1]) /\ IsDot1x(v[1])
    BY <2>3, OptionalAsked
  <2>7. t = [i \in DOMAIN v |-> t[i]]
    OBVIOUS
  <2> HIDE DEF t, v, asked, heard
  <2>8. asked = IF v = <<>> THEN <<>> ELSE t[1]
    BY <2>3, <2>4, <2>7, OptionalOf
  <2>9. v # <<>> => asked = Dot1x(v[1]) /\ heard = ServersAsked(v[1]) /\ IsDot1x(v[1])
    BY <2>5, <2>6, <2>8
  <2>10. asked = heard \/ \E radius : asked = ServersNamed(radius) /\ heard = ServersOf(radius)
    BY <1>3, <2>5, <2>8, <2>9
  <2> QED  BY <2>10 DEF asked, heard
<1>6. CASE request.api \notin {"WifiAccessPointSetAuthenticationDot1x", "WifiAccessPointEnable"}
  <2>1. asked = <<>>
    BY <1>1, <1>6
  <2>2. heard = <<>>
    BY <1>6, AskedServers
  <2> QED  BY <2>1, <2>2
<1> QED  BY <1>4, <1>5, <1>6

\* The requests.
LEMMA RequestKept ==
    ASSUME NEW request, IsRequest(request),
           NEW part \in Parts \ LostOfRequest(AskedOfRequest(request))
    PROVE  AskedOfRequest(request)[part] = HeardOfRequest(request)[part]
<1> DEFINE asked == AskedOfRequest(request)
           heard == HeardOfRequest(request)
<1>1. /\ asked.phyType = heard.phyType /\ asked.algorithms = heard.algorithms
      /\ asked.akmSuites = heard.akmSuites /\ asked.ciphers = heard.ciphers
      /\ asked.ssid = heard.ssid /\ asked.bands = heard.bands /\ asked.bridge = heard.bridge
  <2> DEFINE Words(a) ==
                 /\ a.phyType = IF Means(PhyNames, FieldOr(request, "phyType", ""))
                                THEN <<request.phyType>> ELSE <<>>
                 /\ a.algorithms = Field(request, "algorithms")
                 /\ a.akmSuites = Field(request, "akmSuites")
                 /\ a.ciphers = Field(request, "ciphers")
                 /\ a.ssid = [i \in DOMAIN Field(request, "ssid") |-> request.ssid[i].text]
                 /\ a.bands = Field(request, "bands")
                 /\ a.bridge = IF FieldOr(request, "bridge", "") = ""
                               THEN <<>> ELSE <<request.bridge>>
  <2>1. Words(asked)
    BY DEF AskedOfRequest, NothingAsked, FieldOr, Field
  <2>2. Words(heard)
    BY AskedFields
  <2> HIDE DEF asked, heard
  <2> QED  BY <2>1, <2>2
<1>2. ASSUME "dot1x" \notin LostOfRequest(asked) PROVE asked.dot1x = heard.dot1x
  <2>1. CASE asked.dot1x = heard.dot1x
    BY <2>1
  <2>2. CASE \E radius : asked.dot1x = ServersNamed(radius) /\ heard.dot1x = ServersOf(radius)
    <3>1. PICK radius : asked.dot1x = ServersNamed(radius) /\ heard.dot1x = ServersOf(radius)
      BY <2>2
    <3> HIDE DEF asked, heard
    <3> DEFINE all == AllServers(radius)
    <3>2. \A i \in DOMAIN asked.dot1x :
              asked.dot1x[i].port = <<>> \/ asked.dot1x[i].port[1] \in 0 .. 2^16 - 1
      BY <1>2 DEF LostOfRequest
    <3>3. DOMAIN asked.dot1x = DOMAIN all
          /\ \A i \in DOMAIN all : asked.dot1x[i] = ServerNamed(all[i])
      BY <3>1 DEF ServersNamed
    <3>4. heard.dot1x = [i \in DOMAIN all |-> Wanted(all[i])]
      BY <3>1 DEF ServersOf
    <3> HIDE DEF all
    <3>5. ASSUME NEW i \in DOMAIN all PROVE ServerNamed(all[i]) = Wanted(all[i])
      <4> DEFINE s == all[i]
      <4>1. ServerNamed(s).port = <<>> \/ ServerNamed(s).port[1] \in 0 .. 2^16 - 1
        BY <3>2, <3>3
      <4> HIDE DEF s
      <4>2. ServerNamed(s).port = IF s.port = 0 THEN <<>> ELSE <<s.port>>
        BY DEF ServerNamed, Server
      <4>3. s.port = 0 \/ s.port \in 0 .. 2^16 - 1
        BY <4>1, <4>2
      <4>4. s.port = 0 \/ s.port % 2^16 = s.port
        BY <4>3
      <4>5. ServerNamed(s) = Wanted(s)
        BY <4>4 DEF ServerNamed, Wanted
      <4> QED  BY <4>5 DEF s
    <3>6. asked.dot1x = [i \in DOMAIN all |-> ServerNamed(all[i])]
      BY <3>1 DEF ServersNamed, all
    <3> QED  BY <3>4, <3>5, <3>6
  <2> QED  BY <2>1, <2>2, RequestServersKept DEF asked, heard
<1>3. ASSUME "data" \notin LostOfRequest(asked) PROVE asked.data = heard.data
  <2> DEFINE data == Field(request, "data")
             list == Optional(data.sae, <<>>)
             key == Optional(data.psk, <<>>)
             none == data = <<>> \/ (data.psk = <<>> /\ data.sae = <<>>)
  <2>1. asked.data = IF none THEN <<>> ELSE KeyData(key, Each(PasswordNamed, list))
    BY DEF AskedOfRequest, NothingAsked, Field, FieldOr, PasswordNamed, Each
  <2>2. heard.data = IF none THEN <<>> ELSE KeyData(key, Each(PasswordOf, list))
    BY DEF HeardOfRequest, NothingAsked, Field, FieldOr, PasswordOf, MacOf, Each
  <2> HIDE DEF asked, heard, data, list, key, none
  <2>3. ASSUME ~none PROVE Each(PasswordNamed, list) = Each(PasswordOf, list)
    <3> DEFINE passwords == Each(PasswordNamed, list)
    <3>1. asked.data # <<>> /\ asked.data[1].passwords = passwords
      BY <2>1, <2>3 DEF KeyData
    <3>2. \A i \in DOMAIN passwords :
              LET peers == passwords[i].PeerMacAddress
              IN  peers = [k \in DOMAIN peers |-> [size |-> 6, is |-> peers[k].is]]
      <4> DEFINE Whole(peers) == peers = [k \in DOMAIN peers |-> [size |-> 6, is |-> peers[k].is]]
                 given == asked.data[1].passwords
      <4>1. asked.data # <<>> =>
                \A i \in DOMAIN given : Whole(given[i].PeerMacAddress)
        BY <1>3, Zenon DEF LostOfRequest
      <4> HIDE DEF Whole, passwords, given
      <4>2. \A i \in DOMAIN passwords : Whole(passwords[i].PeerMacAddress)
        BY <3>1, <4>1 DEF given
      <4> QED  BY <4>2 DEF Whole
    <3>3. DOMAIN passwords = DOMAIN list
          /\ \A i \in DOMAIN list : passwords[i].PeerMacAddress = list[i].peerMacAddress
      BY DEF Each, PasswordNamed, Password
    <3>4. ASSUME NEW i \in DOMAIN list PROVE PasswordNamed(list[i]) = PasswordOf(list[i])
      <4> DEFINE peers == list[i].peerMacAddress
      <4>1. peers = [k \in DOMAIN peers |-> [size |-> 6, is |-> peers[k].is]]
        BY <3>2, <3>3
      <4> HIDE DEF peers
      <4>2. \A k \in DOMAIN peers : peers[k] = [size |-> 6, is |-> peers[k].is]
        BY <4>1
      <4>3. \A k \in DOMAIN peers : MacOf(peers[k]) = peers[k]
        <5>1. \A k \in DOMAIN peers : peers[k].size = 6 /\ [peers[k] EXCEPT !.size = 6] = peers[k]
          BY <4>2
        <5> QED  BY <5>1 DEF MacOf
      <4>4. Each(MacOf, peers) = peers
        <5>1. Each(MacOf, peers) = [k \in DOMAIN peers |-> peers[k]]
          BY <4>3 DEF Each
        <5>2. peers = [k \in DOMAIN peers |-> peers[k]]
          BY <4>1, <4>2
        <5> QED  BY <5>1, <5>2
      <4> QED  BY <4>4 DEF PasswordNamed, PasswordOf, peers
    <3> QED  BY <3>4 DEF Each
  <2> QED  BY <2>1, <2>2, <2>3
<1> HIDE DEF asked, heard
<1>4. part \in {"phyType", "dot1x", "algorithms", "data", "akmSuites", "ciphers", "ssid",
                "bands", "bridge"}
  BY DEF Parts, NothingAsked
<1>5. part \notin LostOfRequest(asked)
  BY DEF asked
<1>6. asked[part] = heard[part]
  BY <1>1, <1>2, <1>3, <1>4, <1>5
<1> QED  BY <1>6 DEF asked, heard

\* Both.
LEMMA KeptIsHeard ==
    ASSUME NEW c, c.client = "cli" => IsLine(c.asked), c.client # "cli" => IsRequest(c.asked),
           NEW part \in Kept(c)
    PROVE  Asked(c)[part] = Heard(c)[part]
BY LineKept, RequestKept DEF Kept, Asked, Heard

\* What is given of a part depends on nothing else that is asked.
LEMMA GivenAlike ==
    ASSUME NEW part \in Parts, NEW a, NEW b, a[part] = b[part], NEW conf, NEW phys,
           Given(part, a, conf, phys)
    PROVE  Given(part, b, conf, phys)
<1>1. part \in {"phyType", "dot1x", "algorithms", "data", "akmSuites", "ciphers", "ssid",
                "bands", "bridge"}
  BY DEF Parts, NothingAsked
<1> QED  BY <1>1 DEF Given

\* What a call asks is in the form the parser and the API have.
Worded(c) ==
    /\ c.client = "cli" => IsLine(c.asked)
    /\ c.client # "cli" => IsRequest(c.asked)

WordsInv == calls \in Nat /\ (last.client # "none" /\ last.code = Succeeded => Worded(last))

\* A call that is served is the one that is remembered.
LEMMA ServedLast ==
    ASSUME NEW client, NEW c, NEW request, Serve(client, c, request), last'.client # "none"
    PROVE  last'.client = client /\ last'.asked = c
<1>1. CASE request.api = "NetworkInterfacesEnumerate"
  <2>1. NetworkInterfacesBegin(client, c)
    BY <1>1 DEF Serve
  <2>2. last'.client = "none"
    BY <2>1 DEF NetworkInterfacesBegin, NoCall
  <2> QED  BY <2>2
<1>2. CASE request.api = "WifiAccessPointsEnumerate"
  <2>1. PICK detailed : Enumerates(client, c, detailed)
    BY <1>2 DEF Serve
  <2>2. \E code, shown : last' = [client |-> client, asked |-> c, code |-> code,
                                  shown |-> shown, host |-> host]
    BY <2>1 DEF Enumerates, Ends
  <2> QED  BY <2>2
<1>3. CASE request.api \notin Enumerations
  <2>1. Change(client, c, request)
    BY <1>3 DEF Serve, Enumerations
  <2>2. \E code : last' = [client |-> client, asked |-> c, code |-> code, shown |-> {},
                           host |-> host]
    BY <2>1 DEF Change, Ends
  <2> QED  BY <2>2
<1> QED  BY <1>1, <1>2, <1>3 DEF Enumerations

\* The calls of the clients are in these forms.
LEMMA CallsWorded ==
    ASSUME calls \in Nat, CommandLine \/ ApiRequest, last'.client # "none"
    PROVE  Worded(last') /\ calls' \in Nat
<1>1. CASE CommandLine
  <2>1. PICK line \in CommandLines[calls + 1], channel \in BOOLEAN :
            /\ calls' = calls + 1
            /\ \/ Serve("cli", line, Parse(channel, line).request[1])
               \/ Ends("cli", line, "none", {})
    BY <1>1 DEF CommandLine, Serve
  <2>2. IsLine(line)
    <3>1. calls + 1 \in DOMAIN CommandLines
      BY <1>1, RequestAssumption, Lists DEF CommandLine
    <3> QED  BY <2>1, <3>1, RequestAssumption
  <2> DEFINE request == Parse(channel, line).request[1]
  <2> HIDE DEF request
  <2>3. CASE Serve("cli", line, request)
    <3>1. last'.client = "cli" /\ last'.asked = line
      BY <2>3, ServedLast
    <3> QED  BY <2>1, <2>2, <3>1 DEF Worded
  <2>4. CASE Ends("cli", line, "none", {})
    <3>1. last'.client = "cli" /\ last'.asked = line
      BY <2>4 DEF Ends
    <3> QED  BY <2>1, <2>2, <3>1 DEF Worded
  <2> QED  BY <2>1, <2>3, <2>4 DEF request
<1>2. CASE ApiRequest
  <2>1. PICK request \in ApiRequests[calls + 1] : Serve("api", request, request)
    BY <1>2 DEF ApiRequest
  <2>2. IsRequest(request)
    <3>1. calls + 1 \in DOMAIN ApiRequests
      BY <1>2, RequestAssumption, Lists DEF ApiRequest
    <3> QED  BY <2>1, <3>1, RequestAssumption
  <2>3. last'.client = "api" /\ last'.asked = request
    BY <2>1, ServedLast
  <2>4. calls' = calls + 1
    BY <2>1 DEF Serve
  <2> QED  BY <2>2, <2>3, <2>4 DEF Worded
<1> QED  BY <1>1, <1>2

\* No other step makes a call.
LEMMA OtherSteps ==
    ASSUME [Next]_vars, ~(CommandLine \/ ApiRequest)
    PROVE  /\ calls' = calls
           /\ \/ last' = last \/ last'.client = "none"
              \/ last'.code = "NetworkOperationStatusCodeSuccess"
<1>1. CASE NetworkInterfacesAnswered
  BY <1>1 DEF NetworkInterfacesAnswered, Ends, countVars
<1>2. CASE LooksUpIndex \/ CollectsAddresses \/ HostChanges \/ UNCHANGED vars
  BY <1>2 DEF LooksUpIndex, CollectsAddresses, HostChanges, vars, countVars
<1>3. CASE HostapdRestarts
  BY <1>3 DEF HostapdRestarts, NoCall
<1> QED  BY <1>1, <1>2, <1>3 DEF Next

\* So it is of the last call.
LEMMA WordsStep ==
    /\ Init => WordsInv
    /\ WordsInv /\ [Next]_vars => WordsInv'
<1>1. Init => WordsInv
  BY DEF Init, WordsInv, NoCall
<1>2. ASSUME WordsInv, [Next]_vars PROVE WordsInv'
  <2>1. CASE CommandLine \/ ApiRequest
    <3>1. calls' \in Nat
      <4>1. calls' = calls + 1
        <5>1. CASE CommandLine
          BY <5>1 DEF CommandLine, Serve
        <5>2. CASE ApiRequest
          BY <5>2 DEF ApiRequest, Serve
        <5> QED  BY <2>1, <5>1, <5>2
      <4> QED  BY <1>2, <4>1 DEF WordsInv
    <3>2. last'.client # "none" => Worded(last')
      BY <2>1, <1>2, CallsWorded DEF WordsInv
    <3> QED  BY <3>1, <3>2 DEF WordsInv
  <2>2. CASE ~(CommandLine \/ ApiRequest)
    <3>1. /\ calls' = calls
          /\ \/ last' = last \/ last'.client = "none"
             \/ last'.code = "NetworkOperationStatusCodeSuccess"
      BY <2>2, <1>2, OtherSteps
    <3>2. Succeeded # "NetworkOperationStatusCodeSuccess"
      BY DEF Succeeded
    <3> QED  BY <1>2, <3>1, <3>2 DEF WordsInv, Worded
  <2> QED  BY <2>1, <2>2
<1> QED  BY <1>1, <1>2

\* It is what the property is about.
LEMMA GivenImplies == GivenInv /\ WordsInv => AskedIsGiven
<1> SUFFICES ASSUME GivenInv, WordsInv, last.client # "none", last.code = Succeeded
             PROVE  /\ \A part \in Kept(last) : Given(part, Asked(last), hostapd.live, phyAsked)
                    /\ ProtectionGiven(Asked(last).bands, hostapd.conf)
                    /\ Asked(last).state \in {<<>>, <<hostapd.state>>}
  BY DEF AskedIsGiven
<1>1. Fulfilled(Heard(last), hostapd, phyAsked)
  BY DEF GivenInv
<1>2. ASSUME NEW part \in Kept(last) PROVE Given(part, Asked(last), hostapd.live, phyAsked)
  <2>1. part \in Parts
    BY DEF Kept
  <2>2. Given(part, Heard(last), hostapd.live, phyAsked)
    BY <1>1, <2>1 DEF Fulfilled
  <2>3. Asked(last)[part] = Heard(last)[part]
    BY KeptIsHeard DEF WordsInv, Worded
  <2> QED  BY <2>1, <2>2, <2>3, GivenAlike
<1>3. Asked(last).bands = Heard(last).bands /\ Asked(last).state = Heard(last).state
  BY PhyAndBandsHeard
<1> QED  BY <1>1, <1>2, <1>3 DEF Fulfilled

\* It holds at the start, and when hostapd is started again.
LEMMA Started ==
    ASSUME NEW h, h = [status |-> "Succeeded", conf |-> Unset, live |-> Unset,
                       state |-> "DISABLED"]
    PROVE  /\ Typed(h) /\ h.state \in States /\ HasServers(h.conf)
           /\ \A phys : PhyNeeded(h.conf, phys)
<1>1. Typed(h) /\ h.state \in States /\ h.conf = Unset
  BY DEF Typed, Unset, States
<1>2. \A name \in PropertyNames : Unset[name] = <<>>
  BY DEF Unset
<1>3. {"auth_servers", "acct_servers"} \cup Amendments \subseteq PropertyNames
  BY DEF PropertyNames, Amendments
<1>4. <<>> # <<1>>
  OBVIOUS
<1>5. HasServers(h.conf)
  BY <1>1, <1>2, <1>3, Singles DEF HasServers
<1>6. \A phys : PhyNeeded(h.conf, phys)
  BY <1>1, <1>2, <1>3, <1>4 DEF PhyNeeded
<1> QED  BY <1>1, <1>5, <1>6

\* It holds at the start.
LEMMA GivenInit == Init => GivenInv
<1> SUFFICES ASSUME Init PROVE GivenInv
  OBVIOUS
<1>1. /\ hostapd = [status |-> "Succeeded", conf |-> Unset, live |-> Unset, state |-> "DISABLED"]
      /\ calls = 0 /\ last = NoCall
  BY DEF Init
<1>2. last.client = "none"
  BY <1>1 DEF NoCall
<1> QED  BY <1>1, <1>2, Started DEF GivenInv

\* A change that is served.
LEMMA ChangeGives ==
    ASSUME GivenInv, NEW client, NEW c, NEW request, IsRequest(request),
           request.api \notin Enumerations, Change(client, c, request),
           NEW asked, asked = Heard([client |-> client, asked |-> c]), Asks(asked, request)
    PROVE  /\ Typed(hostapd') /\ hostapd'.state \in States
           /\ HasServers(hostapd'.conf) /\ PhyNeeded(hostapd'.conf, phyAsked')
           /\ last'.code = Succeeded => Fulfilled(Heard(last'), hostapd', phyAsked')
<1> DEFINE accessPoint == AccessPoint(request.id)
           h == [hostapd EXCEPT !.status = "Succeeded"]
           code == ToDot11AccessPointOperationStatusCode(hostapd'.status)
<1>1. PICK commands \in Changes(accessPoint, request) :
      \E answered \in 0 .. Len(commands) :
          /\ hostapd' = Run(hostapd, commands, answered) /\ Ends(client, c, code, {})
          /\ phyAsked' = phyAsked \cup PhyOf(request)
  BY DEF Change
<1>2. PICK answered \in 0 .. Len(commands) :
          /\ hostapd' = Run(hostapd, commands, answered) /\ Ends(client, c, code, {})
          /\ phyAsked' = phyAsked \cup PhyOf(request)
  BY <1>1
<1>3. IsList(commands) /\ answered \in Int
  <2> HIDE DEF accessPoint
  <2>1. IsList(commands)
    BY <1>1, ChangeIsList
  <2> QED  BY <1>2, <2>1
<1>4. Typed(h) /\ h.conf = hostapd.conf /\ h.state = hostapd.state
  BY DEF Typed, GivenInv
<1>5. hostapd' = Exec(h, commands, answered)
  BY <1>2, RunExecutes
<1> DEFINE x == hostapd'
           phys == phyAsked'
<1>6. phyAsked \subseteq phys /\ PhyOf(request) \subseteq phys
  BY <1>2
<1>7. last' = [client |-> client, asked |-> c, code |-> code, shown |-> {}, host |-> host]
  BY <1>2 DEF Ends
<1>8. Heard(last') = asked /\ last'.code = code
  BY <1>7 DEF Heard
<1>9. code = Succeeded => hostapd'.status = "Succeeded"
  BY Codes
<1> HIDE DEF h, accessPoint, code
<1>10. Typed(x)
  BY <1>3, <1>4, <1>5, ExecTyped
<1>11. Ran(h, commands, x)
  BY <1>3, <1>4, <1>5 DEF Ran
<1>12. HasServers(h.conf) /\ h.state \in States /\ PhyNeeded(h.conf, phyAsked)
  BY <1>4 DEF GivenInv
<1> HIDE DEF x, phys
<1>13. PhyNeeded(h.conf, phys)
  BY <1>6, <1>12, PhyMore
<1>14. /\ HasServers(x.conf) /\ PhyNeeded(x.conf, phys) /\ x.state \in States
       /\ x.status = "Succeeded" => Fulfilled(asked, x, phys)
  BY <1>1, <1>6, <1>11, <1>12, <1>13, ChangeKept
<1> QED  BY <1>8, <1>9, <1>10, <1>14 DEF x, phys

\* A call that is served.
LEMMA ServeGives ==
    ASSUME GivenInv, NEW client, NEW c, NEW request, Serve(client, c, request),
           NEW asked, asked = Heard([client |-> client, asked |-> c]),
           \/ /\ request.api \in Enumerations /\ asked.state = <<>>
              /\ \A part \in Parts : asked[part] = <<>>
           \/ /\ request.api \notin Enumerations
              /\ IsRequest(request) /\ Asks(asked, request)
    PROVE  GivenInv'
<1>1. calls' \in Nat
  BY DEF Serve, GivenInv
<1>2. CASE request.api = "NetworkInterfacesEnumerate"
  <2>1. NetworkInterfacesBegin(client, c)
    BY <1>2 DEF Serve
  <2>2. last'.client = "none" /\ hostapd' = hostapd /\ phyAsked' = phyAsked
    BY <2>1 DEF NetworkInterfacesBegin, NoCall
  <2> QED  BY <1>1, <2>2 DEF GivenInv
<1>3. CASE request.api = "WifiAccessPointsEnumerate"
  <2>1. PICK detailed : Enumerates(client, c, detailed)
    BY <1>3 DEF Serve
  <2>2. /\ hostapd' = hostapd /\ phyAsked' = phyAsked
        /\ \E code, shown : last' = [client |-> client, asked |-> c, code |-> code,
                                     shown |-> shown, host |-> host]
    BY <2>1 DEF Enumerates, Ends
  <2>3. Heard(last') = asked
    BY <2>2 DEF Heard
  <2>4. ASSUME NEW part \in Parts PROVE asked[part] = <<>>
    BY <1>3 DEF Enumerations
  <2>5. ASSUME NEW x, NEW phys PROVE Fulfilled(asked, x, phys)
    <3>1. asked.state \in {<<>>, <<x.state>>}
      BY <1>3 DEF Enumerations
    <3> QED  BY ONLY <2>4, <3>1, NothingFulfilled
  <2>6. Fulfilled(Heard(last'), hostapd', phyAsked')
    BY <2>3, <2>5
  <2> QED  BY <1>1, <2>2, <2>6 DEF GivenInv
<1>4. CASE request.api \notin Enumerations
  <2>1. Change(client, c, request)
    BY <1>4 DEF Serve, Enumerations
  <2>2. /\ Typed(hostapd') /\ hostapd'.state \in States
        /\ HasServers(hostapd'.conf) /\ PhyNeeded(hostapd'.conf, phyAsked')
        /\ last'.code = Succeeded => Fulfilled(Heard(last'), hostapd', phyAsked')
    BY <1>4, <2>1, ChangeGives
  <2> QED  BY <1>1, <2>2 DEF GivenInv
<1> QED  BY <1>2, <1>3, <1>4 DEF Enumerations

\* It is kept by every step.
LEMMA GivenStep == GivenInv /\ [Next]_vars => GivenInv'
<1> SUFFICES ASSUME GivenInv, [Next]_vars PROVE GivenInv'
  OBVIOUS
<1>1. CASE CommandLine
  <2>1. PICK line \in CommandLines[calls + 1], channel \in BOOLEAN :
            \/ /\ Parse(channel, line).request # <<>>
               /\ Serve("cli", line, Parse(channel, line).request[1])
            \/ /\ calls' = calls + 1 /\ Ends("cli", line, "none", {})
               /\ UNCHANGED <<hostapd, phyAsked>>
    BY <1>1 DEF CommandLine
  <2>2. IsLine(line)
    <3>1. calls + 1 \in DOMAIN CommandLines
      BY <1>1, RequestAssumption, Lists DEF CommandLine, GivenInv
    <3> QED  BY <2>1, <3>1, RequestAssumption
  <2> DEFINE request == Parse(channel, line).request[1]
             asked == HeardOfLine(line)
  <2>3. CASE Parse(channel, line).request # <<>> /\ Serve("cli", line, request)
    <3>1. LineAsked(line, request)
      BY <2>2, <2>3, ParsedAsks
    <3>2. asked = Heard([client |-> "cli", asked |-> line])
      BY DEF Heard
    <3> HIDE DEF request
    <3>3. \/ /\ request.api \in Enumerations /\ asked.state = <<>>
             /\ \A part \in Parts : asked[part] = <<>>
          \/ /\ request.api \notin Enumerations
             /\ IsRequest(request) /\ Asks(asked, request)
      BY <3>1 DEF LineAsked
    <3> HIDE DEF asked
    <3> QED  BY <2>3, <3>2, <3>3, ServeGives
  <2>4. CASE /\ calls' = calls + 1 /\ Ends("cli", line, "none", {})
             /\ UNCHANGED <<hostapd, phyAsked>>
    <3>1. last'.code # Succeeded
      BY <2>4 DEF Ends, Succeeded
    <3> QED  BY <2>4, <3>1 DEF GivenInv
  <2> QED  BY <2>1, <2>3, <2>4
<1>2. CASE ApiRequest
  <2>1. PICK request \in ApiRequests[calls + 1] : Serve("api", request, request)
    BY <1>2 DEF ApiRequest
  <2>2. IsRequest(request)
    <3>1. calls + 1 \in DOMAIN ApiRequests
      BY <1>2, RequestAssumption, Lists DEF ApiRequest, GivenInv
    <3> QED  BY <2>1, <3>1, RequestAssumption
  <2> DEFINE asked == HeardOfRequest(request)
  <2>3. asked = Heard([client |-> "api", asked |-> request])
    BY DEF Heard
  <2>4. Asks(asked, request)
    BY <2>2, AsksItself
  <2>5. ASSUME request.api \in Enumerations
        PROVE  asked.state = <<>> /\ \A part \in Parts : asked[part] = <<>>
    <3>1. RequestFields[request.api] = {}
      BY <2>5 DEF RequestFields, Enumerations
    <3>2. \A part \in Parts : asked[part] = <<>>
      BY <2>2, <3>1, NotAsked
    <3>3. asked.state = <<>>
      BY <2>5, AskedFields DEF Enumerations
    <3> QED  BY <3>2, <3>3
  <2> HIDE DEF asked
  <2> QED  BY <2>1, <2>2, <2>3, <2>4, <2>5, ServeGives
<1>3. CASE NetworkInterfacesAnswered
  <2>1. /\ UNCHANGED <<hostapd, phyAsked, calls>>
        /\ last'.code = "NetworkOperationStatusCodeSuccess"
    BY <1>3 DEF NetworkInterfacesAnswered, Ends, countVars
  <2>2. last'.code # Succeeded
    BY <2>1 DEF Succeeded
  <2> QED  BY <2>1, <2>2 DEF GivenInv
<1>4. CASE LooksUpIndex \/ CollectsAddresses \/ HostChanges \/ UNCHANGED vars
  <2>1. UNCHANGED <<hostapd, phyAsked, last, calls>>
    BY <1>4 DEF LooksUpIndex, CollectsAddresses, HostChanges, vars, countVars
  <2> QED  BY <2>1 DEF GivenInv, Heard
<1>5. CASE HostapdRestarts
  <2>1. /\ UNCHANGED calls /\ last'.client = "none"
        /\ hostapd' = [status |-> "Succeeded", conf |-> Unset, live |-> Unset, state |-> "DISABLED"]
    BY <1>5 DEF HostapdRestarts, NoCall
  <2> QED  BY <2>1, Started DEF GivenInv
<1> QED  BY <1>1, <1>2, <1>3, <1>4, <1>5 DEF Next

\* The conversions between a client's words and hostapd, from NetRemoteCli's parser and
\* Ieee80211Dot11Adapters to Hostapd's SET commands: whatever is asked for, by a command
\* line or through the API, whatever was asked before, whatever the radios report and
\* wherever hostapd stops answering, a change that is answered with Succeeded is in force
\* as its client named it, but for the parts in Lost and the suite in Misnamed.
THEOREM GivenAsAsked == Spec => []AskedIsGiven
<1>1. Init => GivenInv
  BY GivenInit
<1>2. GivenInv /\ [Next]_vars => GivenInv'
  BY GivenStep
<1>3. (Init => WordsInv) /\ (WordsInv /\ [Next]_vars => WordsInv')
  BY WordsStep
<1> QED  BY <1>1, <1>2, <1>3, GivenImplies, PTL DEF Spec

-----------------------------------------------------------------------------
(* An enabling is applied in order *)

\* The order in which the parts are applied is the one they are to be applied in.
LEMMA OrderKept ==
    /\ PartOrder = InOrder
    /\ \A i \in 1 .. 8 : Written[PartOrder[i]] \subseteq Own(PartOrder[i])
<1>1. PartOrder = InOrder
  BY DEF PartOrder, InOrder
<1>2. ASSUME NEW part \in {"phyType", "dot1x", "algorithms", "data", "akmSuites", "ciphers",
                           "ssid", "bands"}
      PROVE  Written[part] \subseteq Own(part)
  BY DEF Written, Own, Reads, PhyProperties, Pairwise
<1> QED  BY <1>1, <1>2, PartOrders

\* A request that was ended does nothing more.
LEMMA ChainEnded ==
    ASSUME NEW ss, IsList(ss), NEW st, Chained(st, ss), NEW i \in 0 .. Len(ss),
           st[i].status # "Succeeded", NEW j \in i .. Len(ss)
    PROVE  st[j] = st[i]
<1>1. Len(ss) \in Nat
  BY Lists
<1> DEFINE n == j - i
           S == {m \in 0 .. n : st[i + m] = st[i]}
<1>2. n \in Nat /\ i + n = j
  BY <1>1
<1>3. 0 \in S
  BY <1>1
<1>4. ASSUME NEW m \in 0 .. n - 1, m \in S PROVE m + 1 \in S
  <2> DEFINE l == i + m + 1
  <2>1. l \in 1 .. Len(ss) /\ l - 1 = i + m /\ m + 1 \in 0 .. n /\ i + (m + 1) = l
    BY <1>1, <1>2
  <2> HIDE DEF l
  <2>2. Ran(st[l - 1], ss[l], st[l])
    BY <2>1 DEF Chained
  <2>3. st[l - 1] = st[i]
    BY <1>4, <2>1
  <2>4. st[l] = st[i]
    BY <2>2, <2>3, RanTyped
  <2> QED  BY <2>1, <2>4
<1>5. \A m \in 0 .. n : m \in S
  <2> HIDE DEF S, n
  <2> QED  BY <1>2, <1>3, <1>4, Induction
<1>6. n \in S
  BY <1>2, <1>5
<1> QED  BY <1>2, <1>6

\* An enabling has written nothing of a part unless those before it are given, and has
\* not switched the interface on unless all are.
LEMMA EnablePrefix ==
    ASSUME NEW request, IsRequest(request), request.api = "WifiAccessPointEnable",
           NEW asked, EnableAsks(asked, request),
           NEW accessPoint, NEW commands \in WifiAccessPointEnableImpl(accessPoint, request),
           NEW phys, PhyOf(request) \subseteq phys,
           NEW h, NEW x, Ran(h, commands, x), HasServers(h.conf), PhyNeeded(h.conf, phys),
           h.state \in States
    PROVE  /\ \A i \in 1 .. 8 :
                 (\E p \in Written[PartOrder[i]] : x.conf[p] # h.conf[p]) =>
                 \A j \in 1 .. i - 1 : Given(PartOrder[j], asked, x.conf, phys)
           /\ x.state # h.state => \A j \in 1 .. 8 : Given(PartOrder[j], asked, x.conf, phys)
<1>a. PICK ciphers \in EnableCiphers(accessPoint, request) : \E st, z :
         Enabling(accessPoint, PartCommands(accessPoint, request, ciphers), h, x, st, z)
  BY EnableRuns
<1>1. PICK st, z :
         Enabling(accessPoint, PartCommands(accessPoint, request, ciphers), h, x, st, z)
  BY <1>a
<1> DEFINE ss == PartCommands(accessPoint, request, ciphers)
           try == TryGetAccessPointController(accessPoint)
           on == SetOperationalState("Enabled")
<1>2. /\ Ran(h, try, st[0]) /\ Chained(st, ss) /\ Ran(st[8], GetOperationalState, z)
      /\ Ran(z, on, x)
  BY <1>1 DEF Enabling
<1>3. /\ IsList(ss) /\ Len(ss) = 8 /\ DOMAIN ss = 1 .. 8
      /\ \A i \in 1 .. 8 : ServesPart(PartOrder[i], asked, ss[i], phys)
      /\ \A i \in 1 .. 8 : PhyJustified(ss[i], phys)
  <2> DEFINE t == ss
  <2>1. t = PartCommands(accessPoint, request, ciphers)
    OBVIOUS
  <2> HIDE DEF t
  <2>2. IsList(t) /\ Len(t) = 8 /\ DOMAIN t = 1 .. 8
    BY <2>1, Enables
  <2>4. \A i \in 1 .. 8 : ServesPart(PartOrder[i], asked, t[i], phys)
    BY <2>1 DEF EnableAsks
  <2>3. \A i \in 1 .. 8 : PhyJustified(t[i], phys)
    BY <2>1, EnableJustified
  <2> QED  BY <2>2, <2>3, <2>4 DEF t
<1> HIDE DEF ss
<1>4. Within(try, {})
  BY WithinChecks
<1> HIDE DEF try
<1>5. st[0].conf = h.conf /\ st[0].state = h.state
  BY <1>2, <1>4, RanWithin, RanState
<1>6. \A i \in 0 .. 8 : HasServers(st[i].conf) /\ PhyNeeded(st[i].conf, phys)
  BY <1>2, <1>3, <1>5, ChainFacts
<1>7. ASSUME NEW s, s \in {GetOperationalState, on} PROVE \A c \in ToSet(s) : c.do \in Orders
  <2>1. CASE s = GetOperationalState
    BY <2>1, Singles DEF GetOperationalState, Orders
  <2>2. CASE s = on
    BY <2>2, Several DEF SetOperationalState, Orders
  <2> QED  BY <1>7, <2>1, <2>2
<1>8. ASSUME NEW p \in PropertyNames PROVE x.conf[p] = st[8].conf[p]
  <2>1. \A s \in {GetOperationalState, on} : \A c \in ToSet(s) : ~Sets(c, p)
    BY <1>7 DEF Sets
  <2> QED  BY <1>2, <2>1, RanKeeps
<1>9. ASSUME NEW k \in 0 .. 8, st[k].status = "Succeeded"
      PROVE  \A j \in 1 .. k : Given(PartOrder[j], asked, x.conf, phys)
  <2> SUFFICES ASSUME NEW j \in 1 .. k PROVE Given(PartOrder[j], asked, x.conf, phys)
    OBVIOUS
  <2>1. j \in 1 .. 8 /\ j \in 0 .. 8 /\ j - 1 \in 0 .. 8 /\ 8 \in j .. 8 /\ k \in j .. 8
    OBVIOUS
  <2>2. st[j].status = "Succeeded"
    <3> SUFFICES ASSUME st[j].status # "Succeeded" PROVE FALSE
      OBVIOUS
    <3>1. IsList(ss) /\ Chained(st, ss) /\ j \in 0 .. Len(ss) /\ k \in j .. Len(ss)
      BY <1>2, <1>3, <2>1
    <3>2. st[k] = st[j]
      BY ONLY <3>1, st[j].status # "Succeeded", ChainEnded
    <3> QED  BY <1>9, <3>2
  <2> DEFINE part == PartOrder[j]
  <2>3. Given(part, asked, st[8].conf, phys)
    <3>1. HasServers(st[j - 1].conf) /\ PhyNeeded(st[j].conf, phys)
      BY <1>6, <2>1
    <3>2. Chained(st, ss)
      BY <1>2
    <3>3. ASSUME NEW l \in j .. 8 PROVE Given(PartOrder[j], asked, st[l].conf, phys)
      BY <1>3, <2>1, <2>2, <3>1, <3>2, Served, ZenonT(60)
    <3> QED  BY <2>1, <3>3
  <2>4. part \in Parts
    BY <2>1, PartOrders
  <2> HIDE DEF part
  <2>5. \A p \in Reads(part) : x.conf[p] = st[8].conf[p]
    BY <1>8, <2>4, PartsApart
  <2>6. Given(part, asked, x.conf, phys)
    BY <2>3, <2>4, <2>5, GivenReads
  <2> QED  BY <2>6 DEF part
<1>10. ASSUME NEW i \in 1 .. 8, NEW p \in Written[PartOrder[i]], x.conf[p] # h.conf[p]
       PROVE  \A j \in 1 .. i - 1 : Given(PartOrder[j], asked, x.conf, phys)
  <2> DEFINE k == i - 1
             part == PartOrder[i]
  <2>1. k \in 0 .. 8 /\ 8 \in k .. 8 /\ 0 \in 0 .. 8 /\ k \in 0 .. k
    OBVIOUS
  <2>2. part \in Parts /\ p \in Own(part) /\ p \in PropertyNames
    BY PartOrders, OrderKept, PartsApart
  <2>3. ASSUME NEW m \in 1 .. k, NEW c \in ToSet(ss[m]) PROVE ~Sets(c, p)
    <3>1. m \in 1 .. 8 /\ m # i
      OBVIOUS
    <3>2. PartOrder[m] \in Parts /\ PartOrder[m] # part
      BY <3>1, PartOrders
    <3>3. p \notin Own(PartOrder[m])
      BY <2>2, <3>2, PartsApart
    <3>4. Within(ss[m], Own(PartOrder[m]))
      BY <1>3, <3>1 DEF ServesPart
    <3> QED  BY <3>3, <3>4 DEF Within, Sets
  <2>4. st[k].conf[p] = h.conf[p]
    <3>1. /\ IsList(ss) /\ Chained(st, ss) /\ p \in PropertyNames
          /\ 0 \in 0 .. Len(ss) /\ k \in 0 .. Len(ss)
      BY <1>2, <1>3, <2>1, <2>2
    <3> HIDE DEF k
    <3>2. \A m \in 0 + 1 .. k : \A c \in ToSet(ss[m]) : ~Sets(c, p)
      BY <2>3
    <3>3. st[k].conf[p] = st[0].conf[p]
      BY ONLY <3>1, <3>2, ChainKeeps
    <3> QED  BY <1>5, <3>3
  <2>5. st[k].status = "Succeeded"
    <3> SUFFICES ASSUME st[k].status # "Succeeded" PROVE FALSE
      OBVIOUS
    <3>1. st[8] = st[k]
      <4> HIDE DEF k
      <4>1. IsList(ss) /\ Chained(st, ss) /\ k \in 0 .. Len(ss) /\ 8 \in k .. Len(ss)
        BY <1>2, <1>3, <2>1
      <4> QED  BY ONLY <4>1, st[k].status # "Succeeded", ChainEnded
    <3>2. x.conf[p] = st[8].conf[p]
      BY <1>8, <2>2
    <3> QED  BY <1>10, <2>4, <3>1, <3>2
  <2>6. \A j \in 1 .. k : Given(PartOrder[j], asked, x.conf, phys)
    <3> HIDE DEF k
    <3> QED  BY <1>9, <2>1, <2>5
  <2> QED  BY <2>6 DEF k
<1>11. ASSUME x.state # h.state
       PROVE  \A j \in 1 .. 8 : Given(PartOrder[j], asked, x.conf, phys)
  <2>1. st[8].status = "Succeeded"
    <3> SUFFICES ASSUME st[8].status # "Succeeded" PROVE FALSE
      OBVIOUS
    <3>1. x = st[8]
      BY <1>2, RanTyped
    <3>2. st[8].state = h.state
      <4> DEFINE S == {m \in 0 .. 8 : st[m].state = h.state}
      <4>1. 0 \in S
        BY <1>5
      <4>2. ASSUME NEW m \in 0 .. 8 - 1, m \in S PROVE m + 1 \in S
        <5> DEFINE l == m + 1
        <5>1. l \in 1 .. 8 /\ l - 1 = m /\ l \in 0 .. 8
          OBVIOUS
        <5> HIDE DEF l
        <5>2. Ran(st[m], ss[l], st[l]) /\ st[m].state \in States
          BY <1>3, <1>2, <4>2, <5>1 DEF Chained
        <5>3. Within(ss[l], Own(PartOrder[l]))
          BY <1>3, <5>1 DEF ServesPart
        <5>4. st[l].state = h.state
          BY <4>2, <5>2, <5>3, RanState
        <5>5. l \in S
          BY <5>1, <5>4
        <5> QED  BY <5>5 DEF l
      <4>3. \A m \in 0 .. 8 : m \in S
        <5> HIDE DEF S
        <5> QED  BY <4>1, <4>2, Induction
      <4> QED  BY <4>3
    <3> QED  BY <1>11, <3>1, <3>2
  <2> QED  BY <1>9, <2>1
<1> QED  BY <1>10, <1>11

\* What an enabling that was asked for does, in a step.
AppliesPrefix(asked) ==
    LET GivenBefore(i) ==
            \A j \in 1 .. i - 1 : Given(InOrder[j], asked, hostapd'.conf, phyAsked')
    IN  /\ \A i \in DOMAIN InOrder :
              (\E p \in Written[InOrder[i]] : hostapd'.conf[p] # hostapd.conf[p])
              => GivenBefore(i)
        /\ hostapd'.state # hostapd.state => GivenBefore(Len(InOrder) + 1)

\* A step that leaves hostapd as it is applies nothing.
LEMMA NothingApplied ==
    ASSUME hostapd' = hostapd, NEW asked
    PROVE  AppliesPrefix(asked)
BY DEF AppliesPrefix

\* A change that is served.
LEMMA ChangeApplies ==
    ASSUME GivenInv, NEW client, NEW c, NEW request, IsRequest(request),
           request.api = "WifiAccessPointEnable", Change(client, c, request),
           NEW asked, EnableAsks(asked, request)
    PROVE  AppliesPrefix(asked)
<1> DEFINE accessPoint == AccessPoint(request.id)
           h == [hostapd EXCEPT !.status = "Succeeded"]
<1>1. PICK commands \in Changes(accessPoint, request) :
      \E answered \in 0 .. Len(commands) :
          /\ hostapd' = Run(hostapd, commands, answered)
          /\ phyAsked' = phyAsked \cup PhyOf(request)
  BY DEF Change
<1>2. PICK answered \in 0 .. Len(commands) :
          /\ hostapd' = Run(hostapd, commands, answered)
          /\ phyAsked' = phyAsked \cup PhyOf(request)
  BY <1>1
<1>3. commands \in WifiAccessPointEnableImpl(accessPoint, request) /\ answered \in Int
  BY <1>1, <1>2 DEF Changes
<1>4. IsList(commands)
  <2> HIDE DEF accessPoint
  <2> QED  BY <1>1, ChangeIsList DEF Enumerations
<1>5. Typed(h) /\ h.conf = hostapd.conf /\ h.state = hostapd.state
  BY DEF Typed, GivenInv
<1>6. hostapd' = Exec(h, commands, answered)
  BY <1>2, RunExecutes
<1> DEFINE x == hostapd'
           phys == phyAsked'
<1>7. phyAsked \subseteq phys /\ PhyOf(request) \subseteq phys
  BY <1>2
<1> HIDE DEF h, accessPoint
<1>8. Ran(h, commands, x)
  BY <1>3, <1>4, <1>5, <1>6 DEF Ran
<1>9. HasServers(h.conf) /\ h.state \in States /\ PhyNeeded(h.conf, phyAsked)
  BY <1>5 DEF GivenInv
<1> HIDE DEF x, phys
<1>10. PhyNeeded(h.conf, phys)
  BY <1>7, <1>9, PhyMore
<1>11. /\ \A i \in 1 .. 8 :
                 (\E p \in Written[PartOrder[i]] : x.conf[p] # h.conf[p]) =>
                 \A j \in 1 .. i - 1 : Given(PartOrder[j], asked, x.conf, phys)
       /\ x.state # h.state => \A j \in 1 .. 8 : Given(PartOrder[j], asked, x.conf, phys)
  BY <1>3, <1>7, <1>8, <1>9, <1>10, EnablePrefix
<1>12. PartOrder = InOrder /\ DOMAIN InOrder = 1 .. 8 /\ Len(InOrder) = 8
  BY OrderKept, PartOrders DEF InOrder
<1>13. \A i \in 1 .. 8 :
          (\E p \in Written[InOrder[i]] : x.conf[p] # hostapd.conf[p]) =>
          \A j \in 1 .. i - 1 : Given(InOrder[j], asked, x.conf, phys)
  BY <1>5, <1>11, <1>12
<1>14. x.state # hostapd.state =>
          \A j \in 1 .. (8 + 1) - 1 : Given(InOrder[j], asked, x.conf, phys)
  <2>1. (8 + 1) - 1 = 8
    OBVIOUS
  <2> QED  BY <1>5, <1>11, <1>12, <2>1
<1> QED  BY <1>12, <1>13, <1>14 DEF AppliesPrefix, x, phys

\* A call that is served and asks for an enabling.
LEMMA ServeApplies ==
    ASSUME GivenInv, NEW client, NEW c, NEW request, Serve(client, c, request),
           NEW asked, asked = Heard([client |-> client, asked |-> c]),
           asked.state = <<"ENABLED">> =>
               /\ request.api = "WifiAccessPointEnable"
               /\ IsRequest(request) /\ EnableAsks(asked, request)
    PROVE  last'.client # "none" /\ Heard(last').state = <<"ENABLED">>
               => AppliesPrefix(Heard(last'))
<1>1. CASE request.api = "NetworkInterfacesEnumerate"
  <2>1. NetworkInterfacesBegin(client, c)
    BY <1>1 DEF Serve
  <2>2. last'.client = "none"
    BY <2>1 DEF NetworkInterfacesBegin, NoCall
  <2> QED  BY <2>2
<1>2. CASE request.api = "WifiAccessPointsEnumerate"
  <2>1. PICK detailed : Enumerates(client, c, detailed)
    BY <1>2 DEF Serve
  <2>2. hostapd' = hostapd
    BY <2>1 DEF Enumerates
  <2> QED  BY <2>2, NothingApplied
<1>3. CASE request.api \notin Enumerations
  <2>1. Change(client, c, request)
    BY <1>3 DEF Serve, Enumerations
  <2>2. \E code : last' = [client |-> client, asked |-> c, code |-> code, shown |-> {},
                           host |-> host]
    BY <2>1 DEF Change, Ends
  <2>3. Heard(last') = asked
    BY <2>2 DEF Heard
  <2>4. asked.state = <<"ENABLED">> => AppliesPrefix(asked)
    BY <2>1, ChangeApplies
  <2> QED  BY <2>3, <2>4
<1> QED  BY <1>1, <1>2, <1>3 DEF Enumerations

\* It is so of every step.
LEMMA StepApplies ==
    ASSUME GivenInv, [Next]_vars, calls' # calls, last'.client # "none",
           Heard(last').state = <<"ENABLED">>
    PROVE  AppliesPrefix(Heard(last'))
<1>1. CASE CommandLine
  <2>1. PICK line \in CommandLines[calls + 1], channel \in BOOLEAN :
            \/ /\ Parse(channel, line).request # <<>>
               /\ Serve("cli", line, Parse(channel, line).request[1])
            \/ hostapd' = hostapd
    BY <1>1 DEF CommandLine
  <2>2. IsLine(line)
    <3>1. calls + 1 \in DOMAIN CommandLines
      BY <1>1, RequestAssumption, Lists DEF CommandLine, GivenInv
    <3> QED  BY <2>1, <3>1, RequestAssumption
  <2> DEFINE request == Parse(channel, line).request[1]
             asked == HeardOfLine(line)
  <2>3. CASE Parse(channel, line).request # <<>> /\ Serve("cli", line, request)
    <3>1. LineAsked(line, request)
      BY <2>2, <2>3, ParsedAsks
    <3>2. asked = Heard([client |-> "cli", asked |-> line])
      BY DEF Heard
    <3> HIDE DEF request
    <3>3. ASSUME asked.state = <<"ENABLED">>
          PROVE  /\ request.api = "WifiAccessPointEnable"
                 /\ IsRequest(request) /\ EnableAsks(asked, request)
      <4>1. <<"ENABLED">> # <<>>
        OBVIOUS
      <4> QED  BY <3>1, <3>3, <4>1 DEF LineAsked, Asks, Enumerations
    <3> HIDE DEF asked
    <3> QED  BY <2>3, <3>2, <3>3, ServeApplies
  <2>4. CASE hostapd' = hostapd
    BY <2>4, NothingApplied
  <2> QED  BY <2>1, <2>3, <2>4
<1>2. CASE ApiRequest
  <2>1. PICK request \in ApiRequests[calls + 1] : Serve("api", request, request)
    BY <1>2 DEF ApiRequest
  <2>2. IsRequest(request)
    <3>1. calls + 1 \in DOMAIN ApiRequests
      BY <1>2, RequestAssumption, Lists DEF ApiRequest, GivenInv
    <3> QED  BY <2>1, <3>1, RequestAssumption
  <2> DEFINE asked == HeardOfRequest(request)
  <2>3. asked = Heard([client |-> "api", asked |-> request])
    BY DEF Heard
  <2>4. ASSUME asked.state = <<"ENABLED">>
        PROVE  /\ request.api = "WifiAccessPointEnable"
               /\ IsRequest(request) /\ EnableAsks(asked, request)
    <3>1. request.api = "WifiAccessPointEnable"
      <4>1. \/ request.api = "WifiAccessPointEnable"
            \/ asked.state = <<"DISABLED">> \/ asked.state = <<>>
        BY AskedFields
      <4>2. <<"DISABLED">> # <<"ENABLED">> /\ <<>> # <<"ENABLED">>
        OBVIOUS
      <4> HIDE DEF asked
      <4> QED  BY <2>4, <4>1, <4>2
    <3> QED  BY <2>2, <3>1, EnableAsksIt
  <2> HIDE DEF asked
  <2> QED  BY <2>1, <2>3, <2>4, ServeApplies
<1>3. CASE \/ NetworkInterfacesAnswered \/ LooksUpIndex \/ CollectsAddresses \/ HostChanges
           \/ HostapdRestarts \/ UNCHANGED vars
  <2>1. calls' = calls
    BY <1>3 DEF NetworkInterfacesAnswered, LooksUpIndex, CollectsAddresses, HostChanges,
                HostapdRestarts, vars, countVars
  <2> QED  BY <2>1
<1> QED  BY <1>1, <1>2, <1>3 DEF Next

\* What is applied of what is heard is applied of what is asked.
LEMMA AppliedAlike ==
    ASSUME Worded(last'), AppliesPrefix(Heard(last'))
    PROVE  LET GivenBefore(i) ==
                   \A j \in 1 .. i - 1 : InOrder[j] \in Kept(last')
                       => Given(InOrder[j], Asked(last'), hostapd'.conf, phyAsked')
           IN  /\ \A i \in DOMAIN InOrder :
                     (\E p \in Written[InOrder[i]] : hostapd'.conf[p] # hostapd.conf[p])
                     => GivenBefore(i)
               /\ hostapd'.state # hostapd.state => GivenBefore(Len(InOrder) + 1)
<1>1. ASSUME NEW part \in Kept(last'), Given(part, Heard(last'), hostapd'.conf, phyAsked')
      PROVE  Given(part, Asked(last'), hostapd'.conf, phyAsked')
  <2>1. Asked(last')[part] = Heard(last')[part]
    BY KeptIsHeard DEF Worded
  <2>2. part \in Parts
    BY DEF Kept
  <2> QED  BY <1>1, <2>1, <2>2, GivenAlike
<1> QED  BY <1>1 DEF AppliesPrefix

\* PartOrder: for any configuration, any capabilities of the radio and wherever hostapd
\* stops answering, an Enable has written nothing of a part unless all before it are given,
\* but for those that are lost.
THEOREM AppliedInOrder == Spec => PrefixApplied
<1> DEFINE Good ==
               calls' # calls /\ last'.client # "none" /\ Asked(last').state = <<"ENABLED">> =>
               LET GivenBefore(i) ==
                       \A j \in 1 .. i - 1 : InOrder[j] \in Kept(last')
                           => Given(InOrder[j], Asked(last'), hostapd'.conf, phyAsked')
               IN  /\ \A i \in DOMAIN InOrder :
                         (\E p \in Written[InOrder[i]] : hostapd'.conf[p] # hostapd.conf[p])
                         => GivenBefore(i)
                   /\ hostapd'.state # hostapd.state => GivenBefore(Len(InOrder) + 1)
<1>1. GivenInv /\ [Next]_vars => [Good]_vars
  <2> SUFFICES ASSUME GivenInv, [Next]_vars, calls' # calls, last'.client # "none",
                      Asked(last').state = <<"ENABLED">>
               PROVE  Good
    OBVIOUS
  <2>1. CommandLine \/ ApiRequest
    BY OtherSteps
  <2>2. calls \in Nat
    BY DEF GivenInv
  <2>3. Worded(last')
    BY <2>1, <2>2, CallsWorded
  <2>4. Heard(last').state = <<"ENABLED">>
    BY PhyAndBandsHeard
  <2> HIDE DEF GivenInv
  <2>5. AppliesPrefix(Heard(last'))
    BY <2>4, StepApplies
  <2> QED  BY <2>3, <2>5, AppliedAlike
<1>2. GivenInv /\ [Next]_vars => GivenInv'
  BY GivenStep
<1>3. PrefixApplied <=> [][Good]_vars
  BY DEF PrefixApplied
<1> HIDE DEF Good
<1> QED  BY <1>1, <1>2, <1>3, GivenInit, PTL DEF Spec
=============================================================================

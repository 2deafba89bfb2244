----------------------- MODULE NetRemoteServiceProofs -----------------------
(***************************************************************************)
(* What holds of the Wi-Fi requests for any number of threads, any requests  *)
(* and any number of restarts of hostapd.  First the order of the commands   *)
(* within the plan of a request, for any items, any number of passwords and  *)
(* of RADIUS servers: it is what the code of the setters is written for.     *)
(* Then that neither the other requests nor failures and restarts between    *)
(* two steps of a plan undo what the order is for.                           *)
(***************************************************************************)
EXTENDS NetRemoteService, SequenceTheorems, TLAPS

(* The plan of a request. *)

Changes == {"set", "clear", "add"}
Checks == {"refuse", "controller", "capability"}

\* The steps of plans by what they are for.  The last step of a switch that
\* hostapd refuses, "confirm", is among them.
CheckSteps ==
    [cmd : {"refuse", "controller"}, prop : {""}, arg : {0}]
    \cup [cmd : {"capability"}, prop : {""}, arg : BOOLEAN]
SetSteps ==
    [cmd : {"set"}, prop : Properties \ {"sae_password"}, arg : {1}]
    \cup [cmd : {"throw"}, prop : {""}, arg : {0}]
PasswordSteps == [cmd : {"clear", "add"}, prop : {"sae_password"}, arg : Nat]
EndSteps == [cmd : {"reload", "read"}, prop : {""}, arg : {0}]
StateSteps ==
    [cmd : {"query", "switch", "confirm"}, prop : {""}, arg : {"ENABLED", "DISABLED"}]

WorkSteps == SetSteps \cup PasswordSteps \cup EndSteps
BodySteps == CheckSteps \cup WorkSteps
Steps == BodySteps \cup StateSteps

\* The properties no reload need follow: a band change takes effect at once, the
\* protection of a 6 GHz band is left staged.
Held == {"setband", "ieee80211w"}

-----------------------------------------------------------------------------
(* What the order of a sequence of steps is for                              *)

\* What can be wrong with a request is looked at before anything is changed.
ChecksFirst(s) ==
    \A i, j \in DOMAIN s : i < j /\ s[i].cmd \in Changes => s[j].cmd \notin Checks

\* Every change is followed by a reload, and nothing is read before that.
Settles(s) ==
    \A i \in DOMAIN s : s[i].cmd \in Changes =>
        \E j \in DOMAIN s :
            i < j /\ s[j].cmd = "reload" /\ \A k \in i .. j : s[k].cmd # "read"

ReadsAfterReload(s) ==
    \A i, k \in DOMAIN s : i < k /\ s[i].cmd \in Changes /\ s[k].cmd = "read" =>
        \E j \in i .. k : s[j].cmd = "reload"

ReloadsAfter(s) ==
    \A i \in DOMAIN s : s[i].cmd \in Changes /\ s[i].prop \notin Held =>
        \E j \in DOMAIN s : i < j /\ s[j].cmd = "reload"

\* Passwords are cleared before the first is added, once, and some are added.
NoPasswords(s) == \A i \in DOMAIN s : s[i].cmd \notin {"clear", "add"}

ClearsFirst(s) ==
    \A i \in DOMAIN s : s[i].cmd = "add" => \E j \in 1 .. i - 1 : s[j].cmd = "clear"

ClearsOnce(s) ==
    \A i \in DOMAIN s : s[i].cmd = "clear" =>
        \A j \in 1 .. i - 1 : s[j].cmd \notin {"clear", "add"}

Replaces(s) ==
    (\E i \in DOMAIN s : s[i].cmd = "clear") => (\E j \in DOMAIN s : s[j].cmd = "add")

ReplacesPasswords(s) == ClearsFirst(s) /\ ClearsOnce(s) /\ Replaces(s)

\* The state is looked at and switched at the end.
SwitchesLast(s) ==
    \A i \in DOMAIN s :
        /\ s[i].cmd = "switch" => i = Len(s)
        /\ s[i].cmd = "query" => i + 1 = Len(s) /\ s[i + 1].cmd = "switch"

\* What changes something does not end with a check, and switches on if at all.
Enables(s) ==
    /\ s # <<>> => s[Len(s)].cmd \notin Checks
    /\ \A i \in DOMAIN s : s[i].cmd = "query" => s[i].arg = "ENABLED"

-----------------------------------------------------------------------------
(* Sequences of steps put together                                           *)

\* A settled sequence and one behind it.
LEMMA SettlesConcat ==
    ASSUME NEW S, NEW a \in Seq(S), NEW b \in Seq(S), Settles(a), Settles(b)
    PROVE  a \o b \in Seq(S) /\ Settles(a \o b)
<1> DEFINE c == a \o b
<1>1. /\ c \in Seq(S) /\ DOMAIN a = 1 .. Len(a) /\ DOMAIN b = 1 .. Len(b)
      /\ DOMAIN c = 1 .. Len(a) + Len(b) /\ Len(a) \in Nat /\ Len(b) \in Nat
      /\ \A i \in 1 .. Len(a) : c[i] = a[i]
      /\ \A i \in 1 .. Len(b) : c[Len(a) + i] = b[i]
  BY ConcatProperties
<1> HIDE DEF c
<1>2. ASSUME NEW i \in DOMAIN c, c[i].cmd \in Changes
      PROVE  \E j \in DOMAIN c :
                 i < j /\ c[j].cmd = "reload" /\ \A k \in i .. j : c[k].cmd # "read"
  <2>1. CASE i \in 1 .. Len(a)
    <3>1. PICK j \in DOMAIN a :
              i < j /\ a[j].cmd = "reload" /\ \A k \in i .. j : a[k].cmd # "read"
      BY <1>1, <1>2, <2>1 DEF Settles
    <3>2. j \in DOMAIN c /\ \A k \in i .. j : c[k] = a[k]
      BY <1>1, <2>1
    <3> QED  BY <1>1, <3>1, <3>2
  <2>2. CASE i \notin 1 .. Len(a)
    <3>1. i - Len(a) \in 1 .. Len(b) /\ c[i] = b[i - Len(a)]
      BY <1>1, <2>2
    <3>2. PICK j \in DOMAIN b :
              /\ i - Len(a) < j /\ b[j].cmd = "reload"
              /\ \A k \in i - Len(a) .. j : b[k].cmd # "read"
      BY <1>1, <1>2, <3>1 DEF Settles
    <3>3. ASSUME NEW k \in i .. Len(a) + j
          PROVE  c[k].cmd # "read"
      <4>1. k - Len(a) \in i - Len(a) .. j /\ k - Len(a) \in 1 .. Len(b)
        BY <1>1, <3>1
      <4>2. c[k] = b[k - Len(a)]
        BY <1>1, <4>1
      <4> QED  BY <3>2, <4>1, <4>2
    <3> QED  BY <1>1, <3>2, <3>3, SMTT(60)
  <2> QED  BY <2>1, <2>2
<1> QED  BY <1>1, <1>2 DEF Settles, c

\* What is not read before a reload is settled by it.
LEMMA ReloadSettles ==
    ASSUME NEW S, NEW s \in Seq(S), \A x \in S : x.cmd # "read",
           NEW r, r.cmd = "reload", r \in S
    PROVE  s \o <<r>> \in Seq(S) /\ Settles(s \o <<r>>)
<1> DEFINE c == s \o <<r>>
<1>0. <<r>> \in Seq(S) /\ Len(<<r>>) = 1 /\ <<r>>[1] = r
  OBVIOUS
<1>1. /\ c \in Seq(S) /\ Len(s) \in Nat /\ DOMAIN c = 1 .. Len(s) + 1
      /\ \A i \in 1 .. Len(s) + 1 : c[i] = IF i <= Len(s) THEN s[i] ELSE r
  BY <1>0, ConcatProperties
<1> HIDE DEF c
<1>2. c[Len(s) + 1].cmd = "reload" /\ \A i \in DOMAIN c : c[i].cmd # "read"
  BY <1>1
<1>3. ASSUME NEW i \in DOMAIN c, c[i].cmd \in Changes
      PROVE  i < Len(s) + 1
  BY <1>1, <1>2, <1>3 DEF Changes
<1> QED  BY <1>1, <1>2, <1>3 DEF Settles, c

\* A sequence without passwords beside one that replaces them.
LEMMA PasswordsConcat ==
    ASSUME NEW S, NEW a \in Seq(S), NEW b \in Seq(S)
    PROVE  /\ NoPasswords(a) /\ NoPasswords(b) => NoPasswords(a \o b)
           /\ NoPasswords(a) /\ ReplacesPasswords(b) => ReplacesPasswords(a \o b)
           /\ ReplacesPasswords(a) /\ NoPasswords(b) => ReplacesPasswords(a \o b)
<1> DEFINE c == a \o b
<1>1. /\ DOMAIN a = 1 .. Len(a) /\ DOMAIN b = 1 .. Len(b)
      /\ DOMAIN c = 1 .. Len(a) + Len(b) /\ Len(a) \in Nat /\ Len(b) \in Nat
      /\ \A i \in 1 .. Len(a) : c[i] = a[i]
      /\ \A i \in 1 .. Len(b) : c[Len(a) + i] = b[i]
      /\ \A i \in DOMAIN c :
             i \in 1 .. Len(a) \/ (i - Len(a) \in 1 .. Len(b) /\ c[i] = b[i - Len(a)])
  BY ConcatProperties
<1> HIDE DEF c
<1>2. ASSUME NoPasswords(a), NoPasswords(b)
      PROVE  NoPasswords(c)
  BY <1>1, <1>2 DEF NoPasswords
<1>3. ASSUME NoPasswords(a), ReplacesPasswords(b)
      PROVE  ReplacesPasswords(c)
  <2>1. ClearsFirst(c)
    <3> SUFFICES ASSUME NEW i \in DOMAIN c, c[i].cmd = "add"
                 PROVE  \E j \in 1 .. i - 1 : c[j].cmd = "clear"
      BY DEF ClearsFirst
    <3>1. i - Len(a) \in 1 .. Len(b) /\ c[i] = b[i - Len(a)]
      BY <1>1, <1>3 DEF NoPasswords
    <3>2. PICK j \in 1 .. i - Len(a) - 1 : b[j].cmd = "clear"
      BY <1>1, <1>3, <3>1 DEF ReplacesPasswords, ClearsFirst
    <3>3. Len(a) + j \in 1 .. i - 1 /\ c[Len(a) + j] = b[j]
      BY <1>1, <3>1
    <3> QED  BY <3>2, <3>3
  <2>2. ClearsOnce(c)
    <3> SUFFICES ASSUME NEW i \in DOMAIN c, c[i].cmd = "clear", NEW j \in 1 .. i - 1
                 PROVE  c[j].cmd \notin {"clear", "add"}
      BY DEF ClearsOnce
    <3>1. i - Len(a) \in 1 .. Len(b) /\ c[i] = b[i - Len(a)]
      BY <1>1, <1>3 DEF NoPasswords
    <3>2. CASE j \in 1 .. Len(a)
      BY <1>1, <1>3, <3>2 DEF NoPasswords
    <3>3. CASE j \notin 1 .. Len(a)
      <4>1. j - Len(a) \in 1 .. i - Len(a) - 1 /\ c[j] = b[j - Len(a)]
        BY <1>1, <3>1, <3>3
      <4> QED  BY <1>1, <1>3, <3>1, <4>1 DEF ReplacesPasswords, ClearsOnce
    <3> QED  BY <3>2, <3>3
  <2>3. Replaces(c)
    <3> SUFFICES ASSUME NEW i \in DOMAIN c, c[i].cmd = "clear"
                 PROVE  \E j \in DOMAIN c : c[j].cmd = "add"
      BY DEF Replaces
    <3>1. i - Len(a) \in 1 .. Len(b) /\ c[i] = b[i - Len(a)]
      BY <1>1, <1>3 DEF NoPasswords
    <3>2. PICK j \in 1 .. Len(b) : b[j].cmd = "add"
      BY <1>1, <1>3, <3>1 DEF ReplacesPasswords, Replaces
    <3> QED  BY <1>1, <3>2
  <2> QED  BY <2>1, <2>2, <2>3 DEF ReplacesPasswords
<1>4. ASSUME ReplacesPasswords(a), NoPasswords(b)
      PROVE  ReplacesPasswords(c)
  <2>1. \A i \in DOMAIN c : c[i].cmd \in {"clear", "add"} => i \in 1 .. Len(a) /\ c[i] = a[i]
    BY <1>1, <1>4 DEF NoPasswords
  <2>2. ClearsFirst(c)
    BY <1>1, <1>4, <2>1 DEF ReplacesPasswords, ClearsFirst
  <2>3. ClearsOnce(c)
    BY <1>1, <1>4, <2>1 DEF ReplacesPasswords, ClearsOnce
  <2>4. Replaces(c)
    BY <1>1, <1>4, <2>1 DEF ReplacesPasswords, Replaces
  <2> QED  BY <2>2, <2>3, <2>4 DEF ReplacesPasswords
<1> QED  BY <1>2, <1>3, <1>4 DEF c
-----------------------------------------------------------------------------
(* What the setters of the controller send                                   *)

\* What is sent without passwords, and with them.
PlainSteps == SetSteps \cup EndSteps

Plain(s) == s \in Seq(PlainSteps) /\ Settles(s)

Work(s) == s \in Seq(WorkSteps) /\ Settles(s) /\ ReplacesPasswords(s)

\* The commands that change nothing.
LEMMA Ends ==
    /\ Controller!Hostapd!Reload = <<[cmd |-> "reload", prop |-> "", arg |-> 0]>>
    /\ Plain(Controller!Hostapd!Reload) /\ Plain(Controller!Hostapd!Read)
    /\ Plain(Controller!Hostapd!Throw)
    /\ Controller!Hostapd!Throw \in Seq(SetSteps)
    /\ Plain(<<>>)
<1>1. ASSUME NEW x \in PlainSteps, x.cmd \notin Changes
      PROVE  Plain(<<x>>)
  <2>1. <<x>> \in Seq(PlainSteps) /\ DOMAIN <<x>> = {1} /\ <<x>>[1] = x
    OBVIOUS
  <2> QED  BY <1>1, <2>1 DEF Plain, Settles
<1>2. ASSUME NEW cmd \in {"reload", "read", "throw"}
      PROVE  [cmd |-> cmd, prop |-> "", arg |-> 0] \in PlainSteps
  BY DEF PlainSteps, EndSteps, SetSteps
<1>3. ASSUME NEW cmd \in {"reload", "read", "throw"}
      PROVE  Plain(<<[cmd |-> cmd, prop |-> "", arg |-> 0]>>)
  BY <1>1, <1>2 DEF Changes
<1>4. Plain(<<>>)
  BY DEF Plain, Settles
<1>5. [cmd |-> "throw", prop |-> "", arg |-> 0] \in SetSteps
  BY DEF SetSteps
<1>6. <<[cmd |-> "throw", prop |-> "", arg |-> 0]>> \in Seq(SetSteps)
  <2> DEFINE x == [cmd |-> "throw", prop |-> "", arg |-> 0]
  <2>1. x \in SetSteps
    BY <1>5
  <2> HIDE DEF x, SetSteps
  <2>2. <<x>> \in Seq(SetSteps)
    BY <2>1
  <2> QED  BY <2>2 DEF x
<1> QED  BY <1>3, <1>4, <1>6 DEF Controller!Hostapd!Reload, Controller!Hostapd!Read,
          Controller!Hostapd!Throw, Controller!Hostapd!Command, Controller!Hostapd!Step

\* What is set and then reloaded.
LEMMA Reloaded ==
    ASSUME NEW s \in Seq(SetSteps)
    PROVE  Plain(s \o Controller!Hostapd!Reload)
<1> DEFINE r == [cmd |-> "reload", prop |-> "", arg |-> 0]
           S == SetSteps \cup {r}
<1>1. /\ \A x \in S : x.cmd # "read"
      /\ r.cmd = "reload" /\ r \in S /\ S \subseteq PlainSteps
  <2>1. ASSUME NEW x \in S
        PROVE  x.cmd # "read"
    <3>1. CASE x \in SetSteps
      BY <3>1 DEF SetSteps
    <3>2. CASE x = r
      BY <3>2
    <3> QED  BY <3>1, <3>2
  <2>2. r \in EndSteps
    BY DEF EndSteps
  <2> QED  BY <2>1, <2>2 DEF PlainSteps
<1> HIDE DEF r, SetSteps, PlainSteps
<1>2. s \in Seq(S)
  BY SeqMonotonic
<1> HIDE DEF S
<1>3. s \o <<r>> \in Seq(S) /\ Settles(s \o <<r>>)
  BY <1>1, <1>2, ReloadSettles
<1>4. s \o <<r>> \in Seq(PlainSteps)
  BY <1>1, <1>3, SeqMonotonic
<1> QED  BY <1>3, <1>4, Ends DEF Plain, r

\* A property that is set, to be enforced later or at once.
LEMMA SetOne ==
    ASSUME NEW p \in Properties \ {"sae_password"}
    PROVE  /\ Controller!Hostapd!SetProperty(p, "Defer") \in Seq(SetSteps)
           /\ Plain(Controller!Hostapd!SetProperty(p, "Now"))
<1> DEFINE x == [cmd |-> "set", prop |-> p, arg |-> 1]
<1>1. x \in SetSteps
  BY DEF SetSteps
<1> HIDE DEF x, SetSteps
<1>2. <<x>> \in Seq(SetSteps)
  BY <1>1
<1>3. <<x>> \o <<>> = <<x>>
  BY <1>2, ConcatEmptySeq
<1>4. Controller!Hostapd!SetProperty(p, "Defer") = <<x>>
  BY <1>3 DEF Controller!Hostapd!SetProperty, Controller!Hostapd!Enforce,
              Controller!Hostapd!Command, Controller!Hostapd!Step, x
<1>5. Controller!Hostapd!SetProperty(p, "Now") = <<x>> \o Controller!Hostapd!Reload
  BY DEF Controller!Hostapd!SetProperty, Controller!Hostapd!Enforce,
         Controller!Hostapd!Command, Controller!Hostapd!Step, x
<1> QED  BY <1>2, <1>4, <1>5, Reloaded

\* What is sent without passwords, one after the other.
LEMMA PlainConcat ==
    ASSUME NEW a, NEW b, Plain(a), Plain(b)
    PROVE  Plain(a \o b)
BY SettlesConcat DEF Plain

\* A property set at once settles what was set before.
LEMMA SetThenEnforced ==
    ASSUME NEW a \in Seq(SetSteps), NEW p \in Properties \ {"sae_password"}
    PROVE  Plain(a \o Controller!Hostapd!SetProperty(p, "Now"))
<1> DEFINE x == [cmd |-> "set", prop |-> p, arg |-> 1]
           r == [cmd |-> "reload", prop |-> "", arg |-> 0]
<1>1. x \in SetSteps /\ r \in EndSteps
  BY DEF SetSteps, EndSteps
<1> HIDE DEF x, r, SetSteps, EndSteps
<1>2. <<x>> \in Seq(SetSteps) /\ <<r>> \in Seq(EndSteps)
  BY <1>1
<1>3. a \o <<x>> \in Seq(SetSteps)
  BY <1>2, ConcatProperties
<1>4. a \in Seq(PlainSteps) /\ <<x>> \in Seq(PlainSteps) /\ <<r>> \in Seq(PlainSteps)
  BY <1>2, SeqMonotonic DEF PlainSteps
<1>5. Controller!Hostapd!SetProperty(p, "Now") = <<x>> \o <<r>>
  BY DEF Controller!Hostapd!SetProperty, Controller!Hostapd!Enforce, Controller!Hostapd!Reload,
         Controller!Hostapd!Command, Controller!Hostapd!Step, x, r
<1>6. a \o (<<x>> \o <<r>>) = (a \o <<x>>) \o <<r>>
  BY <1>4, ConcatAssociative
<1>7. Plain((a \o <<x>>) \o Controller!Hostapd!Reload)
  BY <1>3, Reloaded
<1>8. Controller!Hostapd!Reload = <<r>>
  BY Ends DEF r
<1> QED  BY <1>5, <1>6, <1>7, <1>8

\* SetPhyType: whatever the type needs is set, then reloaded and read.
LEMMA PhyTypePlan == \A type : Plain(Controller!SetPhyType(type))
<1> DEFINE Names == Properties \ {"sae_password"}
<1> TAKE type
<1>1. Controller!PhyProperties(type) \in Seq(Names)
  <2>1. /\ {"hw_mode", "ieee80211ax", "disable_11ax", "ieee80211ac", "disable_11ac", "wmm_enabled",
             "ieee80211n", "disable_11n"} \subseteq Names
    BY DEF Properties
  <2> HIDE DEF Names
  <2>2. /\ <<"hw_mode">> \in Seq(Names) /\ <<>> \in Seq(Names)
        /\ <<"ieee80211ax", "disable_11ax">> \in Seq(Names)
        /\ <<"ieee80211ac", "disable_11ac">> \in Seq(Names)
        /\ <<"wmm_enabled", "ieee80211n", "disable_11n">> \in Seq(Names)
    BY <2>1
  <2>3. \A a, b \in Seq(Names) : a \o b \in Seq(Names)
    BY ConcatProperties
  <2> QED  BY <2>2, <2>3 DEF Controller!PhyProperties
<1>2. Controller!SetPhyProperties(type) \in Seq(SetSteps)
  <2> DEFINE props == Controller!PhyProperties(type)
             e(i) == [cmd |-> "set", prop |-> props[i], arg |-> 1]
  <2>1. Len(props) \in Nat /\ DOMAIN props = 1 .. Len(props)
        /\ \A i \in 1 .. Len(props) : props[i] \in Names
    BY <1>1
  <2>2. \A i \in 1 .. Len(props) : e(i) \in SetSteps
    BY <2>1 DEF SetSteps
  <2>3. Controller!SetPhyProperties(type) = [i \in 1 .. Len(props) |-> e(i)]
    BY <2>1 DEF Controller!SetPhyProperties, Controller!Hostapd!Step
  <2> HIDE DEF SetSteps, e, props
  <2>4. [i \in 1 .. Len(props) |-> e(i)] \in Seq(SetSteps)
    BY <2>1, <2>2
  <2> QED  BY <2>3, <2>4
<1> QED  BY <1>2, Reloaded, Ends, PlainConcat DEF Controller!SetPhyType

\* SetRadiusConfiguration: however many servers, one reload settles them all.
LEMMA RadiusPlan ==
    ASSUME NEW servers \in Seq({"auth_server", "acct_server", "unknown"})
    PROVE  Plain(Controller!SetRadiusConfiguration(servers))
<1> DEFINE n == 2 * Len(servers)
           e(k) == IF servers[(k + 1) \div 2] = "unknown"
                   THEN [cmd |-> "throw", prop |-> "", arg |-> 0]
                   ELSE [cmd |-> "set", prop |-> servers[(k + 1) \div 2], arg |-> 1]
           added == [k \in 1 .. n |-> e(k)]
<1>1. \A k \in 1 .. n : e(k) \in SetSteps
  <2> SUFFICES ASSUME NEW k \in 1 .. n PROVE e(k) \in SetSteps
    OBVIOUS
  <2>1. (k + 1) \div 2 \in 1 .. Len(servers)
    OBVIOUS
  <2>2. servers[(k + 1) \div 2] \in {"auth_server", "acct_server", "unknown"}
    BY <2>1
  <2> QED  BY <2>2 DEF SetSteps, Properties
<1>2. n \in Nat
  OBVIOUS
<1> HIDE DEF n, e, SetSteps
<1>3. added \in Seq(SetSteps)
  BY <1>1, <1>2
<1>4. Controller!Hostapd!AddRadiusEndpoints(servers, "Defer") = added \o <<>>
  BY DEF Controller!Hostapd!AddRadiusEndpoints, Controller!Hostapd!Enforce,
         Controller!Hostapd!Step, e, n
<1> HIDE DEF added
<1>5. Controller!Hostapd!AddRadiusEndpoints(servers, "Defer") \in Seq(SetSteps)
  BY <1>3, <1>4, ConcatEmptySeq
<1>6. /\ Controller!Hostapd!SetProperty("eap_server", "Defer") \in Seq(SetSteps)
      /\ Controller!Hostapd!SetProperty("own_ip_addr", "Defer") \in Seq(SetSteps)
  BY SetOne DEF Properties
<1>7. \A a, b \in Seq(SetSteps) : a \o b \in Seq(SetSteps)
  BY ConcatProperties
<1> QED  BY <1>5, <1>6, <1>7, Reloaded DEF Controller!SetRadiusConfiguration

\* SetAkmSuites: what fast transition needs is settled by itself.
LEMMA AkmSuitesPlan == \A akms : Plain(Controller!SetAkmSuites(akms))
<1> TAKE akms
<1> DEFINE ft == IF "ft" \in akms THEN Controller!Hostapd!SetProperty("nas_identifier", "Now")
                 ELSE <<>>
           x == IF "8021x" \in akms THEN Controller!Hostapd!SetProperty("ieee8021x", "Defer")
                ELSE <<>>
           keys == Controller!Hostapd!SetProperty("wpa_key_mgmt", "Now")
<1>1. /\ Plain(ft) /\ Plain(keys) /\ x \in Seq(SetSteps) /\ Plain(x \o keys)
  <2>1. x \in Seq(SetSteps)
    BY SetOne DEF Properties
  <2>2. Plain(x \o keys)
    BY <2>1, SetThenEnforced DEF Properties
  <2> QED  BY <2>1, <2>2, SetOne, Ends DEF Properties
<1> HIDE DEF ft, x, keys
<1>2. ft \in Seq(PlainSteps) /\ keys \in Seq(PlainSteps) /\ x \in Seq(PlainSteps)
  BY <1>1, SeqMonotonic DEF Plain, PlainSteps
<1>3. (ft \o x) \o keys = ft \o (x \o keys)
  BY <1>2, ConcatAssociative
<1>4. Plain((ft \o x) \o keys)
  BY <1>1, <1>3, PlainConcat
<1>5. Plain(Controller!Hostapd!SetKeyManagement(akms, "Now"))
  BY <1>4, Ends DEF Controller!Hostapd!SetKeyManagement, ft, x, keys
<1> QED  BY <1>5, Ends, PlainConcat DEF Controller!SetAkmSuites

\* SetPairwiseCipherSuites: each protocol is settled by itself.
LEMMA CipherSuitesPlan ==
    ASSUME NEW suites \in Seq([prop : {"wpa_pairwise", "rsn_pairwise"}, ciphers : BOOLEAN])
    PROVE  Plain(Controller!SetPairwiseCipherSuites(suites))
<1> DEFINE each(i) ==
        IF i \notin DOMAIN suites THEN <<>>
        ELSE IF suites[i].ciphers THEN Controller!Hostapd!SetProperty(suites[i].prop, "Now")
             ELSE Controller!Hostapd!Throw
<1>1. ASSUME NEW i \in 1 .. 3
      PROVE  Plain(each(i))
  <2>1. CASE i \in DOMAIN suites
    <3>1. suites[i].prop \in {"wpa_pairwise", "rsn_pairwise"}
      <4> DEFINE S == [prop : {"wpa_pairwise", "rsn_pairwise"}, ciphers : BOOLEAN]
      <4>1. suites \in Seq(S) /\ \A x \in S : x.prop \in {"wpa_pairwise", "rsn_pairwise"}
        OBVIOUS
      <4> HIDE DEF S
      <4>2. suites[i] \in S
        BY <2>1, <4>1
      <4> QED  BY <4>1, <4>2
    <3>2. suites[i].prop \in Properties \ {"sae_password"}
      BY <3>1 DEF Properties
    <3> QED  BY <2>1, <3>2, SetOne, Ends
  <2> QED  BY <2>1, Ends
<1>2. Controller!Hostapd!SetPairwiseCipherSuites(suites, "Now") = (each(1) \o each(2)) \o each(3)
  BY DEF Controller!Hostapd!SetPairwiseCipherSuites
<1> HIDE DEF each
<1>3. Plain((each(1) \o each(2)) \o each(3))
  BY <1>1, PlainConcat
<1> QED  BY <1>2, <1>3, Ends, PlainConcat DEF Controller!SetPairwiseCipherSuites

\* The setters of one property.
LEMMA ShortSetters ==
    /\ Plain(Controller!SetSsid) /\ Plain(Controller!SetNetworkBridge)
    /\ \A known : Plain(Controller!SetAuthenticationAlgorithms(known))
<1>1. {"ssid", "bridge", "auth_algs"} \subseteq Properties \ {"sae_password"}
  BY DEF Properties
<1>2. /\ Plain(Controller!Hostapd!SetProperty("ssid", "Now"))
      /\ Plain(Controller!Hostapd!SetProperty("bridge", "Now"))
      /\ Plain(Controller!Hostapd!SetProperty("auth_algs", "Now"))
  BY <1>1, SetOne
<1> QED  BY <1>2, Ends, PlainConcat
        DEF Controller!SetSsid, Controller!SetNetworkBridge,
            Controller!SetAuthenticationAlgorithms, Controller!Hostapd!SetBridgeInterface,
            Controller!Hostapd!SetAuthenticationAlgorithms

\* What holds no passwords replaces none of them.
LEMMA PlainWork == \A s : Plain(s) => Work(s) /\ NoPasswords(s)
<1> SUFFICES ASSUME NEW s, Plain(s) PROVE Work(s) /\ NoPasswords(s)
  OBVIOUS
<1>1. s \in Seq(PlainSteps) /\ Settles(s)
  BY DEF Plain
<1>2. ASSUME NEW i \in DOMAIN s
      PROVE  s[i].cmd \notin {"clear", "add"}
  <2>1. s[i] \in PlainSteps
    BY <1>1
  <2> QED  BY <2>1 DEF PlainSteps, SetSteps, EndSteps
<1>3. s \in Seq(WorkSteps)
  BY <1>1, SeqMonotonic DEF PlainSteps, WorkSteps
<1> QED  BY <1>1, <1>2, <1>3
        DEF Work, NoPasswords, ReplacesPasswords, ClearsFirst, ClearsOnce, Replaces

\* SetAuthenticationData: the passwords are cleared, all added, and reloaded.
LEMMA PasswordsPlan ==
    ASSUME NEW n \in Nat, n > 0
    PROVE  Work(Controller!Hostapd!SetSaePasswords(n, "Now"))
<1> DEFINE clear == [cmd |-> "clear", prop |-> "sae_password", arg |-> 0]
           e(k) == [cmd |-> "add", prop |-> "sae_password", arg |-> k]
           adds == [k \in 1 .. n |-> e(k)]
           r == [cmd |-> "reload", prop |-> "", arg |-> 0]
           S == PasswordSteps \cup {r}
           s == (<<clear>> \o adds) \o <<r>>
<1>1. /\ clear \in PasswordSteps /\ (\A k \in 1 .. n : e(k) \in PasswordSteps)
      /\ r \in EndSteps /\ r.cmd = "reload"
  BY DEF PasswordSteps, EndSteps
<1>2. \A x \in S : x.cmd # "read"
  <2> SUFFICES ASSUME NEW x \in S PROVE x.cmd # "read"
    OBVIOUS
  <2>1. CASE x \in PasswordSteps
    BY <2>1 DEF PasswordSteps
  <2>2. CASE x = r
    BY <2>2
  <2> QED  BY <2>1, <2>2
<1>3. Controller!Hostapd!SetSaePasswords(n, "Now") = s
  BY DEF Controller!Hostapd!SetSaePasswords, Controller!Hostapd!Enforce,
         Controller!Hostapd!Reload, Controller!Hostapd!Command, Controller!Hostapd!Step
<1>4. clear.cmd = "clear" /\ \A k \in 1 .. n : e(k).cmd = "add"
  OBVIOUS
<1> HIDE DEF clear, e, r, PasswordSteps, EndSteps
<1>5. <<clear>> \in Seq(PasswordSteps) /\ adds \in Seq(PasswordSteps) /\ Len(adds) = n
  BY <1>1
<1>6. /\ <<clear>> \o adds \in Seq(PasswordSteps) /\ Len(<<clear>> \o adds) = n + 1
      /\ (<<clear>> \o adds)[1] = clear
      /\ \A i \in 2 .. n + 1 : (<<clear>> \o adds)[i] = e(i - 1)
  <2>1. Len(<<clear>>) = 1 /\ <<clear>>[1] = clear
    OBVIOUS
  <2> HIDE DEF adds
  <2>2. /\ <<clear>> \o adds \in Seq(PasswordSteps) /\ Len(<<clear>> \o adds) = n + 1
        /\ \A i \in 1 .. n + 1 :
               (<<clear>> \o adds)[i] = IF i <= 1 THEN <<clear>>[i] ELSE adds[i - 1]
    BY <1>5, <2>1, ConcatProperties
  <2>3. \A i \in 2 .. n + 1 : adds[i - 1] = e(i - 1)
    BY DEF adds
  <2> QED  BY <2>1, <2>2, <2>3
<1>7. s \in Seq(S) /\ Settles(s)
  <2>1. <<clear>> \o adds \in Seq(S)
    BY <1>6, SeqMonotonic
  <2> HIDE DEF S, adds
  <2> QED  BY <1>1, <1>2, <2>1, ReloadSettles DEF S
<1>8. s \in Seq(WorkSteps)
  BY <1>1, <1>7, SeqMonotonic DEF WorkSteps
<1>9. /\ DOMAIN s = 1 .. n + 2 /\ s[1] = clear /\ s[n + 2] = r
      /\ \A i \in 2 .. n + 1 : s[i] = e(i - 1)
  <2> DEFINE q == <<clear>> \o adds
  <2>1. <<r>> \in Seq(S) /\ Len(<<r>>) = 1 /\ <<r>>[1] = r /\ q \in Seq(S)
    BY <1>6, SeqMonotonic
  <2> HIDE DEF q, adds, S
  <2>2. /\ Len(q \o <<r>>) = Len(q) + 1
        /\ \A i \in 1 .. Len(q) + 1 :
               (q \o <<r>>)[i] = IF i <= Len(q) THEN q[i] ELSE <<r>>[i - Len(q)]
    BY <2>1, ConcatProperties
  <2>3. Len(q) = n + 1 /\ q[1] = clear /\ \A i \in 2 .. n + 1 : q[i] = e(i - 1)
    BY <1>6 DEF q
  <2>4. DOMAIN s = 1 .. Len(s) /\ s = q \o <<r>>
    BY <1>7 DEF q
  <2> QED  BY <2>1, <2>2, <2>3, <2>4
<1> HIDE DEF s
<1>10. \A i \in DOMAIN s : /\ s[i].cmd = "clear" => i = 1
                           /\ s[i].cmd = "add" => i > 1
  BY <1>1, <1>4, <1>9
<1>11. s[1].cmd = "clear" /\ s[2].cmd = "add" /\ 2 \in DOMAIN s
  BY <1>4, <1>9
<1>12. ReplacesPasswords(s)
  BY <1>9, <1>10, <1>11 DEF ReplacesPasswords, ClearsFirst, ClearsOnce, Replaces
<1> QED  BY <1>3, <1>7, <1>8, <1>12 DEF Work

\* Passwords are the last that is sent.
LEMMA WorkConcat ==
    ASSUME NEW a, NEW b, Plain(a), Work(b)
    PROVE  Work(a \o b)
BY PlainWork, SettlesConcat, PasswordsConcat DEF Work

\* SetAuthenticationData: the key and the passwords that are given.
LEMMA AuthenticationPlan ==
    ASSUME NEW psk, NEW n \in Nat
    PROVE  Work(Controller!SetAuthenticationData(psk, n))
<1>1. Plain(IF psk THEN Controller!Hostapd!SetPreSharedKey("Now") ELSE <<>>)
  BY SetOne, Ends DEF Controller!Hostapd!SetPreSharedKey, Properties
<1>2. Work(IF n > 0 THEN Controller!Hostapd!SetSaePasswords(n, "Now") ELSE <<>>)
  BY PasswordsPlan, Ends, PlainWork
<1> QED  BY <1>1, <1>2, WorkConcat DEF Controller!SetAuthenticationData

-----------------------------------------------------------------------------
(* The plans of items and of requests                                        *)

\* What a band change sets.
HeldSteps == [cmd : {"set"}, prop : Held, arg : {1}]

\* An item is checked, then applied.
LEMMA ItemParts ==
    ASSUME NEW item, IsItem(item)
    PROVE  \E checks \in Seq(CheckSteps), work \in Seq(WorkSteps) :
               /\ ItemPlan(item) = checks \o work
               /\ IF item.kind = "bands" THEN work \in Seq(HeldSteps) ELSE Work(work)
               /\ item.kind # "data" => NoPasswords(work)
<1> DEFINE Parts(checks, work) ==
        /\ checks \in Seq(CheckSteps) /\ work \in Seq(WorkSteps)
        /\ ItemPlan(item) = checks \o work
        /\ IF item.kind = "bands" THEN work \in Seq(HeldSteps) ELSE Work(work)
        /\ item.kind # "data" => NoPasswords(work)
<1>1. /\ Refuse \in Seq(CheckSteps) /\ \A b \in BOOLEAN : Do("capability", b) \in Seq(CheckSteps)
      /\ Do("controller", 0) \in Seq(CheckSteps) /\ <<>> \in Seq(CheckSteps)
  <2>1. ASSUME NEW x \in CheckSteps
        PROVE  <<x>> \in Seq(CheckSteps)
    OBVIOUS
  <2>2. /\ [cmd |-> "refuse", prop |-> "", arg |-> 0] \in CheckSteps
        /\ [cmd |-> "controller", prop |-> "", arg |-> 0] \in CheckSteps
        /\ \A b \in BOOLEAN : [cmd |-> "capability", prop |-> "", arg |-> b] \in CheckSteps
    BY DEF CheckSteps
  <2> HIDE DEF CheckSteps
  <2>3. <<>> \in Seq(CheckSteps)
    BY EmptySeq
  <2>4. Refuse \in Seq(CheckSteps) /\ Do("controller", 0) \in Seq(CheckSteps)
    BY <2>1, <2>2 DEF Do, Refuse
  <2>5. ASSUME NEW b \in BOOLEAN
        PROVE  Do("capability", b) \in Seq(CheckSteps)
    <3> DEFINE x == [cmd |-> "capability", prop |-> "", arg |-> b]
    <3>1. x \in CheckSteps
      BY <2>2
    <3> HIDE DEF x
    <3>2. <<x>> \in Seq(CheckSteps)
      BY <2>1, <3>1
    <3> QED  BY <3>2 DEF Do, x
  <2> QED  BY <2>3, <2>4, <2>5
<1>2. Plain(<<>>) /\ <<>> \in Seq(HeldSteps) /\ <<>> \in Seq(WorkSteps)
  BY Ends, EmptySeq
<1>3. ASSUME NEW work, Plain(work), item.kind # "bands", NEW checks \in Seq(CheckSteps),
             ItemPlan(item) = checks \o work
      PROVE  Parts(checks, work)
  BY <1>3, PlainWork DEF Work
<1>4. \A s : (Plain(s) \/ Work(s)) => <<>> \o s = s
  BY PlainWork, ConcatEmptySeq DEF Work
<1> HIDE DEF CheckSteps, HeldSteps, WorkSteps
<1>5. CASE ~item.valid
  <2>1. ItemPlan(item) = Refuse \o <<>>
    BY <1>1, <1>5, ConcatEmptySeq DEF ItemPlan
  <2>2. NoPasswords(<<>>) /\ Work(<<>>)
    BY <1>2, PlainWork
  <2>3. Parts(Refuse, <<>>)
    BY <1>1, <1>2, <2>1, <2>2
  <2> QED  BY <2>3
<1>6. CASE item.valid /\ item.kind = "phyType"
  <2>1. ItemPlan(item) = Do("capability", item.supported) \o Controller!SetPhyType(item.type)
    BY <1>6 DEF ItemPlan, SetPhyTypeImpl
  <2>2. item.supported \in BOOLEAN
    BY <1>6 DEF IsItem
  <2> QED  BY <1>1, <1>3, <1>6, <2>1, <2>2, PhyTypePlan
<1>7. CASE item.valid /\ item.kind = "dot1x"
  <2>1. CASE item.complete
    <3>1. ItemPlan(item) = Controller!SetRadiusConfiguration(item.servers)
      BY <1>7, <2>1 DEF ItemPlan, SetAuthenticationDot1xImpl
    <3>2. Plain(ItemPlan(item))
      BY <1>7, <3>1, RadiusPlan DEF IsItem
    <3> QED  BY <1>1, <1>3, <1>4, <1>7, <3>2
  <2>2. CASE ~item.complete
    <3>1. ItemPlan(item) = Refuse \o <<>>
      BY <1>1, <1>7, <2>2, ConcatEmptySeq DEF ItemPlan, SetAuthenticationDot1xImpl
    <3> QED  BY <1>1, <1>2, <1>3, <1>7, <3>1
  <2> QED  BY <2>1, <2>2
<1>8. CASE item.valid /\ item.kind \in {"algorithms", "akmSuites", "ciphers", "ssid", "bridge"}
  <2>1. Plain(ItemPlan(item))
    <3>1. CASE item.kind = "algorithms"
      BY <1>8, <3>1, ShortSetters DEF ItemPlan, SetAuthenticationAlgorithmsImpl
    <3>2. CASE item.kind = "akmSuites"
      BY <1>8, <3>2, AkmSuitesPlan DEF ItemPlan, SetAkmSuitesImpl
    <3>3. CASE item.kind = "ciphers"
      BY <1>8, <3>3, CipherSuitesPlan DEF ItemPlan, SetPairwiseCipherSuitesImpl, IsItem
    <3>4. CASE item.kind = "ssid"
      BY <1>8, <3>4, ShortSetters DEF ItemPlan, SetSsidImpl
    <3>5. CASE item.kind = "bridge"
      BY <1>8, <3>5, ShortSetters DEF ItemPlan, SetNetworkBridgeImpl
    <3> QED  BY <1>8, <3>1, <3>2, <3>3, <3>4, <3>5
  <2> QED  BY <1>1, <1>3, <1>4, <1>8, <2>1
<1>9. CASE item.valid /\ item.kind = "data"
  <2>1. ItemPlan(item) = Controller!SetAuthenticationData(item.psk, item.sae)
    BY <1>9 DEF ItemPlan, SetAuthenticationDataImpl
  <2>2. Work(ItemPlan(item))
    BY <1>9, <2>1, AuthenticationPlan DEF IsItem
  <2>3. Parts(<<>>, ItemPlan(item))
    BY <1>1, <1>4, <1>9, <2>2 DEF Work
  <2> QED  BY <2>3
<1>10. CASE item.valid /\ item.kind = "bands"
  <2> DEFINE w == Controller!SetFrequencyBands(item.sixGHz)
  <2>1. ItemPlan(item) = Do("capability", item.supported) \o w
    BY <1>10 DEF ItemPlan, SetFrequencyBandsImpl
  <2>2. item.supported \in BOOLEAN
    BY <1>10 DEF IsItem
  <2>3. ASSUME NEW p \in Held
        PROVE  Controller!Hostapd!SetProperty(p, "Defer") \in Seq(HeldSteps)
    <3> DEFINE x == [cmd |-> "set", prop |-> p, arg |-> 1]
    <3>1. x \in HeldSteps
      BY DEF HeldSteps
    <3> HIDE DEF x
    <3>2. <<x>> \in Seq(HeldSteps)
      BY <3>1
    <3>3. <<x>> \o <<>> = <<x>>
      BY <3>2, ConcatEmptySeq
    <3> QED  BY <3>2, <3>3
            DEF Controller!Hostapd!SetProperty, Controller!Hostapd!Enforce,
                Controller!Hostapd!Command, Controller!Hostapd!Step, x
  <2>4. w \in Seq(HeldSteps)
    BY <1>2, <2>3, ConcatProperties DEF Controller!SetFrequencyBands, Held
  <2> HIDE DEF w
  <2>5. \A x \in HeldSteps : x \in WorkSteps /\ x.cmd \notin {"clear", "add"}
    BY DEF HeldSteps, Held, WorkSteps, SetSteps, Properties
  <2>6. w \in Seq(WorkSteps) /\ NoPasswords(w)
    BY <2>4, <2>5, SeqMonotonic DEF NoPasswords
  <2>7. Parts(Do("capability", item.supported), w)
    BY <1>1, <1>10, <2>1, <2>2, <2>4, <2>6
  <2> QED  BY <2>7
<1> QED  BY <1>5, <1>6, <1>7, <1>8, <1>9, <1>10 DEF IsItem

\* What is settled, checks included, and what needs no reload.
Body(s) == s \in Seq(BodySteps) /\ Settles(s) /\ ReplacesPasswords(s)

LooseSteps == CheckSteps \cup HeldSteps

\* What needs no reload and replaces nothing.
LEMMA LooseStep ==
    /\ \A x \in CheckSteps : x.cmd \in Checks /\ x.cmd \notin Changes
    /\ \A x \in HeldSteps : x.cmd = "set" /\ x.prop \in Held
    /\ HeldSteps \subseteq SetSteps
    /\ \A s \in Seq(CheckSteps) : Body(s) /\ NoPasswords(s)
<1>1. \A x \in CheckSteps : x.cmd \in Checks /\ x.cmd \notin Changes
  BY DEF CheckSteps, Checks, Changes
<1>2. \A x \in HeldSteps : x.cmd = "set" /\ x.prop \in Held
  BY DEF HeldSteps
<1>3. HeldSteps \subseteq SetSteps
  BY DEF HeldSteps, SetSteps, Held, Properties
<1>4. ASSUME NEW s \in Seq(CheckSteps)
      PROVE  Body(s) /\ NoPasswords(s)
  <2>1. \A i \in DOMAIN s : s[i].cmd \notin Changes
    BY <1>1
  <2>2. s \in Seq(BodySteps)
    BY SeqMonotonic DEF BodySteps
  <2> QED  BY <2>1, <2>2
          DEF Body, Settles, NoPasswords, ReplacesPasswords, ClearsFirst, ClearsOnce, Replaces,
              Changes
<1> QED  BY <1>1, <1>2, <1>3, <1>4

\* Sequences without passwords before and behind one that may hold some.
LEMMA BodyConcat ==
    ASSUME NEW a, NEW b, Body(a), Body(b), NoPasswords(a) \/ NoPasswords(b)
    PROVE  Body(a \o b) /\ (NoPasswords(a) /\ NoPasswords(b) => NoPasswords(a \o b))
BY SettlesConcat, PasswordsConcat DEF Body

\* What is present of a request's items.
LEMMA AppliedParts ==
    ASSUME NEW items, \A i \in items : IsItem(i), NEW kind
    PROVE  /\ kind # "bands" => Body(Applied(items, kind))
           /\ kind \notin {"bands", "data"} => NoPasswords(Applied(items, kind))
           /\ kind = "bands" => Applied(items, kind) \in Seq(LooseSteps)
<1> DEFINE those == {i \in items : i.kind = kind}
           item == CHOOSE i \in those : TRUE
<1>1. CASE those = {}
  <2>1. Applied(items, kind) = <<>> /\ <<>> \in Seq(CheckSteps)
    BY <1>1, EmptySeq DEF Applied
  <2>2. Applied(items, kind) \in Seq(LooseSteps)
    BY <2>1, EmptySeq
  <2> QED  BY <2>1, <2>2, LooseStep
<1>2. CASE those # {}
  <2>1. item \in those
    BY <1>2
  <2>2. IsItem(item) /\ item.kind = kind /\ Applied(items, kind) = ItemPlan(item)
    BY <1>2, <2>1 DEF Applied
  <2> HIDE DEF item
  <2>3. PICK checks \in Seq(CheckSteps), work \in Seq(WorkSteps) :
            /\ ItemPlan(item) = checks \o work
            /\ IF item.kind = "bands" THEN work \in Seq(HeldSteps) ELSE Work(work)
            /\ item.kind # "data" => NoPasswords(work)
    BY <2>2, ItemParts
  <2>4. Body(checks) /\ NoPasswords(checks)
    BY LooseStep
  <2>5. CASE kind # "bands"
    <3>1. Body(work)
      BY <2>2, <2>3, <2>5, SeqMonotonic DEF Work, Body, BodySteps
    <3> QED  BY <2>2, <2>3, <2>4, <2>5, <3>1, BodyConcat
  <2>6. CASE kind = "bands"
    <3>1. checks \in Seq(LooseSteps) /\ work \in Seq(LooseSteps)
      BY <2>2, <2>3, <2>6, SeqMonotonic DEF LooseSteps
    <3> QED  BY <2>2, <2>3, <2>6, <3>1, ConcatProperties
  <2> QED  BY <2>5, <2>6
<1> QED  BY <1>1, <1>2

\* All that is done of an Enable before its bands.
LEMMA ConfigureParts ==
    ASSUME NEW items, \A i \in items : IsItem(i)
    PROVE  \E body \in Seq(BodySteps), loose \in Seq(LooseSteps) :
               Body(body) /\ Configure(items) = body \o loose
<1> DEFINE a(kind) == Applied(items, kind)
           one == a("phyType") \o a("dot1x") \o a("algorithms")
           two == one \o a("data")
           body == two \o a("akmSuites") \o a("ciphers") \o a("ssid")
<1>1. /\ \A kind \in {"phyType", "dot1x", "algorithms", "akmSuites", "ciphers", "ssid"} :
             Body(a(kind)) /\ NoPasswords(a(kind))
      /\ Body(a("data")) /\ a("bands") \in Seq(LooseSteps)
  BY AppliedParts
<1>2. Configure(items) = body \o a("bands")
  BY DEF Configure
<1> HIDE DEF a
<1>3. Body(one) /\ NoPasswords(one)
  BY <1>1, BodyConcat
<1> HIDE DEF one
<1>4. Body(two)
  BY <1>1, <1>3, BodyConcat
<1> HIDE DEF two
<1>5. Body(body)
  BY <1>1, <1>4, BodyConcat
<1>6. body \in Seq(BodySteps)
  BY <1>5 DEF Body
<1> HIDE DEF body
<1> QED  BY <1>1, <1>2, <1>5, <1>6

\* A request for one item checks and then works.
LEMMA ChecksThenWork ==
    ASSUME NEW c \in Seq(CheckSteps), NEW w \in Seq(WorkSteps)
    PROVE  ChecksFirst(c \o w)
<1>1. /\ \A x \in CheckSteps : x.cmd \notin Changes
      /\ \A x \in WorkSteps : x.cmd \notin Checks
  BY LooseStep DEF WorkSteps, SetSteps, PasswordSteps, EndSteps, Checks
<1> HIDE DEF CheckSteps, WorkSteps
<1>2. c \in Seq(BodySteps) /\ w \in Seq(BodySteps)
  BY SeqMonotonic DEF BodySteps
<1>3. /\ Len(c) \in Nat /\ DOMAIN (c \o w) = 1 .. Len(c) + Len(w) /\ Len(w) \in Nat
      /\ \A i \in 1 .. Len(c) + Len(w) :
             (c \o w)[i] = IF i <= Len(c) THEN c[i] ELSE w[i - Len(c)]
  BY <1>2, ConcatProperties
<1>4. ASSUME NEW i \in 1 .. Len(c) + Len(w), i > Len(c)
      PROVE  (c \o w)[i].cmd \notin Checks
  BY <1>1, <1>3, <1>4
<1>5. ASSUME NEW i \in 1 .. Len(c) + Len(w), i <= Len(c)
      PROVE  (c \o w)[i].cmd \notin Changes
  BY <1>1, <1>3, <1>5
<1> QED  BY <1>3, <1>4, <1>5 DEF ChecksFirst

\* A request checks and configures, then applies what needs no reload, and may
\* at last look at the state and switch it.
IsPlan(r, body, loose, last) ==
    /\ Body(body) /\ Len(body) > 0 /\ loose \in Seq(LooseSteps)
    /\ Plan(r) = (body \o loose) \o last
    /\ r.api = "Set" => last = <<>> /\ ChecksFirst(body \o loose)
    /\ r.api = "Enable" => last = SetOperationalState("ENABLED")
    /\ r.api = "Disable" => /\ last = SetOperationalState("DISABLED")
                            /\ body \in Seq(CheckSteps) /\ loose = <<>>

\* Every plan is of those parts.
LEMMA PlanParts ==
    ASSUME NEW t \in Threads, NEW r \in Requests[t]
    PROVE  \E body, loose, last : IsPlan(r, body, loose, last)
<1> DEFINE begin == Do("controller", 0)
<1>1. /\ begin \in Seq(CheckSteps) /\ Refuse \in Seq(CheckSteps)
      /\ Len(begin) = 1 /\ Len(Refuse) = 1
  <2>1. /\ [cmd |-> "refuse", prop |-> "", arg |-> 0] \in CheckSteps
        /\ [cmd |-> "controller", prop |-> "", arg |-> 0] \in CheckSteps
    BY DEF CheckSteps
  <2> HIDE DEF CheckSteps
  <2>2. ASSUME NEW x \in CheckSteps
        PROVE  <<x>> \in Seq(CheckSteps) /\ Len(<<x>>) = 1
    OBVIOUS
  <2> QED  BY <2>1, <2>2 DEF Do, Refuse
<1>2. Body(begin) /\ Body(Refuse) /\ NoPasswords(begin) /\ <<>> \in Seq(LooseSteps)
  BY <1>1, LooseStep, EmptySeq
<1>3. \A s : Body(s) => (s \o <<>>) = s /\ (s \o <<>>) \o <<>> = s
  BY ConcatEmptySeq DEF Body
<1>4. \A s : Body(s) => Len(s) \in Nat /\ Len(begin \o s) > 0
  BY <1>1, <1>2, ConcatProperties DEF Body
<1> HIDE DEF begin
<1>5. CASE r.api = "Enable"
  <2>1. \A i \in r.items : IsItem(i)
    BY <1>5, RequestAssumption
  <2>2. PICK body \in Seq(BodySteps), loose \in Seq(LooseSteps) :
            Body(body) /\ Configure(r.items) = body \o loose
    BY <2>1, ConfigureParts
  <2>3. Body(begin \o body)
    BY <1>2, <2>2, BodyConcat
  <2>4. begin \o (body \o loose) = (begin \o body) \o loose
    <3>1. loose \in Seq(BodySteps)
      BY SeqMonotonic, LooseStep DEF LooseSteps, BodySteps, WorkSteps
    <3>2. begin \in Seq(BodySteps)
      BY <1>2 DEF Body
    <3> QED  BY <3>1, <3>2, ConcatAssociative
  <2>5. Plan(r) = ((begin \o body) \o loose) \o SetOperationalState("ENABLED")
    BY <1>5, <2>2, <2>4 DEF Plan, EnablePlan, begin
  <2>6. IsPlan(r, begin \o body, loose, SetOperationalState("ENABLED"))
    BY <1>4, <1>5, <2>2, <2>3, <2>5 DEF IsPlan
  <2> QED  BY <2>6
<1>6. CASE r.api = "Disable"
  <2>1. Plan(r) = (begin \o <<>>) \o SetOperationalState("DISABLED")
    BY <1>2, <1>3, <1>6 DEF Plan, begin
  <2>2. IsPlan(r, begin, <<>>, SetOperationalState("DISABLED"))
    BY <1>1, <1>2, <1>6, <2>1 DEF IsPlan
  <2> QED  BY <2>2
<1>7. CASE r.api = "Set" /\ r.item.valid
  <2>1. IsItem(r.item)
    BY <1>7, RequestAssumption
  <2>2. Plan(r) = begin \o ItemPlan(r.item)
    BY <1>7 DEF Plan, begin
  <2>3. PICK checks \in Seq(CheckSteps), work \in Seq(WorkSteps) :
            /\ ItemPlan(r.item) = checks \o work
            /\ IF r.item.kind = "bands" THEN work \in Seq(HeldSteps) ELSE Work(work)
            /\ r.item.kind # "data" => NoPasswords(work)
    BY <2>1, ItemParts
  <2>4. Body(begin \o checks) /\ NoPasswords(begin \o checks) /\ Body(checks) /\ NoPasswords(checks)
    BY <1>2, LooseStep, BodyConcat
  <2>5. begin \o (checks \o work) = (begin \o checks) \o work
    <3>1. work \in Seq(BodySteps)
      BY SeqMonotonic DEF BodySteps
    <3> QED  BY <1>2, <2>4, <3>1, ConcatAssociative, SMTT(60) DEF Body
  <2>6. /\ ChecksFirst((begin \o checks) \o work)
        /\ ((begin \o checks) \o work) \o <<>> = (begin \o checks) \o work
    <3>1. begin \o checks \in Seq(CheckSteps)
      BY <1>1, ConcatProperties
    <3>2. (begin \o checks) \o work \in Seq(BodySteps)
      BY <2>4, SeqMonotonic, ConcatProperties DEF Body, BodySteps
    <3> QED  BY <3>1, <3>2, ChecksThenWork, ConcatEmptySeq
  <2>7. CASE r.item.kind = "bands"
    <3>1. work \in Seq(LooseSteps)
      BY <2>3, <2>7, SeqMonotonic DEF LooseSteps
    <3>2. IsPlan(r, begin \o checks, work, <<>>)
      BY <1>4, <1>7, <2>2, <2>3, <2>4, <2>5, <2>6, <3>1 DEF IsPlan
    <3> QED  BY <3>2
  <2>8. CASE r.item.kind # "bands"
    <3>1. Body(work)
      BY <2>3, <2>8, SeqMonotonic DEF Work, Body, BodySteps
    <3>2. Body((begin \o checks) \o work)
      BY <2>4, <3>1, BodyConcat
    <3>3. Len((begin \o checks) \o work) > 0
      BY <1>4, <2>3, <2>4, <2>5, <3>1, BodyConcat
    <3>4. IsPlan(r, (begin \o checks) \o work, <<>>, <<>>)
      BY <1>2, <1>3, <1>7, <2>2, <2>3, <2>5, <2>6, <3>2, <3>3 DEF IsPlan
    <3> QED  BY <3>4
  <2> QED  BY <2>7, <2>8
<1>8. CASE r.api = "Set" /\ ~r.item.valid
  <2>1. Plan(r) = (Refuse \o <<>>) \o <<>>
    BY <1>2, <1>3, <1>8 DEF Plan
  <2>2. ChecksFirst(Refuse \o <<>>)
    BY <1>1, ChecksThenWork, EmptySeq
  <2>3. IsPlan(r, Refuse, <<>>, <<>>)
    BY <2>2, <1>1, <1>2, <1>8, <2>1 DEF IsPlan
  <2> QED  BY <2>3
<1> QED  BY <1>5, <1>6, <1>7, <1>8, RequestAssumption

-----------------------------------------------------------------------------
(* The order of a plan                                                       *)

\* Looking at the state and switching it is two steps.
LEMMA StateSwitch ==
    ASSUME NEW target \in {"ENABLED", "DISABLED"}
    PROVE  LET last == SetOperationalState(target) IN
           /\ last \in Seq(StateSteps) /\ Len(last) = 2
           /\ last[1].cmd = "query" /\ last[1].arg = target /\ last[2].cmd = "switch"
<1> DEFINE q == [cmd |-> "query", prop |-> "", arg |-> target]
           w == [cmd |-> "switch", prop |-> "", arg |-> target]
<1>1. q \in StateSteps /\ w \in StateSteps
  BY DEF StateSteps
<1>2. q.cmd = "query" /\ q.arg = target /\ w.cmd = "switch"
  OBVIOUS
<1>3. SetOperationalState(target) = <<q>> \o <<w>>
  BY DEF SetOperationalState, Do
<1> HIDE DEF q, w, StateSteps
<1>4. /\ <<q>> \in Seq(StateSteps) /\ <<w>> \in Seq(StateSteps) /\ Len(<<q>>) = 1 /\ Len(<<w>>) = 1
      /\ <<q>>[1] = q /\ <<w>>[1] = w
  BY <1>1
<1>5. /\ <<q>> \o <<w>> \in Seq(StateSteps) /\ Len(<<q>> \o <<w>>) = 2
      /\ (<<q>> \o <<w>>)[1] = q /\ (<<q>> \o <<w>>)[2] = w
  BY <1>4, ConcatProperties
<1> QED  BY <1>2, <1>3, <1>5

\* WifiAccessPointEnable, Disable and Set...: whatever a request holds, the checks
\* of a request for one item come before its changes, passwords are cleared before
\* they are added, a change is reloaded before it is read back, every one that
\* needs a reload gets one, and the state is switched last of all.
THEOREM PlansInOrder ==
    ASSUME NEW t \in Threads, NEW r \in Requests[t]
    PROVE  /\ Plan(r) \in Seq(Steps) /\ Plan(r) # <<>> /\ ReplacesPasswords(Plan(r))
           /\ r.api = "Set" => ChecksFirst(Plan(r))
           /\ ReadsAfterReload(Plan(r)) /\ ReloadsAfter(Plan(r)) /\ SwitchesLast(Plan(r))
           /\ (\E i \in DOMAIN Plan(r) : Plan(r)[i].cmd \in Changes) => Enables(Plan(r))
<1>1. PICK body, loose, last : IsPlan(r, body, loose, last)
  BY PlanParts
<1> DEFINE main == body \o loose
           s == main \o last
<1>2. /\ body \in Seq(BodySteps) /\ loose \in Seq(LooseSteps) /\ Len(body) > 0
      /\ Settles(body) /\ ReplacesPasswords(body) /\ Plan(r) = s
  BY <1>1 DEF IsPlan, Body
<1>3. /\ last \in Seq(StateSteps)
      /\ last = <<>> \/ \E target \in {"ENABLED", "DISABLED"} : last = SetOperationalState(target)
  BY <1>1, StateSwitch, RequestAssumption, EmptySeq DEF IsPlan
<1>4. /\ \A x \in BodySteps : x.cmd \notin {"query", "switch"}
      /\ \A x \in LooseSteps : /\ x.cmd \notin {"clear", "add", "read"}
                               /\ x.cmd \in Changes => x.prop \in Held
      /\ LooseSteps \subseteq BodySteps /\ BodySteps \subseteq Steps /\ StateSteps \subseteq Steps
      /\ \A x \in StateSteps : x.cmd \notin Changes \cup {"read"} \cup Checks
  <2>1. \A x \in CheckSteps : x.cmd \in Checks
    BY LooseStep
  <2>2. \A x \in WorkSteps : x.cmd \in {"set", "throw", "clear", "add", "reload", "read"}
    BY DEF WorkSteps, SetSteps, PasswordSteps, EndSteps
  <2>3. \A x \in HeldSteps : x.cmd = "set" /\ x.prop \in Held
    BY LooseStep
  <2>4. HeldSteps \subseteq WorkSteps
    BY LooseStep DEF WorkSteps
  <2>5. \A x \in StateSteps : x.cmd \in {"query", "switch", "confirm"}
    BY DEF StateSteps
  <2> HIDE DEF CheckSteps, WorkSteps, HeldSteps, StateSteps
  <2> QED  BY <2>1, <2>2, <2>3, <2>4, <2>5 DEF BodySteps, LooseSteps, Steps, Changes, Checks
<1> HIDE DEF BodySteps, LooseSteps, StateSteps, Steps
<1>5. loose \in Seq(BodySteps) /\ NoPasswords(loose)
  BY <1>2, <1>4, SeqMonotonic DEF NoPasswords
<1>6. /\ main \in Seq(BodySteps) /\ ReplacesPasswords(main)
      /\ Len(body) \in Nat /\ Len(loose) \in Nat /\ Len(main) = Len(body) + Len(loose)
      /\ \A i \in 1 .. Len(main) :
             main[i] = IF i <= Len(body) THEN body[i] ELSE loose[i - Len(body)]
  BY <1>2, <1>5, ConcatProperties, PasswordsConcat
<1> HIDE DEF main
<1>7. main \in Seq(Steps) /\ last \in Seq(Steps) /\ NoPasswords(last)
  BY <1>3, <1>4, <1>6, SeqMonotonic DEF NoPasswords, Changes
<1>8. /\ s \in Seq(Steps) /\ ReplacesPasswords(s) /\ DOMAIN s = 1 .. Len(s)
      /\ Len(main) \in Nat /\ Len(last) \in Nat /\ Len(s) = Len(main) + Len(last)
      /\ \A i \in 1 .. Len(s) : s[i] = IF i <= Len(main) THEN main[i] ELSE last[i - Len(main)]
  <2>1. ReplacesPasswords(s)
    BY <1>6, <1>7, PasswordsConcat
  <2>2. /\ s \in Seq(Steps) /\ Len(s) = Len(main) + Len(last)
        /\ \A i \in 1 .. Len(main) + Len(last) :
               s[i] = IF i <= Len(main) THEN main[i] ELSE last[i - Len(main)]
    BY <1>7, ConcatProperties
  <2> HIDE DEF s
  <2> QED  BY <1>7, <2>1, <2>2
<1>9. s # <<>>
  BY <1>2, <1>6, <1>8
<1> HIDE DEF s
<1>10. ASSUME NEW i \in DOMAIN s, i > Len(main)
       PROVE  /\ s[i] = last[i - Len(main)] /\ s[i] \in StateSteps
              /\ s[i].cmd \notin Changes \cup {"read"} \cup Checks
  <2>1. i - Len(main) \in 1 .. Len(last) /\ s[i] = last[i - Len(main)]
    BY <1>8, <1>10
  <2>2. s[i] \in StateSteps
    BY <1>3, <2>1
  <2> QED  BY <1>4, <2>1, <2>2
<1>11. ASSUME NEW i \in DOMAIN s, i <= Len(main)
       PROVE  s[i].cmd \notin {"query", "switch"} /\ s[i] = main[i]
  BY <1>4, <1>6, <1>8, <1>11
<1>12. ASSUME NEW i \in DOMAIN s, i > Len(body)
       PROVE  s[i].cmd # "read" /\ (s[i].cmd \in Changes => s[i].prop \in Held)
  <2>1. CASE i > Len(main)
    BY <1>10, <2>1
  <2>2. CASE i <= Len(main)
    <3>1. s[i] = loose[i - Len(body)] /\ i - Len(body) \in 1 .. Len(loose)
      BY <1>6, <1>8, <1>12, <2>2
    <3>2. s[i] \in LooseSteps
      BY <1>2, <3>1
    <3> QED  BY <1>4, <3>2
  <2> QED  BY <1>6, <1>8, <2>1, <2>2
<1>13. \A i \in 1 .. Len(body) : i \in DOMAIN s /\ s[i] = body[i]
  BY <1>6, <1>8
<1>14. ASSUME NEW i \in 1 .. Len(body), s[i].cmd \in Changes
       PROVE  \E j \in 1 .. Len(body) :
                  i < j /\ s[j].cmd = "reload" /\ \A k \in i .. j : s[k].cmd # "read"
  <2>1. DOMAIN body = 1 .. Len(body)
    BY <1>2
  <2>2. PICK j \in 1 .. Len(body) :
            i < j /\ body[j].cmd = "reload" /\ \A k \in i .. j : body[k].cmd # "read"
    BY <1>2, <1>13, <1>14, <2>1 DEF Settles
  <2>3. \A k \in i .. j : s[k] = body[k]
    BY <1>6, <1>13
  <2> QED  BY <1>6, <1>13, <2>2, <2>3
<1>15. ReadsAfterReload(s)
  <2> SUFFICES ASSUME NEW i \in DOMAIN s, NEW k \in DOMAIN s,
                      i < k, s[i].cmd \in Changes, s[k].cmd = "read"
               PROVE  \E j \in i .. k : s[j].cmd = "reload"
    BY DEF ReadsAfterReload
  <2>1. k \in 1 .. Len(body) /\ i \in 1 .. Len(body)
    BY <1>6, <1>8, <1>12
  <2>2. PICK j \in 1 .. Len(body) :
            i < j /\ s[j].cmd = "reload" /\ \A n \in i .. j : s[n].cmd # "read"
    BY <1>14, <2>1
  <2>3. j \in i .. k
    BY <1>6, <2>1, <2>2
  <2> QED  BY <2>2, <2>3
<1>16. ReloadsAfter(s)
  <2> SUFFICES ASSUME NEW i \in DOMAIN s, s[i].cmd \in Changes, s[i].prop \notin Held
               PROVE  \E j \in DOMAIN s : i < j /\ s[j].cmd = "reload"
    BY DEF ReloadsAfter
  <2>1. i \in 1 .. Len(body)
    BY <1>6, <1>8, <1>12
  <2> QED  BY <1>13, <1>14, <2>1
<1>17. SwitchesLast(s)
  <2> SUFFICES ASSUME NEW i \in DOMAIN s, s[i].cmd \in {"query", "switch"}
               PROVE  /\ s[i].cmd = "switch" => i = Len(s)
                      /\ s[i].cmd = "query" => i + 1 = Len(s) /\ s[i + 1].cmd = "switch"
    BY DEF SwitchesLast
  <2>1. i > Len(main) /\ i - Len(main) \in 1 .. Len(last)
    BY <1>8, <1>11
  <2>2. PICK target \in {"ENABLED", "DISABLED"} : last = SetOperationalState(target)
    BY <1>3, <1>8, <2>1
  <2>3. Len(last) = 2 /\ last[1].cmd = "query" /\ last[2].cmd = "switch"
    BY <2>2, StateSwitch
  <2>4. s[i] = last[i - Len(main)]
    BY <1>10, <2>1
  <2>5. CASE i = Len(main) + 1
    <3>1. s[i + 1] = last[2] /\ i + 1 = Len(s) /\ s[i] = last[1]
      BY <1>8, <2>3, <2>4, <2>5
    <3> QED  BY <2>3, <3>1
  <2>6. CASE i = Len(main) + 2
    BY <1>8, <2>3, <2>4, <2>6
  <2> QED  BY <1>8, <2>1, <2>3, <2>5, <2>6
<1>18. ASSUME NEW n \in DOMAIN s, s[n].cmd \in Changes
       PROVE  Enables(s)
  <2>1. r.api # "Disable"
    <3>1. SUFFICES ASSUME r.api = "Disable" PROVE FALSE
      OBVIOUS
    <3>2. body \in Seq(CheckSteps) /\ loose = <<>>
      BY <1>1, <3>1 DEF IsPlan
    <3>3. n \in 1 .. Len(body)
      BY <1>6, <1>8, <1>10, <1>18, <3>2
    <3>4. s[n] \in CheckSteps
      BY <1>13, <3>2, <3>3
    <3> QED  BY <1>18, <3>4, LooseStep
  <2>2. CASE r.api = "Set"
    <3>1. last = <<>> /\ ChecksFirst(main)
      BY <1>1, <2>2 DEF IsPlan, main
    <3>2. Len(s) = Len(main) /\ DOMAIN main = 1 .. Len(main) /\ \A i \in DOMAIN s : s[i] = main[i]
      BY <1>6, <1>8, <3>1
    <3>3. s[Len(s)].cmd \notin Checks
      <4>1. CASE n = Len(s)
        BY <1>18, <4>1 DEF Changes, Checks
      <4>2. CASE n < Len(s)
        BY <1>8, <1>18, <3>1, <3>2, <4>2 DEF ChecksFirst
      <4> QED  BY <1>8, <4>1, <4>2
    <3>4. \A i \in DOMAIN s : s[i].cmd # "query"
      BY <1>8, <1>11, <3>2
    <3> QED  BY <3>3, <3>4 DEF Enables
  <2>3. CASE r.api = "Enable"
    <3>1. last = SetOperationalState("ENABLED")
      BY <1>1, <2>3 DEF IsPlan
    <3>2. Len(last) = 2 /\ last[1].arg = "ENABLED" /\ last[2].cmd = "switch"
      BY <3>1, StateSwitch
    <3>3. Len(s) > Len(main) /\ Len(s) \in DOMAIN s
      BY <1>8, <3>2
    <3>4. s[Len(s)].cmd \notin Checks
      BY <1>10, <3>3
    <3>5. ASSUME NEW i \in DOMAIN s, s[i].cmd = "query"
          PROVE  s[i].arg = "ENABLED"
      <4>1. i > Len(main) /\ i + 1 = Len(s)
        BY <1>8, <1>11, <1>17, <3>5 DEF SwitchesLast
      <4>2. s[i] = last[1]
        BY <1>8, <1>10, <3>2, <4>1, SMTT(60)
      <4> QED  BY <3>2, <4>2
    <3> QED  BY <3>4, <3>5 DEF Enables
  <2> QED  BY <2>1, <2>2, <2>3, RequestAssumption
<1>19. r.api = "Set" => ChecksFirst(s)
  <2> SUFFICES ASSUME r.api = "Set" PROVE ChecksFirst(s)
    OBVIOUS
  <2>1. last = <<>> /\ ChecksFirst(main)
    BY <1>1 DEF IsPlan, main
  <2>2. s = main
    BY <1>7, <2>1, ConcatEmptySeq DEF s
  <2> QED  BY <2>1, <2>2
<1> QED  BY <1>2, <1>8, <1>9, <1>15, <1>16, <1>17, <1>18, <1>19

-----------------------------------------------------------------------------
(* What is left of a plan                                                    *)

\* What is changed by one step of a plan, and what a switch is replaced with.
LEMMA StepKinds ==
    ASSUME NEW s \in Steps
    PROVE  /\ s.cmd \in Commands
           /\ s.cmd \in Changes => s.prop \in Properties /\ s.arg \in Nat
           /\ s.cmd \in {"clear", "add"} => s.prop = "sae_password"
           /\ s.cmd = "set" => s.prop # "sae_password" /\ s.arg = 1
           /\ s.cmd = "switch" => [cmd |-> "confirm", prop |-> "", arg |-> s.arg] \in Steps
<1>1. CASE s \in CheckSteps
  BY <1>1 DEF CheckSteps, Commands, Changes
<1>2. CASE s \in SetSteps
  <2>1. CASE s \in [cmd : {"set"}, prop : Properties \ {"sae_password"}, arg : {1}]
    <3>1. /\ s.cmd = "set" /\ s.prop \in Properties /\ s.prop # "sae_password" /\ s.arg = 1
      BY <2>1
    <3> QED  BY <3>1 DEF Commands
  <2>2. CASE s \in [cmd : {"throw"}, prop : {""}, arg : {0}]
    BY <2>2 DEF Commands, Changes
  <2> QED  BY <1>2, <2>1, <2>2 DEF SetSteps
<1>3. CASE s \in PasswordSteps
  BY <1>3 DEF PasswordSteps, Commands, Changes, Properties
<1>4. CASE s \in EndSteps
  BY <1>4 DEF EndSteps, Commands, Changes
<1>5. CASE s \in StateSteps
  <2>1. /\ s.cmd \in {"query", "switch", "confirm"} /\ s.arg \in {"ENABLED", "DISABLED"}
    BY <1>5 DEF StateSteps
  <2>2. [cmd |-> "confirm", prop |-> "", arg |-> s.arg] \in StateSteps
    BY <2>1 DEF StateSteps
  <2>3. StateSteps \subseteq Steps
    BY DEF Steps
  <2> QED  BY <2>1, <2>2, <2>3 DEF Commands, Changes
<1> QED  BY <1>1, <1>2, <1>3, <1>4, <1>5 DEF Steps, BodySteps, WorkSteps

\* What of a plan's order is also that of every rest of it.
Ordered(s) == ReadsAfterReload(s) /\ ReloadsAfter(s) /\ ClearsOnce(s) /\ SwitchesLast(s)

Touches(s, p) == \E i \in DOMAIN s : s[i].cmd \in Changes /\ s[i].prop = p
Opens(s, p) == \E i \in DOMAIN s : s[i].cmd \in {"set", "clear"} /\ s[i].prop = p
Clears(s, p) == \E i \in DOMAIN s : s[i].cmd = "clear" /\ s[i].prop = p
Reloads(s) == \E i \in DOMAIN s : s[i].cmd = "reload"

\* Nothing is read back before a reload.
ReloadFirst(s) ==
    \A i \in DOMAIN s : s[i].cmd = "read" => \E j \in 1 .. i - 1 : s[j].cmd = "reload"

\* A sequence of steps by its first and the others.
LEMMA HeadAndTail ==
    ASSUME NEW s \in Seq(Steps), s # <<>>
    PROVE  /\ Head(s) \in Steps /\ Tail(s) \in Seq(Steps) /\ Len(s) \in Nat \ {0}
           /\ Head(s) = s[1] /\ 1 \in DOMAIN s /\ DOMAIN s = 1 .. Len(s)
           /\ DOMAIN Tail(s) = 1 .. Len(s) - 1 /\ Len(Tail(s)) = Len(s) - 1
           /\ \A i \in DOMAIN Tail(s) : i + 1 \in DOMAIN s /\ Tail(s)[i] = s[i + 1]
           /\ \A i \in DOMAIN s : i = 1 \/ (i - 1 \in DOMAIN Tail(s) /\ Tail(s)[i - 1] = s[i])
<1> HIDE DEF Steps
<1>1. Len(s) \in Nat /\ Len(s) # 0 /\ DOMAIN s = 1 .. Len(s)
  OBVIOUS
<1>2. /\ Head(s) = s[1] /\ Head(s) \in Steps /\ Tail(s) \in Seq(Steps)
      /\ DOMAIN Tail(s) = 1 .. Len(s) - 1 /\ Len(Tail(s)) = Len(s) - 1
      /\ \A i \in DOMAIN Tail(s) : Tail(s)[i] = s[i + 1]
  BY <1>1
<1> QED  BY <1>1, <1>2

\* What a sequence of steps will do, by its first step and the others.
LEMMA WorkOfTail ==
    ASSUME NEW s \in Seq(Steps), s # <<>>, NEW t, NEW p
    PROVE  /\ Touches(s, p) <=>
                  (Head(s).cmd \in Changes /\ Head(s).prop = p) \/ Touches(Tail(s), p)
           /\ Opens(s, p) <=>
                  (Head(s).cmd \in {"set", "clear"} /\ Head(s).prop = p) \/ Opens(Tail(s), p)
           /\ Clears(s, p) <=>
                  (Head(s).cmd = "clear" /\ Head(s).prop = p) \/ Clears(Tail(s), p)
           /\ Reloads(s) <=> Head(s).cmd = "reload" \/ Reloads(Tail(s))
           /\ Assigns(t, s, p) =
                  Assigns(t, Tail(s), p) \cup
                  IF Head(s).cmd \in {"set", "add"} /\ Head(s).prop = p
                  THEN {<<t, Head(s).arg>>} ELSE {}
<1> DEFINE r == Tail(s)
<1>1. /\ Head(s) = s[1] /\ 1 \in DOMAIN s
      /\ \A i \in DOMAIN r : i + 1 \in DOMAIN s /\ r[i] = s[i + 1]
      /\ \A i \in DOMAIN s : i = 1 \/ (i - 1 \in DOMAIN r /\ r[i - 1] = s[i])
  BY HeadAndTail
<1> HIDE DEF r, Steps
<1>2. Touches(s, p) <=> (Head(s).cmd \in Changes /\ Head(s).prop = p) \/ Touches(r, p)
  BY <1>1 DEF Touches
<1>3. Opens(s, p) <=>
          (Head(s).cmd \in {"set", "clear"} /\ Head(s).prop = p) \/ Opens(r, p)
  BY <1>1 DEF Opens
<1>4. Clears(s, p) <=> (Head(s).cmd = "clear" /\ Head(s).prop = p) \/ Clears(r, p)
  BY <1>1 DEF Clears
<1>5. Reloads(s) <=> Head(s).cmd = "reload" \/ Reloads(r)
  BY <1>1 DEF Reloads
<1>6. Range(s) = {Head(s)} \cup Range(r)
  BY <1>1 DEF Range
<1>7. Assigns(t, s, p) =
          Assigns(t, r, p) \cup
          IF Head(s).cmd \in {"set", "add"} /\ Head(s).prop = p
          THEN {<<t, Head(s).arg>>} ELSE {}
  BY <1>6 DEF Assigns
<1> QED  BY <1>2, <1>3, <1>4, <1>5, <1>7 DEF r

\* The rest of an ordered plan.
LEMMA OrderOfTail ==
    ASSUME NEW s \in Seq(Steps), s # <<>>
    PROVE  /\ Ordered(s) => Ordered(Tail(s))
           /\ Enables(s) => Enables(Tail(s))
           /\ ReloadFirst(s) => Head(s).cmd # "read"
           /\ ReloadFirst(s) /\ Head(s).cmd # "reload" => ReloadFirst(Tail(s))
<1> DEFINE r == Tail(s)
<1>1. /\ Head(s) = s[1] /\ 1 \in DOMAIN s /\ DOMAIN s = 1 .. Len(s) /\ Len(s) \in Nat
      /\ DOMAIN r = 1 .. Len(r) /\ Len(r) = Len(s) - 1
      /\ \A i \in DOMAIN r : i + 1 \in DOMAIN s /\ r[i] = s[i + 1]
      /\ \A i \in DOMAIN s : i = 1 \/ (i - 1 \in DOMAIN r /\ r[i - 1] = s[i])
  BY HeadAndTail
<1> HIDE DEF r, Steps
<1>2. ASSUME ReadsAfterReload(s)
      PROVE  ReadsAfterReload(r)
  <2> SUFFICES ASSUME NEW i \in DOMAIN r, NEW k \in DOMAIN r,
                      i < k, r[i].cmd \in Changes, r[k].cmd = "read"
               PROVE  \E j \in i .. k : r[j].cmd = "reload"
    BY DEF ReadsAfterReload
  <2>1. PICK j \in i + 1 .. k + 1 : s[j].cmd = "reload"
    BY <1>1, <1>2 DEF ReadsAfterReload
  <2>2. j - 1 \in i .. k /\ r[j - 1] = s[j]
    BY <1>1
  <2> QED  BY <2>1, <2>2
<1>3. ASSUME ReloadsAfter(s)
      PROVE  ReloadsAfter(r)
  <2> SUFFICES ASSUME NEW i \in DOMAIN r, r[i].cmd \in Changes, r[i].prop \notin Held
               PROVE  \E j \in DOMAIN r : i < j /\ r[j].cmd = "reload"
    BY DEF ReloadsAfter
  <2>1. PICK j \in DOMAIN s : i + 1 < j /\ s[j].cmd = "reload"
    BY <1>1, <1>3 DEF ReloadsAfter
  <2>2. j - 1 \in DOMAIN r /\ i < j - 1 /\ r[j - 1] = s[j]
    BY <1>1, <2>1
  <2> QED  BY <2>1, <2>2
<1>4. ASSUME ClearsOnce(s)
      PROVE  ClearsOnce(r)
  <2> SUFFICES ASSUME NEW i \in DOMAIN r, r[i].cmd = "clear", NEW j \in 1 .. i - 1
               PROVE  r[j].cmd \notin {"clear", "add"}
    BY DEF ClearsOnce
  <2>1. j + 1 \in 1 .. i /\ r[j] = s[j + 1] /\ r[i] = s[i + 1] /\ i + 1 \in DOMAIN s
    BY <1>1
  <2> QED  BY <1>1, <1>4, <2>1 DEF ClearsOnce
<1>5. ASSUME SwitchesLast(s)
      PROVE  SwitchesLast(r)
  <2> SUFFICES ASSUME NEW i \in DOMAIN r
               PROVE  /\ r[i].cmd = "switch" => i = Len(r)
                      /\ r[i].cmd = "query" => i + 1 = Len(r) /\ r[i + 1].cmd = "switch"
    BY DEF SwitchesLast
  <2>1. i + 1 \in DOMAIN s /\ r[i] = s[i + 1]
    BY <1>1
  <2>2. /\ s[i + 1].cmd = "switch" => i + 1 = Len(s)
        /\ s[i + 1].cmd = "query" => (i + 1) + 1 = Len(s) /\ s[(i + 1) + 1].cmd = "switch"
    BY <1>5, <2>1 DEF SwitchesLast
  <2>3. (i + 1) + 1 = Len(s) => i + 1 \in DOMAIN r /\ r[i + 1] = s[(i + 1) + 1]
    BY <1>1
  <2> QED  BY <1>1, <2>1, <2>2, <2>3
<1>6. ASSUME Enables(s)
      PROVE  Enables(r)
  <2>1. r # <<>> => r[Len(r)] = s[Len(s)]
    <3>1. r # <<>> => Len(r) \in DOMAIN r
      BY <1>1, HeadAndTail, EmptySeq DEF r
    <3>2. r # <<>> => r[Len(r)] = s[Len(r) + 1]
      BY <1>1, <3>1
    <3>3. Len(r) + 1 = Len(s)
      BY <1>1
    <3> QED  BY <3>2, <3>3
  <2> QED  BY <1>1, <1>6, <2>1 DEF Enables
<1>7. ReloadFirst(s) => Head(s).cmd # "read"
  BY <1>1 DEF ReloadFirst
<1>8. ASSUME ReloadFirst(s), Head(s).cmd # "reload"
      PROVE  ReloadFirst(r)
  <2> SUFFICES ASSUME NEW i \in DOMAIN r, r[i].cmd = "read"
               PROVE  \E j \in 1 .. i - 1 : r[j].cmd = "reload"
    BY DEF ReloadFirst
  <2>1. PICK j \in 1 .. i : s[j].cmd = "reload"
    BY <1>1, <1>8 DEF ReloadFirst
  <2>2. j # 1 /\ j \in DOMAIN s
    BY <1>1, <1>8, <2>1
  <2>3. j - 1 \in 1 .. i - 1 /\ r[j - 1] = s[j]
    BY <1>1, <2>2
  <2> QED  BY <2>1, <2>3
<1> QED  BY <1>2, <1>3, <1>4, <1>5, <1>6, <1>7, <1>8 DEF Ordered, r

\* What an ordered plan has behind a change, a look at the state or a switch.
LEMMA OrderOfHead ==
    ASSUME NEW s \in Seq(Steps), s # <<>>, Ordered(s), NEW p
    PROVE  /\ Head(s).cmd \in Changes => ReloadFirst(Tail(s))
           /\ Head(s).cmd \in Changes /\ Head(s).prop \notin Held => Reloads(Tail(s))
           /\ Head(s).cmd \in {"clear", "add"} => ~Clears(Tail(s), p)
           /\ Head(s).cmd = "switch" => Len(s) = 1
           /\ Head(s).cmd = "query" => Len(s) = 2 /\ s[2].cmd = "switch"
<1> DEFINE r == Tail(s)
<1>1. /\ Head(s) = s[1] /\ 1 \in DOMAIN s /\ DOMAIN s = 1 .. Len(s) /\ Len(s) \in Nat
      /\ DOMAIN r = 1 .. Len(r) /\ Len(r) = Len(s) - 1
      /\ \A i \in DOMAIN r : i + 1 \in DOMAIN s /\ r[i] = s[i + 1]
      /\ \A i \in DOMAIN s : i = 1 \/ (i - 1 \in DOMAIN r /\ r[i - 1] = s[i])
  BY HeadAndTail
<1> HIDE DEF r, Steps
<1>2. ASSUME Head(s).cmd \in Changes
      PROVE  ReloadFirst(r)
  <2> SUFFICES ASSUME NEW i \in DOMAIN r, r[i].cmd = "read"
               PROVE  \E j \in 1 .. i - 1 : r[j].cmd = "reload"
    BY DEF ReloadFirst
  <2>1. i + 1 \in DOMAIN s /\ s[i + 1].cmd = "read" /\ 1 < i + 1 /\ s[1].cmd \in Changes
    BY <1>1, <1>2
  <2>2. PICK j \in 1 .. i + 1 : s[j].cmd = "reload"
    BY <1>1, <2>1 DEF Ordered, ReadsAfterReload
  <2>3. j # 1 /\ j # i + 1
    BY <1>1, <1>2, <2>2 DEF Changes
  <2>4. j - 1 \in 1 .. i - 1 /\ r[j - 1] = s[j]
    BY <1>1, <2>3, SMTT(60)
  <2> QED  BY <2>2, <2>4
<1>3. ASSUME Head(s).cmd \in Changes, Head(s).prop \notin Held
      PROVE  Reloads(r)
  BY <1>1, <1>3, SMTT(60) DEF Ordered, ReloadsAfter, Reloads
<1>4. ASSUME Head(s).cmd \in {"clear", "add"}
      PROVE  ~Clears(r, p)
  <2> SUFFICES ASSUME NEW i \in DOMAIN r, r[i].cmd = "clear" PROVE FALSE
    BY DEF Clears
  <2>1. 1 \in 1 .. i /\ i + 1 \in DOMAIN s /\ s[i + 1].cmd = "clear"
    BY <1>1
  <2>2. \A j \in 1 .. i : s[j].cmd \notin {"clear", "add"}
    BY <1>1, <2>1 DEF Ordered, ClearsOnce
  <2> QED  BY <1>1, <1>4, <2>1, <2>2
<1>5. Head(s).cmd = "switch" => Len(s) = 1
  BY <1>1 DEF Ordered, SwitchesLast
<1>6. Head(s).cmd = "query" => Len(s) = 2 /\ s[2].cmd = "switch"
  <2>1. Head(s).cmd = "query" => 1 + 1 = Len(s) /\ s[1 + 1].cmd = "switch"
    BY <1>1 DEF Ordered, SwitchesLast
  <2> QED  BY <1>1, <2>1
<1> QED  BY <1>2, <1>3, <1>4, <1>5, <1>6 DEF r

\* Nothing is left to do, or only to ask for hostapd's state.
LEMMA NothingLeft ==
    ASSUME NEW s, s = <<>> \/ \E a : s = Do("confirm", a)
    PROVE  /\ Ordered(s) /\ Enables(s) /\ ReloadFirst(s)
           /\ \A p : ~Touches(s, p) /\ ~Opens(s, p) /\ ~Clears(s, p)
           /\ \A t, p : Assigns(t, s, p) = {}
<1>1. \A i \in DOMAIN s : s[i].cmd = "confirm"
  <2>1. CASE s = <<>>
    BY <2>1
  <2>2. ASSUME NEW a, s = Do("confirm", a)
        PROVE  \A i \in DOMAIN s : s[i].cmd = "confirm"
    <3> DEFINE c == [cmd |-> "confirm", prop |-> "", arg |-> a]
    <3>1. c.cmd = "confirm"
      OBVIOUS
    <3> HIDE DEF c
    <3>2. \A i \in DOMAIN <<c>> : <<c>>[i] = c
      OBVIOUS
    <3>3. s = <<c>>
      BY <2>2 DEF Do, c
    <3> QED  BY <3>1, <3>2, <3>3
  <2> QED  BY <2>1, <2>2
<1>2. s # <<>> => Len(s) \in DOMAIN s
  <2>1. ASSUME NEW a, s = Do("confirm", a)
        PROVE  Len(s) \in DOMAIN s
    <3> DEFINE c == [cmd |-> "confirm", prop |-> "", arg |-> a]
    <3>1. s = <<c>>
      BY <2>1 DEF Do
    <3> HIDE DEF c
    <3> QED  BY <3>1
  <2> QED  BY <2>1
<1>3. Ordered(s)
  BY <1>1 DEF Ordered, ReadsAfterReload, ReloadsAfter, ClearsOnce, SwitchesLast, Changes
<1>4. Enables(s)
  BY <1>1, <1>2 DEF Enables, Checks
<1>5. ReloadFirst(s) /\ \A p : ~Touches(s, p) /\ ~Opens(s, p) /\ ~Clears(s, p)
  BY <1>1 DEF ReloadFirst, Touches, Opens, Clears, Changes
<1>6. ASSUME NEW t, NEW p
      PROVE  Assigns(t, s, p) = {}
  <2>1. \A x \in Range(s) : x.cmd = "confirm"
    BY <1>1 DEF Range
  <2> QED  BY <2>1 DEF Assigns
<1> QED  BY <1>3, <1>4, <1>5, <1>6

\* A property other than the passwords has one value of a thread.
LEMMA SetOnce ==
    ASSUME NEW s \in Seq(Steps), NEW t, NEW p, p # "sae_password"
    PROVE  Assigns(t, s, p) \subseteq {<<t, 1>>} /\ ~Clears(s, p)
<1> HIDE DEF Steps
<1>1. \A i \in DOMAIN s : s[i] \in Steps
  OBVIOUS
<1>2. ASSUME NEW x \in Range(s), x.cmd \in {"set", "add"}, x.prop = p
      PROVE  x.arg = 1
  <2>1. x \in Steps
    BY <1>1, <1>2 DEF Range
  <2> QED  BY <1>2, <2>1, StepKinds
<1>3. ASSUME NEW i \in DOMAIN s, s[i].cmd = "clear"
      PROVE  s[i].prop # p
  BY <1>1, <1>3, StepKinds
<1> QED  BY <1>2, <1>3 DEF Assigns, Clears

\* With a look at the state, a plan has nothing left to set.
LEMMA StateAtEnd ==
    ASSUME NEW s \in Seq(Steps), s # <<>>, Ordered(s), Head(s).cmd \in {"query", "switch"},
           NEW t, NEW p
    PROVE  ~Opens(s, p) /\ ~Reloads(s) /\ Assigns(t, s, p) = {}
<1>1. DOMAIN s = 1 .. Len(s) /\ Head(s) = s[1] /\ Len(s) \in Nat
  BY HeadAndTail
<1> HIDE DEF Steps
<1>2. Len(s) = 1 \/ (Len(s) = 2 /\ s[2].cmd = "switch")
  BY OrderOfHead
<1>3. \A i \in DOMAIN s : s[i].cmd \in {"query", "switch"}
  BY <1>1, <1>2
<1>4. \A x \in Range(s) : x.cmd \in {"query", "switch"}
  BY <1>3 DEF Range
<1> QED  BY <1>3, <1>4 DEF Opens, Reloads, Assigns

\* The rest of a plan has the order of the plan.
LEMMA RestInOrder ==
    ASSUME NEW s \in Seq(Steps), s # <<>>
    PROVE  /\ Head(s) \in Steps /\ Tail(s) \in Seq(Steps)
           /\ Tail(s) = <<>> <=> Len(s) = 1
           /\ ChecksFirst(s) => ChecksFirst(Tail(s))
           /\ ChecksFirst(s) /\ Head(s).cmd \in Changes =>
                  \A i \in DOMAIN Tail(s) : Tail(s)[i].cmd \notin Checks
           /\ ClearsFirst(s) => ClearsFirst(Tail(s)) \/ Head(s).cmd = "clear"
           /\ ClearsFirst(s) => Head(s).cmd # "add"
<1> HIDE DEF Steps
<1>1. /\ Head(s) = s[1] /\ Head(s) \in Steps /\ Tail(s) \in Seq(Steps)
      /\ Len(s) \in Nat \ {0} /\ DOMAIN s = 1 .. Len(s)
      /\ DOMAIN Tail(s) = 1 .. Len(s) - 1 /\ Len(Tail(s)) = Len(s) - 1
      /\ \A i \in DOMAIN Tail(s) : Tail(s)[i] = s[i + 1]
  BY HeadAndTail
<1>2. Tail(s) = <<>> <=> Len(s) = 1
  BY <1>1, EmptySeq, SMTT(60)
<1>3. ChecksFirst(s) => ChecksFirst(Tail(s))
  BY <1>1 DEF ChecksFirst
<1>4. ASSUME ChecksFirst(s), Head(s).cmd \in Changes, NEW i \in DOMAIN Tail(s)
      PROVE  Tail(s)[i].cmd \notin Checks
  BY <1>1, <1>4 DEF ChecksFirst
<1>5. ASSUME ClearsFirst(s), Head(s).cmd # "clear"
      PROVE  ClearsFirst(Tail(s))
  <2> SUFFICES ASSUME NEW i \in DOMAIN Tail(s), Tail(s)[i].cmd = "add"
               PROVE  \E j \in 1 .. i - 1 : Tail(s)[j].cmd = "clear"
    BY DEF ClearsFirst
  <2>1. PICK j \in 1 .. i : s[j].cmd = "clear"
    BY <1>1, <1>5 DEF ClearsFirst
  <2>2. j # 1
    BY <1>1, <1>5, <2>1
  <2>3. j - 1 \in 1 .. i - 1 /\ Tail(s)[j - 1] = s[j]
    BY <1>1, <2>2
  <2> QED  BY <2>1, <2>3
<1>6. ClearsFirst(s) => Head(s).cmd # "add"
  BY <1>1 DEF ClearsFirst
<1>7. ClearsFirst(s) => ClearsFirst(Tail(s)) \/ Head(s).cmd = "clear"
  BY <1>5
<1>8. ChecksFirst(s) /\ Head(s).cmd \in Changes =>
          \A i \in DOMAIN Tail(s) : Tail(s)[i].cmd \notin Checks
  BY <1>4
<1> QED  BY <1>1, <1>3, <1>6, <1>2, <1>7, <1>8

\* Nothing is left to do, or only to ask for hostapd's state.
LEMMA ShortPlans ==
    /\ ClearsFirst(<<>>) /\ ChecksFirst(<<>>)
    /\ \A a : ClearsFirst(Do("confirm", a)) /\ ChecksFirst(Do("confirm", a))
<1>1. ClearsFirst(<<>>) /\ ChecksFirst(<<>>)
  BY DEF ClearsFirst, ChecksFirst
<1>2. ASSUME NEW a
      PROVE  ClearsFirst(Do("confirm", a)) /\ ChecksFirst(Do("confirm", a))
  <2> DEFINE c == [cmd |-> "confirm", prop |-> "", arg |-> a]
  <2>1. DOMAIN <<c>> = 1 .. 1 /\ <<c>>[1] = c
    OBVIOUS
  <2>2. c.cmd = "confirm"
    OBVIOUS
  <2> HIDE DEF c
  <2>3. ClearsFirst(<<c>>) /\ ChecksFirst(<<c>>)
    BY <2>1, <2>2 DEF ClearsFirst, ChecksFirst, Changes
  <2> QED  BY <2>3 DEF Do, c
<1> QED  BY <1>1, <1>2

-----------------------------------------------------------------------------
(* Requests of several threads. *)

Values == {FileValue} \cup (Threads \X Nat)

AllRequests == UNION {Requests[t] : t \in Threads}

Rejections == {"InvalidParameter", "OperationNotSupported", "AccessPointInvalid"}

Types ==
    /\ up \in BOOLEAN /\ epoch \in 1 .. MaxRestarts + 1
    /\ state \in {"DISABLED", "STARTING", "ENABLED"}
    /\ staged \in [Properties -> SUBSET Values]
    /\ running \in [Properties -> SUBSET Values]
    /\ aborted \in BOOLEAN
    /\ request \in [Threads -> AllRequests \cup {NoRequest}]
    /\ \A t \in Threads : request[t] \in Requests[t] \cup {NoRequest}
    /\ plan \in [Threads -> Seq(Steps)]
    /\ conn \in [Threads -> 0 .. epoch]
    /\ code \in [Threads -> Codes]
    /\ \A t \in Threads : plan[t] # <<>> <=> code[t] = "running"

\* Thread t has cleared the passwords, and while hostapd runs that it has
\* cleared them of, the file's are not back.
Cleared(t) ==
    conn[t] # 0 /\ (conn[t] = epoch => FileValue \notin staged["sae_password"])

PasswordsInv ==
    /\ FileValue \in staged["sae_password"] => staged["sae_password"] = {FileValue}
    /\ OldPasswordsGone
    /\ \A t \in Threads : ClearsFirst(plan[t]) \/ Cleared(t)

Traceless(t) == \A p \in Properties : \A n \in Nat : <<t, n>> \notin staged[p]

\* Either nothing is changed yet, or nothing is checked any more.
Committed(t) ==
    /\ \A i \in DOMAIN plan[t] : plan[t][i].cmd \notin Checks
    /\ code[t] \notin Rejections

TraceInv ==
    \A t \in Threads :
        /\ code[t] = "none" => Traceless(t)
        /\ request[t] # NoRequest /\ request[t].api = "Set" =>
               (Traceless(t) /\ ChecksFirst(plan[t])) \/ Committed(t)

-----------------------------------------------------------------------------
(* Steps and plans                                                           *)

\* The plan of a request, which its handler starts with.
LEMMA PlanOfRequest ==
    ASSUME NEW t \in Threads, NEW r \in Requests[t]
    PROVE  /\ r \in AllRequests
           /\ Plan(r) \in Seq(Steps) /\ Plan(r) # <<>>
           /\ ClearsFirst(Plan(r))
           /\ r.api = "Set" => ChecksFirst(Plan(r))
<1>1. r \in AllRequests
  BY DEF AllRequests
<1> HIDE DEF Steps
<1> QED  BY <1>1, PlansInOrder DEF ReplacesPasswords

-----------------------------------------------------------------------------
(* The steps of a handler, by what they do                                   *)

\* hostapd changes what the step at the head of the plan asks it to.
Applies(t) ==
    /\ Connected(t) /\ Connect(t)
    /\ Head(plan[t]).cmd \in Changes \cup {"reload"} /\ Apply(t, Head(plan[t]))
    /\ GoOn(t) \/ Return(t, "InternalError")

\* hostapd's configuration is left alone, but an ENABLE puts in effect what is
\* staged.  The handler goes on if hostapd has answered, or was not asked.
Looks(t) ==
    /\ UNCHANGED hostapdVars \/ (Connected(t) /\ (EnableInterface \/ DisableInterface))
    /\ UNCHANGED conn \/ Connect(t)
    /\ \/ UNCHANGED <<plan, code>>
       \/ /\ Head(plan[t]).cmd \notin Changes \cup {"reload"} /\ GoOn(t)
          /\ Head(plan[t]).cmd \in Checks \cup {"query"} \/ Connected(t)
       \/ \E c \in Codes \ {"none", "running"} :
              /\ Return(t, c)
              /\ c \in Rejections => Head(plan[t]).cmd \in Checks
              /\ c = "Succeeded" =>
                     /\ Head(plan[t]).cmd = "query" /\ SeenState = Head(plan[t]).arg
                     /\ ~up \/ Connected(t)
       \/ /\ Head(plan[t]).cmd = "switch"
          /\ plan' = [plan EXCEPT ![t] = Do("confirm", Head(plan[t]).arg)]
          /\ UNCHANGED code

\* A step is of a handler or of hostapd, or it is the end of a controller, which
\* nothing but its own listener sees.
LEMMA StepSplit ==
    ASSUME [Next]_vars
    PROVE  \/ \E t \in Threads : \E r \in Requests[t] : Handles(t, r)
           \/ \E t \in Threads : Handler(t)
           \/ HostapdMoves
           \/ UNCHANGED requestVars
BY DEF Next, vars, DestroyController, SignalListener, RequestStop, JoinListener, ListenerWoken

\* Every step of a handler is one of the two.
LEMMA HandlerSteps ==
    ASSUME NEW t \in Threads, Types, Handler(t)
    PROVE  /\ plan[t] # <<>> /\ UNCHANGED request /\ aborted' \in BOOLEAN
           /\ Applies(t) \/ Looks(t)
<1> USE DEF Looks, Rejections, Codes, Changes, Checks
<1>1. CASE Refused(t)
  <2>1. plan[t] # <<>> /\ UNCHANGED request /\ aborted' \in BOOLEAN
    BY <1>1 DEF Refused, At, Return, Types
  <2>2. Looks(t)
    BY <1>1 DEF Refused, At
  <2> QED  BY <2>1, <2>2
<1>2. CASE CreateController(t)
  <2>1. plan[t] # <<>> /\ UNCHANGED request /\ aborted' \in BOOLEAN
    BY <1>2 DEF CreateController, At, GoOn, Return, Types
  <2>2. Looks(t)
    BY <1>2 DEF CreateController, At
  <2> QED  BY <2>1, <2>2
<1>3. CASE CheckCapability(t)
  <2>1. plan[t] # <<>> /\ UNCHANGED request /\ aborted' \in BOOLEAN
    BY <1>3 DEF CheckCapability, At, GoOn, Return, Types
  <2>2. Looks(t)
    BY <1>3 DEF CheckCapability, At
  <2> QED  BY <2>1, <2>2
<1>4. CASE ThrowCaught(t)
  <2>1. plan[t] # <<>> /\ UNCHANGED request /\ aborted' \in BOOLEAN
    BY <1>4 DEF ThrowCaught, At, Return, Types
  <2>2. Looks(t)
    BY <1>4 DEF ThrowCaught, At
  <2> QED  BY <2>1, <2>2
<1>5. CASE Change(t)
  <2>1. plan[t] # <<>> /\ UNCHANGED request /\ aborted' \in BOOLEAN
    BY <1>5 DEF Change, At, GoOn, Return, Types
  <2>2. Applies(t) \/ Looks(t)
    BY <1>5 DEF Change, At, Applies
  <2> QED  BY <2>1, <2>2
<1>6. CASE ReadBack(t)
  <2>1. plan[t] # <<>> /\ UNCHANGED request /\ aborted' \in BOOLEAN
    BY <1>6 DEF ReadBack, At, GoOn, Return, Types
  <2>2. Looks(t)
    BY <1>6 DEF ReadBack, At
  <2> QED  BY <2>1, <2>2
<1>7. CASE QueryState(t)
  <2>1. plan[t] # <<>> /\ UNCHANGED request /\ aborted' \in BOOLEAN
    BY <1>7 DEF QueryState, At, GoOn, Return, Types
  <2>2. Looks(t)
    BY <1>7 DEF QueryState, At
  <2> QED  BY <2>1, <2>2
<1>8. CASE SwitchState(t)
  <2>1. plan[t] # <<>> /\ UNCHANGED request /\ aborted' \in BOOLEAN
    BY <1>8 DEF SwitchState, At, GoOn, Return, Types
  <2>2. Looks(t)
    BY <1>8 DEF SwitchState, At
  <2> QED  BY <2>1, <2>2
<1>9. CASE ConfirmState(t)
  <2>1. plan[t] # <<>> /\ UNCHANGED request /\ aborted' \in BOOLEAN
    BY <1>9 DEF ConfirmState, At, GoOn, Return, Types
  <2>2. Looks(t)
    BY <1>9 DEF ConfirmState, At
  <2> QED  BY <2>1, <2>2
<1> QED  BY <1>1, <1>2, <1>3, <1>4, <1>5, <1>6, <1>7, <1>8, <1>9 DEF Handler

-----------------------------------------------------------------------------
(* Types                                                                     *)

\* What a handler has left to do stays in the plans, and it runs while there
\* is something.
LEMMA PlanTyped ==
    ASSUME NEW t \in Threads, Types, Handler(t)
    PROVE  /\ plan' \in [Threads -> Seq(Steps)] /\ code' \in [Threads -> Codes]
           /\ \A u \in Threads : plan'[u] # <<>> <=> code'[u] = "running"
<1>1. /\ plan[t] # <<>> /\ (Applies(t) \/ Looks(t))
      /\ plan[t] \in Seq(Steps) /\ code[t] = "running"
      /\ plan \in [Threads -> Seq(Steps)] /\ code \in [Threads -> Codes]
      /\ \A u \in Threads : plan[u] # <<>> <=> code[u] = "running"
  BY HandlerSteps DEF Types
<1>2. /\ Head(plan[t]) \in Steps /\ Tail(plan[t]) \in Seq(Steps)
      /\ Tail(plan[t]) = <<>> <=> Len(plan[t]) = 1
  BY <1>1, RestInOrder
<1>3. Head(plan[t]).cmd = "switch" =>
          [cmd |-> "confirm", prop |-> "", arg |-> Head(plan[t]).arg] \in Steps
  BY <1>2, StepKinds
<1> HIDE DEF Steps
<1>4. ASSUME Head(plan[t]).cmd = "switch"
      PROVE  /\ Do("confirm", Head(plan[t]).arg) \in Seq(Steps)
             /\ Do("confirm", Head(plan[t]).arg) # <<>>
  <2> DEFINE c == [cmd |-> "confirm", prop |-> "", arg |-> Head(plan[t]).arg]
  <2>1. c \in Steps
    BY <1>3, <1>4
  <2> HIDE DEF c
  <2>2. <<c>> \in Seq(Steps) /\ <<c>> # <<>>
    BY <2>1
  <2> QED  BY <2>2 DEF Do, c
<1>5. CASE GoOn(t)
  BY <1>1, <1>2, <1>5 DEF GoOn, Codes
<1>6. ASSUME NEW c \in Codes \ {"none", "running"}, Return(t, c)
      PROVE  /\ plan' \in [Threads -> Seq(Steps)] /\ code' \in [Threads -> Codes]
             /\ \A u \in Threads : plan'[u] # <<>> <=> code'[u] = "running"
  BY <1>1, <1>6 DEF Return
<1>7. CASE UNCHANGED <<plan, code>>
  BY <1>1, <1>7
<1>8. CASE /\ Head(plan[t]).cmd = "switch" /\ UNCHANGED code
           /\ plan' = [plan EXCEPT ![t] = Do("confirm", Head(plan[t]).arg)]
  BY <1>1, <1>4, <1>8
<1>9. CASE Applies(t)
  BY <1>5, <1>6, <1>9 DEF Applies, Codes
<1>10. CASE Looks(t)
  BY <1>5, <1>6, <1>7, <1>8, <1>10 DEF Looks
<1> QED  BY <1>1, <1>9, <1>10

\* hostapd holds values of the file and of the threads, whatever it is sent.
LEMMA HostapdTyped ==
    ASSUME NEW t \in Threads, Types, Handler(t)
    PROVE  /\ up' \in BOOLEAN /\ epoch' = epoch
           /\ state' \in {"DISABLED", "STARTING", "ENABLED"}
           /\ staged' \in [Properties -> SUBSET Values]
           /\ running' \in [Properties -> SUBSET Values]
<1>1. /\ plan[t] # <<>> /\ (Applies(t) \/ Looks(t))
      /\ plan[t] \in Seq(Steps)
      /\ up \in BOOLEAN /\ state \in {"DISABLED", "STARTING", "ENABLED"}
      /\ staged \in [Properties -> SUBSET Values]
      /\ running \in [Properties -> SUBSET Values]
  BY HandlerSteps DEF Types
<1> DEFINE step == Head(plan[t])
<1>2. step \in Steps
  BY <1>1, RestInOrder
<1>3. step.cmd \in Changes => step.prop \in Properties /\ step.arg \in Nat
  BY <1>2, StepKinds
<1> HIDE DEF step, Properties, Steps
<1>4. ASSUME step.cmd \in Changes
      PROVE  {<<t, step.arg>>} \in SUBSET Values
  BY <1>3, <1>4 DEF Values
<1>5. ASSUME NEW values \in SUBSET Values, step.prop \in Properties, Put(step.prop, values)
      PROVE  /\ up' \in BOOLEAN /\ epoch' = epoch
             /\ state' \in {"DISABLED", "STARTING", "ENABLED"}
             /\ staged' \in [Properties -> SUBSET Values]
             /\ running' \in [Properties -> SUBSET Values]
  BY <1>1, <1>5 DEF Put
<1>6. CASE Applies(t)
  <2>1. Apply(t, step)
    BY <1>6 DEF Applies, step
  <2>2. CASE step.cmd = "reload" /\ ReloadConfiguration
    BY <1>1, <2>2 DEF ReloadConfiguration
  <2>3. CASE step.cmd = "set" /\ Put(step.prop, {<<t, step.arg>>})
    BY <1>3, <1>4, <1>5, <2>3 DEF Changes
  <2>4. CASE step.cmd = "clear" /\ Put(step.prop, {})
    BY <1>3, <1>5, <2>4 DEF Changes
  <2>5. CASE step.cmd = "add" /\ Put(step.prop, staged[step.prop] \cup {<<t, step.arg>>})
    <3>1. staged[step.prop] \cup {<<t, step.arg>>} \in SUBSET Values
      BY <1>1, <1>3, <1>4, <2>5 DEF Changes
    <3> QED  BY <1>3, <1>5, <2>5, <3>1 DEF Changes
  <2> QED  BY <2>1, <2>2, <2>3, <2>4, <2>5 DEF Apply
<1>7. CASE Looks(t)
  BY <1>1, <1>7 DEF Looks, hostapdVars, EnableInterface, DisableInterface
<1> QED  BY <1>1, <1>6, <1>7

\* The types hold at first.
LEMMA TypesInit == Init => Types
<1> SUFFICES ASSUME Init PROVE Types
  OBVIOUS
<1> HIDE DEF Steps, Properties
<1>1. /\ staged \in [Properties -> SUBSET Values]
      /\ running \in [Properties -> SUBSET Values]
  BY DEF Init, HostapdInit, FileConfiguration, Values
<1>2. /\ up \in BOOLEAN /\ epoch \in 1 .. MaxRestarts + 1
      /\ state \in {"DISABLED", "STARTING", "ENABLED"}
  BY ProcessAssumption DEF Init, HostapdInit
<1>3. plan \in [Threads -> Seq(Steps)]
  BY DEF Init
<1>4. /\ conn \in [Threads -> 0 .. epoch] /\ code \in [Threads -> Codes]
      /\ \A t \in Threads : plan[t] # <<>> <=> code[t] = "running"
  BY <1>2 DEF Init, Codes
<1>5. /\ request \in [Threads -> AllRequests \cup {NoRequest}]
      /\ \A t \in Threads : request[t] \in Requests[t] \cup {NoRequest}
      /\ aborted \in BOOLEAN
  BY DEF Init
<1> QED  BY <1>1, <1>2, <1>3, <1>4, <1>5 DEF Types

\* Every step preserves the types.
LEMMA TypesStep == Types /\ [Next]_vars => Types'
<1> SUFFICES ASSUME Types, [Next]_vars PROVE Types'
  OBVIOUS
<1> HIDE DEF Steps, Properties, Values, AllRequests
<1>1. ASSUME NEW t \in Threads, Handler(t)
      PROVE  Types'
  <2>1. /\ request' = request /\ aborted' \in BOOLEAN
        /\ UNCHANGED conn \/ Connect(t)
    BY <1>1, HandlerSteps DEF Applies, Looks
  <2>2. conn' \in [Threads -> 0 .. epoch]
    <3>1. conn \in [Threads -> 0 .. epoch] /\ epoch \in 0 .. epoch
      BY ProcessAssumption DEF Types
    <3> QED  BY <2>1, <3>1 DEF Connect
  <2> QED  BY <1>1, <2>1, <2>2, PlanTyped, HostapdTyped DEF Types
<1>2. ASSUME NEW t \in Threads, NEW r \in Requests[t], Handles(t, r)
      PROVE  Types'
  <2>1. /\ request' \in [Threads -> AllRequests \cup {NoRequest}]
        /\ \A u \in Threads : request'[u] \in Requests[u] \cup {NoRequest}
    BY <1>2, PlanOfRequest DEF Handles, Types
  <2>2. /\ plan' \in [Threads -> Seq(Steps)] /\ code' \in [Threads -> Codes]
        /\ \A u \in Threads : plan'[u] # <<>> <=> code'[u] = "running"
    BY <1>2, PlanOfRequest DEF Handles, Types, Codes
  <2> QED  BY <1>2, <2>1, <2>2 DEF Handles, hostapdVars, Types
<1>3. CASE HostapdMoves
  <2>1. FileConfiguration \in [Properties -> SUBSET Values]
    BY DEF FileConfiguration, Values
  <2>2. /\ up' \in BOOLEAN /\ state' \in {"DISABLED", "STARTING", "ENABLED"}
        /\ staged' \in [Properties -> SUBSET Values]
        /\ running' \in [Properties -> SUBSET Values]
    BY <1>3, <2>1
       DEF HostapdMoves, StartingEnds, RadarDetected, Stops, Starts, Types
  <2>3. epoch' \in 1 .. MaxRestarts + 1 /\ epoch <= epoch'
    BY <1>3, ProcessAssumption
       DEF HostapdMoves, StartingEnds, RadarDetected, Stops, Starts, Types
  <2>4. conn' \in [Threads -> 0 .. epoch']
    BY <1>3, <2>3 DEF HostapdMoves, threadVars, Types
  <2> QED  BY <1>3, <2>2, <2>3, <2>4 DEF HostapdMoves, threadVars, Types
<1>4. CASE UNCHANGED requestVars
  BY <1>4 DEF requestVars, hostapdVars, threadVars, Types
<1> QED  BY <1>1, <1>2, <1>3, <1>4, StepSplit

-----------------------------------------------------------------------------
(* Passwords                                                                 *)

\* What a step of a handler does about the passwords: the file's do not come
\* back, and are gone after a clear.
LEMMA PasswordStep ==
    ASSUME Types, PasswordsInv, NEW t \in Threads, Handler(t)
    PROVE  /\ FileValue \in staged'["sae_password"] =>
                  staged'["sae_password"] = staged["sae_password"]
           /\ running'["sae_password"] \in {running["sae_password"], staged["sae_password"]}
           /\ GoOn(t) /\ Head(plan[t]).cmd = "clear" /\ Head(plan[t]).prop = "sae_password"
                  => FileValue \notin staged'["sae_password"] /\ conn'[t] = epoch
<1> DEFINE step == Head(plan[t])
<1>1. /\ plan[t] # <<>> /\ (Applies(t) \/ Looks(t)) /\ plan[t] \in Seq(Steps)
      /\ staged \in [Properties -> SUBSET Values]
      /\ running \in [Properties -> SUBSET Values]
      /\ conn \in [Threads -> 0 .. epoch]
  BY HandlerSteps DEF Types
<1>2. /\ step \in Steps
      /\ ClearsFirst(plan[t]) => ~(step.cmd = "add" /\ step.prop = "sae_password")
  BY <1>1, RestInOrder
<1>3. step.cmd \in Changes => step.prop \in Properties /\ step.arg \in Nat
  BY <1>2, StepKinds
<1>4. "sae_password" \in Properties /\ "sae_password" \notin Immediate
  BY DEF Properties, Immediate
<1> HIDE DEF step, Properties, Steps
<1>5. step.cmd \in Changes => FileValue # <<t, step.arg>>
  BY <1>3, ValueAssumption
<1>6. CASE Applies(t)
  <2>1. /\ Connected(t) /\ Connect(t) /\ Apply(t, step)
    BY <1>6 DEF Applies, step
  <2>2. conn'[t] = epoch
    BY <1>1, <2>1 DEF Connected, Connect
  <2>3. ASSUME NEW values, step.prop \in Properties, Put(step.prop, values)
        PROVE  /\ running'["sae_password"] = running["sae_password"]
               /\ staged'["sae_password"] =
                      IF step.prop = "sae_password" THEN values ELSE staged["sae_password"]
    BY <1>1, <1>4, <2>3 DEF Put
  <2>4. CASE step.cmd = "reload" /\ ReloadConfiguration
    BY <2>4 DEF ReloadConfiguration, step
  <2>5. CASE step.cmd = "set" /\ Put(step.prop, {<<t, step.arg>>})
    BY <1>3, <1>5, <2>3, <2>5 DEF Changes, step
  <2>6. CASE step.cmd = "clear" /\ Put(step.prop, {})
    BY <1>3, <2>2, <2>3, <2>6 DEF Changes, step
  <2>7. CASE step.cmd = "add" /\ Put(step.prop, staged[step.prop] \cup {<<t, step.arg>>})
    <3>1. CASE step.prop = "sae_password"
      <4>1. Cleared(t)
        BY <1>2, <2>7, <3>1 DEF PasswordsInv
      <4>2. FileValue \notin staged["sae_password"]
        BY <2>1, <4>1 DEF Cleared, Connected
      <4> QED  BY <1>3, <1>5, <2>3, <2>7, <3>1, <4>2 DEF Changes, step
    <3>2. CASE step.prop # "sae_password"
      BY <1>3, <2>3, <2>7, <3>2 DEF Changes, step
    <3> QED  BY <3>1, <3>2
  <2> QED  BY <2>1, <2>4, <2>5, <2>6, <2>7 DEF Apply
<1>7. CASE Looks(t)
  <2>1. staged' = staged /\ (running' = running \/ running' = staged)
    BY <1>7 DEF Looks, hostapdVars, EnableInterface, DisableInterface
  <2>2. GoOn(t) => step.cmd # "clear"
    <3>1. ASSUME GoOn(t), step.cmd = "clear"
          PROVE  FALSE
      <4>1. plan'[t] = Tail(plan[t]) /\ code'[t] \in {"Succeeded", code[t]}
        BY <3>1 DEF GoOn, Types
      <4>2. plan'[t] = <<>> => code'[t] = "Succeeded"
        BY <1>1, <3>1, <4>1, RestInOrder DEF GoOn, Types
      <4>3. plan'[t] # plan[t]
        <5>1. Len(Tail(plan[t])) # Len(plan[t])
          BY <1>1
        <5> QED  BY <4>1, <5>1
      <4>4. PICK c \in Codes \ {"none", "running"} :
                Return(t, c) /\ (c = "Succeeded" => step.cmd = "query")
        <5>1. /\ Head(plan[t]).cmd # "switch" /\ ~UNCHANGED <<plan, code>>
              /\ ~(Head(plan[t]).cmd \notin Changes \cup {"reload"})
          BY <3>1, <4>3 DEF Changes, step
        <5>2. \E c \in Codes \ {"none", "running"} :
                  Return(t, c) /\ (c = "Succeeded" => Head(plan[t]).cmd = "query")
          BY <1>7, <5>1 DEF Looks
        <5> QED  BY <5>2 DEF step
      <4>5. plan'[t] = <<>> /\ code'[t] = c
        BY <4>4 DEF Return, Types
      <4> QED  BY <3>1, <4>2, <4>4, <4>5 DEF Changes
    <3> QED  BY <3>1
  <2> QED  BY <2>1, <2>2 DEF step
<1> QED  BY <1>1, <1>6, <1>7

\* Every step preserves PasswordsInv.
LEMMA PasswordsStep == Types /\ PasswordsInv /\ [Next]_vars => PasswordsInv'
<1> SUFFICES ASSUME Types, PasswordsInv, [Next]_vars PROVE PasswordsInv'
  OBVIOUS
<1> HIDE DEF Steps, Properties, Values, AllRequests
<1>1. ASSUME NEW t \in Threads, Handler(t)
      PROVE  PasswordsInv'
  <2>1. /\ plan[t] # <<>> /\ (Applies(t) \/ Looks(t)) /\ plan[t] \in Seq(Steps)
        /\ plan \in [Threads -> Seq(Steps)] /\ conn \in [Threads -> 0 .. epoch]
    BY <1>1, HandlerSteps DEF Types
  <2>2. /\ FileValue \in staged'["sae_password"] =>
               staged'["sae_password"] = staged["sae_password"]
        /\ running'["sae_password"] \in {running["sae_password"], staged["sae_password"]}
        /\ GoOn(t) /\ Head(plan[t]).cmd = "clear" /\ Head(plan[t]).prop = "sae_password"
               => FileValue \notin staged'["sae_password"] /\ conn'[t] = epoch
    BY <1>1, PasswordStep
  <2>3. epoch' = epoch /\ epoch # 0
    <3>1. epoch \in 1 .. MaxRestarts + 1
      BY DEF Types
    <3>2. epoch' = epoch
      BY <1>1, HostapdTyped
    <3> QED  BY <3>1, <3>2, ProcessAssumption
  <2>4. UNCHANGED conn \/ Connect(t)
    BY <2>1 DEF Applies, Looks
  <2>5. ASSUME NEW u \in Threads, Cleared(u)
        PROVE  Cleared(u)'
    <3>1. conn'[u] = conn[u]
      BY <2>1, <2>4, <2>5 DEF Connect, Cleared
    <3> QED  BY <2>2, <2>3, <2>5, <3>1 DEF Cleared
  <2>6. /\ \A u \in Threads \ {t} : plan'[u] = plan[u]
        /\ \/ plan'[t] = plan[t]
           \/ GoOn(t) /\ plan'[t] = Tail(plan[t])
           \/ plan'[t] = <<>>
           \/ plan'[t] = Do("confirm", Head(plan[t]).arg)
    BY <2>1 DEF Applies, Looks, GoOn, Return
  <2>7. ASSUME NEW u \in Threads, ClearsFirst(plan[u])
        PROVE  ClearsFirst(plan'[u]) \/ Cleared(u)'
    <3>1. CASE plan'[u] = plan[u]
      BY <2>7, <3>1
    <3>2. CASE u = t /\ GoOn(t) /\ plan'[t] = Tail(plan[t])
      <4>1. CASE ClearsFirst(Tail(plan[t]))
        BY <3>2, <4>1
      <4>2. CASE Head(plan[t]).cmd = "clear"
        <5>1. Head(plan[t]).prop = "sae_password"
          BY <2>1, <4>2, RestInOrder, StepKinds
        <5> QED  BY <2>2, <2>3, <3>2, <4>2, <5>1 DEF Cleared
      <4> QED  BY <2>1, <2>7, <3>2, <4>1, <4>2, RestInOrder
    <3>3. CASE u = t /\ (plan'[t] = <<>> \/ plan'[t] = Do("confirm", Head(plan[t]).arg))
      BY <3>3, ShortPlans
    <3> QED  BY <2>6, <3>1, <3>2, <3>3
  <2>8. \A u \in Threads : ClearsFirst(plan[u])' \/ Cleared(u)'
    BY <2>5, <2>7 DEF PasswordsInv
  <2>9. /\ FileValue \in staged'["sae_password"] => staged'["sae_password"] = {FileValue}
        /\ OldPasswordsGone'
    BY <2>2 DEF PasswordsInv, OldPasswordsGone
  <2> QED  BY <2>8, <2>9 DEF PasswordsInv
<1>2. ASSUME NEW t \in Threads, NEW r \in Requests[t], Handles(t, r)
      PROVE  PasswordsInv'
  <2>1. \A u \in Threads : plan'[u] = IF u = t THEN Plan(r) ELSE plan[u]
    BY <1>2 DEF Handles, Types
  <2>2. UNCHANGED <<staged, running, epoch, conn>>
    BY <1>2 DEF Handles, hostapdVars
  <2>3. \A u \in Threads : Cleared(u)' <=> Cleared(u)
    BY <2>2 DEF Cleared
  <2>4. \A u \in Threads : ClearsFirst(plan[u])' \/ Cleared(u)'
    BY <2>1, <2>3, PlanOfRequest DEF PasswordsInv
  <2> QED  BY <2>2, <2>4 DEF PasswordsInv, OldPasswordsGone
<1>3. CASE HostapdMoves
  <2>1. CASE Starts
    <3>1. \A u \in Threads : conn'[u] # epoch' /\ conn'[u] = conn[u] /\ plan'[u] = plan[u]
      BY <1>3, <2>1, ProcessAssumption DEF HostapdMoves, Starts, threadVars, Types
    <3>2. /\ staged'["sae_password"] = {FileValue}
          /\ running'["sae_password"] = {FileValue}
      BY <2>1 DEF Starts, FileConfiguration, Properties
    <3>3. \A u \in Threads : ClearsFirst(plan[u])' \/ Cleared(u)'
      BY <3>1 DEF PasswordsInv, Cleared
    <3> QED  BY <3>2, <3>3 DEF PasswordsInv, OldPasswordsGone
  <2>2. CASE StartingEnds \/ RadarDetected \/ Stops
    <3>1. UNCHANGED <<staged, running, epoch, conn, plan>>
      BY <1>3, <2>2 DEF HostapdMoves, StartingEnds, RadarDetected, Stops, threadVars
    <3> QED  BY <3>1 DEF PasswordsInv, OldPasswordsGone, Cleared
  <2> QED  BY <1>3, <2>1, <2>2 DEF HostapdMoves
<1>4. CASE UNCHANGED requestVars
  BY <1>4 DEF requestVars, hostapdVars, threadVars, PasswordsInv, OldPasswordsGone, Cleared
<1> QED  BY <1>1, <1>2, <1>3, <1>4, StepSplit

-----------------------------------------------------------------------------
(* Refusals                                                                  *)

\* A step of a handler leaves no values of the other threads, and none of its
\* own unless it is a change.
LEMMA TraceStep ==
    ASSUME Types, NEW t \in Threads, Handler(t), NEW u \in Threads, Traceless(u),
           u # t \/ Looks(t) \/ Head(plan[t]).cmd = "reload"
    PROVE  Traceless(u)'
<1> DEFINE step == Head(plan[t])
<1>1. /\ plan[t] # <<>> /\ (Applies(t) \/ Looks(t)) /\ plan[t] \in Seq(Steps)
      /\ staged \in [Properties -> SUBSET Values]
  BY HandlerSteps DEF Types
<1>2. step.cmd \in Changes => step.prop \in Properties
  BY <1>1, RestInOrder, StepKinds
<1> HIDE DEF step, Properties, Steps
<1>3. CASE UNCHANGED staged
  BY <1>3 DEF Traceless
<1>4. CASE Applies(t) /\ ~UNCHANGED staged
  <2>1. Apply(t, step)
    BY <1>4 DEF Applies, step
  <2>2. step.cmd \in Changes
    BY <1>4, <2>1 DEF Apply, ReloadConfiguration, Changes
  <2>3. u # t \/ Looks(t)
    BY <2>2 DEF Changes, step
  <2>4. CASE Looks(t)
    BY <1>4, <2>4 DEF Looks, hostapdVars, EnableInterface, DisableInterface
  <2>5. CASE u # t
    <3>1. staged'[step.prop] \subseteq staged[step.prop] \cup {<<t, step.arg>>}
      BY <1>1, <1>2, <1>4, <2>1, <2>2 DEF Apply, Put, ReloadConfiguration
    <3>2. \A p \in Properties \ {step.prop} : staged'[p] = staged[p]
      BY <1>1, <1>2, <1>4, <2>1, <2>2 DEF Apply, Put, ReloadConfiguration
    <3>3. \A n \in Nat : <<u, n>> # <<t, step.arg>>
      BY <2>5
    <3> QED  BY <3>1, <3>2, <3>3 DEF Traceless
  <2> QED  BY <2>3, <2>4, <2>5
<1>5. CASE Looks(t) /\ ~UNCHANGED staged
  BY <1>5 DEF Looks, hostapdVars, EnableInterface, DisableInterface
<1> QED  BY <1>1, <1>3, <1>4, <1>5

\* A request for one item commits itself with its first change.
LEMMA CommitStep ==
    ASSUME Types, TraceInv, NEW t \in Threads, Handler(t), request[t] # NoRequest,
           request[t].api = "Set"
    PROVE  (Traceless(t)' /\ ChecksFirst(plan'[t])) \/ Committed(t)'
<1> DEFINE s == plan[t]
<1>1. /\ s # <<>> /\ (Applies(t) \/ Looks(t)) /\ s \in Seq(Steps)
      /\ code[t] = "running"
      /\ plan \in [Threads -> Seq(Steps)] /\ code \in [Threads -> Codes]
  BY HandlerSteps DEF Types
<1>2. (Traceless(t) /\ ChecksFirst(s)) \/ Committed(t)
  BY DEF TraceInv
<1> HIDE DEF Steps
<1>3. /\ ChecksFirst(s) => ChecksFirst(Tail(s))
      /\ ChecksFirst(s) /\ Head(s).cmd \in Changes =>
             \A i \in DOMAIN Tail(s) : Tail(s)[i].cmd \notin Checks
  BY <1>1, RestInOrder
<1>4. Committed(t) => /\ Head(s).cmd \notin Checks
                      /\ \A i \in DOMAIN Tail(s) : Tail(s)[i].cmd \notin Checks
  <2>1. /\ Head(s) = s[1] /\ 1 \in DOMAIN s
        /\ \A i \in DOMAIN Tail(s) : Tail(s)[i] = s[i + 1] /\ i + 1 \in DOMAIN s
    BY <1>1
  <2> QED  BY <2>1 DEF Committed
<1>5. CASE GoOn(t)
  <2>1. plan'[t] = Tail(s) /\ code'[t] \notin Rejections
    BY <1>1, <1>5 DEF GoOn, Rejections
  <2>2. CASE Committed(t)
    BY <1>4, <2>1, <2>2 DEF Committed
  <2>3. CASE Traceless(t) /\ ChecksFirst(s) /\ Head(s).cmd \in Changes
    BY <1>3, <2>1, <2>3 DEF Committed
  <2>4. CASE Traceless(t) /\ ChecksFirst(s) /\ Head(s).cmd \notin Changes
    <3>1. Looks(t) \/ Head(plan[t]).cmd = "reload"
      BY <1>1, <2>4 DEF Applies
    <3>2. Traceless(t)'
      BY <2>4, <3>1, TraceStep
    <3> QED  BY <1>3, <2>1, <2>4, <3>2
  <2> QED  BY <1>2, <2>2, <2>3, <2>4
<1>6. CASE Applies(t) /\ Return(t, "InternalError")
  <2>1. plan'[t] = <<>> /\ code'[t] \notin Rejections
    BY <1>1, <1>6 DEF Return, Rejections
  <2> QED  BY <2>1 DEF Committed
<1>7. CASE Looks(t) /\ ~GoOn(t)
  <2>1. Traceless(t) => Traceless(t)'
    BY <1>7, TraceStep
  <2>2. CASE UNCHANGED <<plan, code>>
    BY <1>2, <2>1, <2>2 DEF Committed
  <2>3. ASSUME NEW c \in Codes, Return(t, c), c \in Rejections => Head(s).cmd \in Checks
        PROVE  (Traceless(t)' /\ ChecksFirst(plan'[t])) \/ Committed(t)'
    <3>1. plan'[t] = <<>> /\ code'[t] = c
      BY <1>1, <2>3 DEF Return
    <3>2. CASE Committed(t)
      BY <1>4, <2>3, <3>1, <3>2 DEF Committed
    <3> QED  BY <1>2, <2>1, <3>1, <3>2, ShortPlans
  <2>4. CASE plan' = [plan EXCEPT ![t] = Do("confirm", Head(s).arg)] /\ UNCHANGED code
    <3>1. plan'[t] = Do("confirm", Head(s).arg) /\ code'[t] \notin Rejections
      BY <1>1, <2>4 DEF Rejections
    <3>2. \A i \in DOMAIN plan'[t] : plan'[t][i].cmd \notin Checks
      <4> DEFINE c == [cmd |-> "confirm", prop |-> "", arg |-> Head(s).arg]
      <4>1. c.cmd \notin Checks
        BY DEF Checks
      <4> HIDE DEF c
      <4>2. \A i \in DOMAIN <<c>> : <<c>>[i] = c
        OBVIOUS
      <4>3. plan'[t] = <<c>>
        BY <3>1 DEF Do, c
      <4> QED  BY <4>1, <4>2, <4>3
    <3> QED  BY <3>1, <3>2 DEF Committed
  <2> QED  BY <1>7, <2>2, <2>3, <2>4 DEF Looks
<1> QED  BY <1>1, <1>5, <1>6, <1>7 DEF Applies

\* Every step preserves TraceInv.
LEMMA TracesStep == Types /\ TraceInv /\ [Next]_vars => TraceInv'
<1> SUFFICES ASSUME Types, TraceInv, [Next]_vars PROVE TraceInv'
  OBVIOUS
<1> HIDE DEF Steps, Properties, Values, AllRequests
<1>1. ASSUME NEW t \in Threads, Handler(t)
      PROVE  TraceInv'
  <2>1. /\ (Applies(t) \/ Looks(t)) /\ UNCHANGED request
        /\ plan[t] # <<>> /\ code[t] = "running"
        /\ plan \in [Threads -> Seq(Steps)] /\ code \in [Threads -> Codes]
    BY <1>1, HandlerSteps DEF Types
  <2>2. ASSUME NEW u \in Threads \ {t}
        PROVE  /\ plan'[u] = plan[u] /\ code'[u] = code[u]
               /\ Traceless(u) => Traceless(u)'
    <3>1. plan'[u] = plan[u] /\ code'[u] = code[u]
      BY <2>1, <2>2 DEF Applies, Looks, GoOn, Return
    <3> QED  BY <1>1, <2>2, <3>1, TraceStep
  <2>3. code'[t] # "none"
    BY <2>1 DEF Applies, Looks, GoOn, Return
  <2>4. ASSUME NEW u \in Threads
        PROVE  /\ code'[u] = "none" => Traceless(u)'
               /\ request'[u] # NoRequest /\ request'[u].api = "Set" =>
                      (Traceless(u)' /\ ChecksFirst(plan'[u])) \/ Committed(u)'
    <3>1. CASE u = t
      BY <1>1, <2>1, <2>3, <3>1, CommitStep
    <3>2. CASE u # t
      BY <2>1, <2>2, <3>2 DEF TraceInv, Committed
    <3> QED  BY <3>1, <3>2
  <2> QED  BY <2>4 DEF TraceInv
<1>2. ASSUME NEW t \in Threads, NEW r \in Requests[t], Handles(t, r)
      PROVE  TraceInv'
  <2>1. /\ UNCHANGED staged /\ code[t] = "none"
        /\ \A u \in Threads :
               /\ plan'[u] = IF u = t THEN Plan(r) ELSE plan[u]
               /\ code'[u] = IF u = t THEN "running" ELSE code[u]
               /\ request'[u] = IF u = t THEN r ELSE request[u]
    BY <1>2 DEF Handles, hostapdVars, Types
  <2>2. \A u \in Threads : Traceless(u) => Traceless(u)'
    BY <2>1 DEF Traceless
  <2>3. r.api = "Set" => ChecksFirst(Plan(r))
    BY PlanOfRequest
  <2> QED  BY <2>1, <2>2, <2>3 DEF TraceInv, Committed
<1>3. CASE HostapdMoves
  <2>1. UNCHANGED <<request, plan, code>>
    BY <1>3 DEF HostapdMoves, threadVars
  <2>2. ASSUME NEW u \in Threads, Traceless(u)
        PROVE  Traceless(u)'
    <3>1. CASE Starts
      BY <3>1, ValueAssumption DEF Starts, FileConfiguration, Traceless
    <3>2. CASE UNCHANGED staged
      BY <2>2, <3>2 DEF Traceless
    <3> QED  BY <1>3, <3>1, <3>2
            DEF HostapdMoves, StartingEnds, RadarDetected, Stops
  <2> QED  BY <2>1, <2>2 DEF TraceInv, Committed
<1>4. CASE UNCHANGED requestVars
  BY <1>4 DEF requestVars, hostapdVars, threadVars, TraceInv, Committed, Traceless
<1> QED  BY <1>1, <1>2, <1>3, <1>4, StepSplit

-----------------------------------------------------------------------------
(* What is set and what is in effect                                         *)

\* What is left of a request's plan is in order; it changes what the request
\* sets, and if that is anything, ends with what hostapd is asked for.
PlansInv ==
    \A t \in Threads :
        /\ code[t] = "none" <=> request[t] = NoRequest
        /\ Ordered(plan[t])
        /\ request[t] # NoRequest => \A p \in Properties :
               /\ Touches(plan[t], p) => Sets(t, p) # {}
               /\ Sets(t, p) # {} => Enables(plan[t])

\* Thread t has all of p still to set.
Before(t, p) == Opens(plan[t], p) /\ Assigns(t, plan[t], p) = Sets(t, p)

\* Thread t has begun to set p.  As long as the hostapd it began with runs, what
\* is staged and what is left of the plan make up what the request sets, and what
\* is staged is in effect or will be reloaded.
Since(t, p) ==
    /\ conn[t] # 0 /\ ~Clears(plan[t], p)
    /\ conn[t] = epoch =>
           /\ staged[p] \cup Assigns(t, plan[t], p) = Sets(t, p)
           /\ p = "ieee80211w" \/ running[p] = staged[p] \/ Reloads(plan[t])

AppliedInv ==
    \A t \in Threads : \A p \in Properties :
        code[t] \in {"running", "Succeeded"} /\ Sets(t, p) # {} /\ ~Contended(t, p)
        => Before(t, p) \/ Since(t, p)

\* What is staged and not in effect is of a request that reloads before it reads.
StagedInv ==
    \A p \in Properties :
        staged[p] = running[p]
        \/ \E t \in Threads :
               request[t] # NoRequest /\ Sets(t, p) # {} /\ ReloadFirst(plan[t])

-----------------------------------------------------------------------------
\* A step of a handler is of its thread, and leaves of its plan all, all but the
\* first step, nothing, or a question for the state.
LEMMA HandlerLeaves ==
    ASSUME Types, NEW t \in Threads, Handler(t)
    PROVE  /\ request' = request /\ epoch' = epoch /\ code[t] = "running"
           /\ plan[t] \in Seq(Steps) /\ plan[t] # <<>>
           /\ \A u \in Threads \ {t} :
                  plan'[u] = plan[u] /\ code'[u] = code[u] /\ conn'[u] = conn[u]
           /\ \/ plan'[t] = plan[t] \/ plan'[t] = <<>> \/ \E a : plan'[t] = Do("confirm", a)
              \/ /\ plan'[t] = Tail(plan[t])
                 /\ Head(plan[t]).cmd \in Changes \cup {"reload"} => Applies(t)
           /\ code'[t] # "none"
<1>1. /\ plan[t] # <<>> /\ UNCHANGED request /\ (Applies(t) \/ Looks(t))
      /\ plan \in [Threads -> Seq(Steps)] /\ code \in [Threads -> Codes]
      /\ conn \in [Threads -> 0 .. epoch] /\ code[t] = "running"
  BY HandlerSteps DEF Types
<1> HIDE DEF Steps
<1>2. epoch' = epoch
  BY HostapdTyped
<1> QED  BY <1>1, <1>2 DEF Applies, Looks, GoOn, Return, Connect

\* A step of a handler that is not a change of p leaves what is staged of it,
\* and puts it in effect at most.
LEMMA HandlerPuts ==
    ASSUME Types, NEW t \in Threads, Handler(t), NEW p \in Properties
    PROVE  \/ /\ Applies(t) /\ Head(plan[t]).cmd \in Changes
              /\ Head(plan[t]).prop = p
           \/ /\ staged'[p] = staged[p] /\ running'[p] \in {running[p], staged[p]}
              /\ Applies(t) /\ Head(plan[t]).cmd = "reload" => running'[p] = staged[p]
<1> DEFINE step == Head(plan[t])
<1>1. /\ plan[t] # <<>> /\ (Applies(t) \/ Looks(t)) /\ plan[t] \in Seq(Steps)
      /\ staged \in [Properties -> SUBSET Values]
      /\ running \in [Properties -> SUBSET Values]
  BY HandlerSteps DEF Types
<1>2. step.cmd \in Changes => step.prop \in Properties
  BY <1>1, RestInOrder, StepKinds
<1> HIDE DEF step, Properties, Steps
<1>3. CASE Looks(t) /\ ~Applies(t)
  BY <1>3 DEF Looks, hostapdVars, EnableInterface, DisableInterface
<1>4. CASE Applies(t)
  <2>1. Apply(t, step)
    BY <1>4 DEF Applies, step
  <2>2. CASE step.cmd = "reload" /\ ReloadConfiguration
    BY <2>2 DEF ReloadConfiguration, step
  <2>3. ASSUME NEW values, step.cmd \in Changes, Put(step.prop, values), step.prop # p
        PROVE  staged'[p] = staged[p] /\ running'[p] = running[p]
    BY <1>1, <1>2, <2>3 DEF Put
  <2>4. CASE step.cmd \in Changes
    <3>1. \E values : Put(step.prop, values)
      BY <2>1, <2>4 DEF Apply, Changes
    <3>2. step.cmd # "reload"
      BY <2>4 DEF Changes
    <3>3. CASE step.prop # p
      BY <2>3, <2>4, <3>1, <3>2, <3>3 DEF step
    <3> QED  BY <1>4, <2>4, <3>3 DEF step
  <2> QED  BY <2>1, <2>2, <2>4 DEF Apply, Changes
<1> QED  BY <1>1, <1>3, <1>4

\* What a change does.
LEMMA ChangePuts ==
    ASSUME Types, NEW t \in Threads, Handler(t), Applies(t), NEW p \in Properties,
           Head(plan[t]).cmd \in Changes, Head(plan[t]).prop = p
    PROVE  /\ Head(plan[t]).cmd = "set" => staged'[p] = {<<t, Head(plan[t]).arg>>}
           /\ Head(plan[t]).cmd = "clear" => staged'[p] = {}
           /\ Head(plan[t]).cmd = "add" => staged'[p] = staged[p] \cup {<<t, Head(plan[t]).arg>>}
           /\ p = "setband" => running'[p] = staged'[p]
<1> DEFINE step == Head(plan[t])
<1>1. /\ staged \in [Properties -> SUBSET Values] /\ running \in [Properties -> SUBSET Values]
      /\ Apply(t, step) /\ step.cmd \in Changes /\ step.prop = p
  BY DEF Types, Applies
<1> HIDE DEF step, Properties
<1>2. \A values : Put(p, values) =>
          staged'[p] = values /\ (p = "setband" => running'[p] = staged'[p])
  BY <1>1 DEF Put, Immediate
<1>3. CASE step.cmd = "set" /\ Put(p, {<<t, step.arg>>})
  BY <1>2, <1>3 DEF step
<1>4. CASE step.cmd = "clear" /\ Put(p, {})
  BY <1>2, <1>4 DEF step
<1>5. CASE step.cmd = "add" /\ Put(p, staged[p] \cup {<<t, step.arg>>})
  BY <1>2, <1>5 DEF step
<1> QED  BY <1>1, <1>3, <1>4, <1>5 DEF Apply, Changes

\* Every step preserves PlansInv.
LEMMA PlansStep == Types /\ PlansInv /\ [Next]_vars => PlansInv'
<1> SUFFICES ASSUME Types, PlansInv, [Next]_vars PROVE PlansInv'
  OBVIOUS
<1> HIDE DEF Steps, Properties, Values, AllRequests
<1>1. ASSUME NEW t \in Threads, Handler(t)
      PROVE  PlansInv'
  <2>1. /\ request' = request /\ code[t] = "running" /\ code'[t] # "none"
        /\ plan[t] \in Seq(Steps) /\ plan[t] # <<>>
        /\ \A u \in Threads \ {t} : plan'[u] = plan[u] /\ code'[u] = code[u]
        /\ \/ plan'[t] = plan[t] \/ plan'[t] = <<>> \/ \E a : plan'[t] = Do("confirm", a)
           \/ plan'[t] = Tail(plan[t])
    BY <1>1, HandlerLeaves
  <2>2. \A u \in Threads, p \in Properties : Sets(u, p)' = Sets(u, p)
    BY <2>1 DEF Sets
  <2>3. /\ Ordered(plan[t]) => Ordered(plan'[t])
        /\ Enables(plan[t]) => Enables(plan'[t])
        /\ \A p : Touches(plan'[t], p) => Touches(plan[t], p)
    <3>1. CASE plan'[t] = <<>> \/ \E a : plan'[t] = Do("confirm", a)
      BY <3>1, NothingLeft
    <3>2. CASE plan'[t] = Tail(plan[t])
      <4>1. ASSUME NEW p, Touches(Tail(plan[t]), p)
            PROVE  Touches(plan[t], p)
        BY <2>1, <4>1, WorkOfTail
      <4> QED  BY <2>1, <3>2, <4>1, OrderOfTail
    <3> QED  BY <2>1, <3>1, <3>2
  <2>4. ASSUME NEW u \in Threads
        PROVE  /\ code'[u] = "none" <=> request'[u] = NoRequest
               /\ Ordered(plan'[u])
               /\ request'[u] # NoRequest => \A p \in Properties :
                      /\ Touches(plan'[u], p) => Sets(u, p) # {}
                      /\ Sets(u, p) # {} => Enables(plan'[u])
    <3>1. CASE u = t
      BY <2>1, <2>3, <3>1 DEF PlansInv
    <3>2. CASE u # t
      BY <2>1, <3>2 DEF PlansInv
    <3> QED  BY <3>1, <3>2
  <2> QED  BY <2>2, <2>4 DEF PlansInv
<1>2. ASSUME NEW t \in Threads, NEW r \in Requests[t], Handles(t, r)
      PROVE  PlansInv'
  <2>1. \A u \in Threads :
            /\ plan'[u] = IF u = t THEN Plan(r) ELSE plan[u]
            /\ code'[u] = IF u = t THEN "running" ELSE code[u]
            /\ request'[u] = IF u = t THEN r ELSE request[u]
    BY <1>2 DEF Handles, Types
  <2>2. r # NoRequest
    <3>1. r.api # "none"
      BY RequestAssumption
    <3> QED  BY <3>1 DEF NoRequest
  <2>3. /\ Plan(r) \in Seq(Steps) /\ Ordered(Plan(r)) /\ ReplacesPasswords(Plan(r))
        /\ (\E i \in DOMAIN Plan(r) : Plan(r)[i].cmd \in Changes) => Enables(Plan(r))
    <3>1. /\ Plan(r) \in Seq(Steps) /\ ReplacesPasswords(Plan(r))
          /\ ReadsAfterReload(Plan(r)) /\ ReloadsAfter(Plan(r)) /\ SwitchesLast(Plan(r))
          /\ (\E i \in DOMAIN Plan(r) : Plan(r)[i].cmd \in Changes) => Enables(Plan(r))
      BY PlansInOrder
    <3>2. Ordered(Plan(r))
      BY <3>1 DEF Ordered, ReplacesPasswords
    <3> QED  BY <3>1, <3>2
  <2>4. \A i \in DOMAIN Plan(r) : Plan(r)[i] \in Steps
    BY <2>3
  <2> HIDE DEF Plan
  <2>5. ASSUME NEW p, Touches(Plan(r), p)
        PROVE  Assigns(t, Plan(r), p) # {}
    <3>1. PICK i \in DOMAIN Plan(r) : Plan(r)[i].cmd \in Changes /\ Plan(r)[i].prop = p
      BY <2>5 DEF Touches
    <3>2. PICK j \in DOMAIN Plan(r) : Plan(r)[j].cmd \in {"set", "add"} /\ Plan(r)[j].prop = p
      <4>1. CASE Plan(r)[i].cmd = "clear"
        <5>1. PICK j \in DOMAIN Plan(r) : Plan(r)[j].cmd = "add"
          BY <2>3, <4>1 DEF ReplacesPasswords, Replaces
        <5>2. Plan(r)[j].prop = "sae_password" /\ Plan(r)[i].prop = "sae_password"
          BY <2>4, <4>1, <5>1, StepKinds
        <5> QED  BY <3>1, <5>1, <5>2
      <4>2. CASE Plan(r)[i].cmd \in {"set", "add"}
        BY <3>1, <4>2
      <4> QED  BY <3>1, <4>1, <4>2 DEF Changes
    <3>3. Plan(r)[j] \in Range(Plan(r))
      BY DEF Range
    <3> QED  BY <3>2, <3>3 DEF Assigns
  <2>6. ASSUME NEW p, Assigns(t, Plan(r), p) # {}
        PROVE  Enables(Plan(r))
    <3>1. PICK x \in Range(Plan(r)) : x.cmd \in {"set", "add"}
      BY <2>6 DEF Assigns
    <3> QED  BY <2>3, <3>1 DEF Range, Changes
  <2>7. ASSUME NEW u \in Threads
        PROVE  /\ code'[u] = "none" <=> request'[u] = NoRequest
               /\ Ordered(plan'[u])
               /\ request'[u] # NoRequest => \A p \in Properties :
                      /\ Touches(plan'[u], p) => Sets(u, p)' # {}
                      /\ Sets(u, p)' # {} => Enables(plan'[u])
    <3>1. CASE u = t
      BY <2>1, <2>2, <2>3, <2>5, <2>6, <3>1 DEF Sets
    <3>2. CASE u # t
      BY <2>1, <3>2 DEF PlansInv, Sets
    <3> QED  BY <3>1, <3>2
  <2> QED  BY <2>7 DEF PlansInv
<1>3. CASE HostapdMoves \/ UNCHANGED requestVars
  <2>1. UNCHANGED <<request, plan, code>>
    BY <1>3 DEF HostapdMoves, requestVars, threadVars
  <2> QED  BY <2>1 DEF PlansInv, Sets
<1> QED  BY <1>1, <1>2, <1>3, StepSplit

\* Every step preserves StagedInv.
LEMMA StagedStep == Types /\ PlansInv /\ StagedInv /\ [Next]_vars => StagedInv'
<1> SUFFICES ASSUME Types, PlansInv, StagedInv, [Next]_vars, NEW p \in Properties
             PROVE  \/ staged'[p] = running'[p]
                    \/ \E u \in Threads :
                           /\ request'[u] # NoRequest /\ Sets(u, p)' # {}
                           /\ ReloadFirst(plan'[u])
  BY DEF StagedInv
<1> HIDE DEF Steps, Properties, Values, AllRequests, Plan
<1>1. staged[p] = running[p]
      \/ \E u \in Threads :
             request[u] # NoRequest /\ Sets(u, p) # {} /\ ReloadFirst(plan[u])
  BY DEF StagedInv
<1>2. ASSUME NEW t \in Threads, Handler(t)
      PROVE  \/ staged'[p] = running'[p]
             \/ \E u \in Threads :
                    /\ request'[u] # NoRequest /\ Sets(u, p)' # {}
                    /\ ReloadFirst(plan'[u])
  <2>1. /\ request' = request /\ code[t] = "running"
        /\ plan[t] \in Seq(Steps) /\ plan[t] # <<>>
        /\ \A u \in Threads \ {t} : plan'[u] = plan[u]
        /\ \/ plan'[t] = plan[t] \/ plan'[t] = <<>> \/ \E a : plan'[t] = Do("confirm", a)
           \/ /\ plan'[t] = Tail(plan[t])
              /\ Head(plan[t]).cmd \in Changes \cup {"reload"} => Applies(t)
    BY <1>2, HandlerLeaves
  <2>2. \A u \in Threads : Sets(u, p)' = Sets(u, p)
    BY <2>1 DEF Sets
  <2>3. request[t] # NoRequest /\ Ordered(plan[t])
    BY <2>1 DEF PlansInv
  <2>4. CASE Applies(t) /\ Head(plan[t]).cmd \in Changes /\ Head(plan[t]).prop = p
    <3>1. Sets(t, p) # {}
      BY <2>1, <2>3, <2>4, WorkOfTail DEF PlansInv
    <3>2. plan'[t] = Tail(plan[t]) \/ plan'[t] = <<>>
      BY <2>4 DEF Applies, GoOn, Return, Types
    <3>3. ReloadFirst(plan'[t])
      BY <2>1, <2>3, <2>4, <3>2, OrderOfHead, NothingLeft
    <3> QED  BY <2>1, <2>2, <2>3, <3>1, <3>3
  <2>5. CASE /\ staged'[p] = staged[p] /\ running'[p] \in {running[p], staged[p]}
             /\ Applies(t) /\ Head(plan[t]).cmd = "reload" => running'[p] = staged[p]
    <3>1. CASE running'[p] = staged[p] \/ staged[p] = running[p]
      BY <2>5, <3>1
    <3>2. CASE running'[p] # staged[p] /\ staged[p] # running[p]
      <4>1. PICK u \in Threads :
                request[u] # NoRequest /\ Sets(u, p) # {} /\ ReloadFirst(plan[u])
        BY <1>1, <3>2
      <4>2. CASE u # t
        BY <2>1, <2>2, <4>1, <4>2
      <4>3. CASE u = t
        <5>1. ReloadFirst(plan[t])
          BY <4>1, <4>3
        <5>2. Applies(t) => Head(plan[t]).cmd # "reload"
          BY <2>5, <3>2
        <5>3. ReloadFirst(plan'[t])
          <6>1. CASE plan'[t] = Tail(plan[t]) /\ Head(plan[t]).cmd # "reload"
            BY <2>1, <5>1, <6>1, OrderOfTail
          <6>2. CASE plan'[t] = <<>> \/ \E a : plan'[t] = Do("confirm", a)
            BY <6>2, NothingLeft
          <6> QED  BY <2>1, <5>1, <5>2, <6>1, <6>2
        <5> QED  BY <2>1, <2>2, <4>1, <4>3, <5>3
      <4> QED  BY <4>2, <4>3
    <3> QED  BY <3>1, <3>2
  <2> QED  BY <1>2, <2>4, <2>5, HandlerPuts
<1>3. ASSUME NEW t \in Threads, NEW r \in Requests[t], Handles(t, r)
      PROVE  \/ staged'[p] = running'[p]
             \/ \E u \in Threads :
                    /\ request'[u] # NoRequest /\ Sets(u, p)' # {}
                    /\ ReloadFirst(plan'[u])
  <2>1. /\ UNCHANGED <<staged, running>> /\ request[t] = NoRequest
        /\ \A u \in Threads \ {t} : plan'[u] = plan[u] /\ request'[u] = request[u]
    BY <1>3 DEF Handles, hostapdVars, Types, PlansInv
  <2>2. \A u \in Threads \ {t} : Sets(u, p)' = Sets(u, p)
    BY <2>1 DEF Sets
  <2> QED  BY <1>1, <2>1, <2>2
<1>4. CASE HostapdMoves \/ UNCHANGED requestVars
  <2>1. /\ UNCHANGED <<request, plan>>
        /\ UNCHANGED <<staged, running>> \/ staged' = running'
    BY <1>4 DEF HostapdMoves, StartingEnds, RadarDetected, Stops, Starts, requestVars, hostapdVars,
                threadVars
  <2>2. \A u \in Threads : Sets(u, p)' = Sets(u, p)
    BY <2>1 DEF Sets
  <2> QED  BY <1>1, <2>1, <2>2
<1> QED  BY <1>2, <1>3, <1>4, StepSplit

\* What a handler that has not failed leaves of its plan.
LEMMA HandlerGoesOn ==
    ASSUME Types, NEW t \in Threads, Handler(t), code'[t] \in {"running", "Succeeded"}
    PROVE  \/ plan'[t] = plan[t] /\ ~Applies(t)
           \/ /\ plan'[t] = Tail(plan[t])
              /\ Head(plan[t]).cmd \in Changes \cup {"reload"} => Applies(t)
           \/ /\ plan'[t] = <<>> /\ Head(plan[t]).cmd = "query" /\ ~Applies(t)
              /\ SeenState = Head(plan[t]).arg /\ (~up \/ Connected(t))
           \/ /\ Head(plan[t]).cmd = "switch" /\ ~Applies(t)
              /\ plan'[t] = Do("confirm", Head(plan[t]).arg)
<1>1. /\ Applies(t) \/ Looks(t)
      /\ plan \in [Threads -> Seq(Steps)] /\ code \in [Threads -> Codes] /\ code[t] = "running"
  BY HandlerSteps DEF Types
<1> HIDE DEF Steps
<1>2. ASSUME NEW c, Return(t, c)
      PROVE  plan'[t] = <<>> /\ code'[t] = c
  BY <1>1, <1>2 DEF Return
<1>3. ASSUME GoOn(t)
      PROVE  plan'[t] = Tail(plan[t])
  BY <1>1, <1>3 DEF GoOn
<1>4. CASE Applies(t)
  BY <1>2, <1>3, <1>4 DEF Applies
<1>5. CASE ~Applies(t)
  <2>1. CASE UNCHANGED <<plan, code>>
    BY <1>5, <2>1
  <2>2. CASE Head(plan[t]).cmd \notin Changes \cup {"reload"} /\ GoOn(t)
    BY <1>3, <2>2
  <2>3. ASSUME NEW c, Return(t, c),
               c = "Succeeded" =>
                   /\ Head(plan[t]).cmd = "query" /\ SeenState = Head(plan[t]).arg
                   /\ ~up \/ Connected(t),
               c # "running"
        PROVE  /\ plan'[t] = <<>> /\ Head(plan[t]).cmd = "query" /\ ~Applies(t)
               /\ SeenState = Head(plan[t]).arg /\ (~up \/ Connected(t))
    BY <1>2, <1>5, <2>3
  <2>4. CASE /\ Head(plan[t]).cmd = "switch"
             /\ plan' = [plan EXCEPT ![t] = Do("confirm", Head(plan[t]).arg)]
    BY <1>1, <1>5, <2>4
  <2> QED  BY <1>1, <1>5, <2>1, <2>2, <2>3, <2>4 DEF Looks
<1> QED  BY <1>4, <1>5

\* A thread's own step keeps what it has to set apart from what it has set.
LEMMA OwnStep ==
    ASSUME Types, PlansInv, NEW t \in Threads, Handler(t), NEW p \in Properties,
           Sets(t, p) # {}, code'[t] \in {"running", "Succeeded"},
           Before(t, p) \/ Since(t, p)
    PROVE  Before(t, p)' \/ Since(t, p)'
<1> DEFINE s == plan[t]
           h == Head(s)
           r == Tail(s)
<1>1. /\ request' = request /\ epoch' = epoch /\ code[t] = "running"
      /\ s \in Seq(Steps) /\ s # <<>>
  BY HandlerLeaves
<1>2. Sets(t, p)' = Sets(t, p)
  BY <1>1 DEF Sets
<1>3. /\ Ordered(s) /\ request[t] # NoRequest
  BY <1>1 DEF PlansInv
<1>4. conn \in [Threads -> 0 .. epoch] /\ epoch # 0
  BY ProcessAssumption DEF Types
<1>5. h \in Steps /\ r \in Seq(Steps)
  BY <1>1, HeadAndTail
<1>6. /\ Opens(s, p) <=> (h.cmd \in {"set", "clear"} /\ h.prop = p) \/ Opens(r, p)
      /\ Clears(s, p) <=> (h.cmd = "clear" /\ h.prop = p) \/ Clears(r, p)
      /\ Reloads(s) <=> h.cmd = "reload" \/ Reloads(r)
      /\ Assigns(t, s, p) =
             Assigns(t, r, p) \cup
             IF h.cmd \in {"set", "add"} /\ h.prop = p THEN {<<t, h.arg>>} ELSE {}
  <2>1. s \in Seq(Steps) /\ s # <<>>
    BY <1>1
  <2> HIDE DEF s, Steps
  <2>2. Opens(s, p) <=> (h.cmd \in {"set", "clear"} /\ h.prop = p) \/ Opens(r, p)
    BY <2>1, WorkOfTail
  <2>3. Clears(s, p) <=> (h.cmd = "clear" /\ h.prop = p) \/ Clears(r, p)
    BY <2>1, WorkOfTail
  <2>4. Reloads(s) <=> h.cmd = "reload" \/ Reloads(r)
    BY <2>1, WorkOfTail
  <2>5. Assigns(t, s, p) =
             Assigns(t, r, p) \cup
             IF h.cmd \in {"set", "add"} /\ h.prop = p THEN {<<t, h.arg>>} ELSE {}
    BY <2>1, WorkOfTail
  <2> QED  BY <2>2, <2>3, <2>4, <2>5
<1> HIDE DEF Steps, Properties, Plan
<1>7. Applies(t) \/ Looks(t)
  BY HandlerSteps
<1>8. CASE Applies(t) /\ h.cmd \in Changes /\ h.prop = p
  <2>1. /\ Connected(t) /\ Connect(t) /\ plan'[t] = r
    <3>1. plan'[t] = r
      BY <1>8, HandlerGoesOn DEF Changes
    <3> QED  BY <1>8, <3>1 DEF Applies
  <2>2. conn'[t] = epoch /\ conn[t] \in {0, epoch}
    BY <1>4, <2>1 DEF Connect, Connected
  <2>3. h.prop \notin Held => Reloads(r)
    BY <1>1, <1>3, <1>8, OrderOfHead
  <2>4. p = "ieee80211w" \/ running'[p] = staged'[p] \/ Reloads(plan'[t])
    BY <1>8, <2>1, <2>3, ChangePuts DEF Held
  <2>5. CASE h.cmd = "set"
    <3>1. p # "sae_password" /\ h.arg = 1
      BY <1>5, <1>8, <2>5, StepKinds
    <3>2. Sets(t, p) = {<<t, 1>>}
      <4>1. Plan(request[t]) \in Seq(Steps)
        BY <1>3, PlansInOrder DEF Types
      <4> QED  BY <3>1, <4>1, SetOnce DEF Sets
    <3>3. Assigns(t, r, p) \subseteq {<<t, 1>>} /\ ~Clears(r, p)
      BY <1>5, <3>1, SetOnce
    <3>4. staged'[p] = {<<t, 1>>}
      BY <1>8, <2>5, <3>1, ChangePuts
    <3> QED  BY <1>1, <1>2, <1>4, <2>1, <2>2, <2>4, <3>2, <3>3, <3>4 DEF Since
  <2>6. CASE h.cmd = "clear"
    <3>1. ~Since(t, p)
      BY <1>6, <1>8, <2>6 DEF Since
    <3>2. Assigns(t, r, p) = Sets(t, p)
      BY <1>6, <2>6, <3>1 DEF Before
    <3>3. ~Clears(r, p)
      BY <1>1, <1>3, <2>6, OrderOfHead
    <3>4. staged'[p] = {}
      BY <1>8, <2>6, ChangePuts
    <3> QED  BY <1>1, <1>2, <1>4, <2>1, <2>2, <2>4, <3>2, <3>3, <3>4 DEF Since
  <2>7. CASE h.cmd = "add"
    <3>1. p = "sae_password"
      BY <1>5, <1>8, <2>7, StepKinds
    <3>2. ~Clears(r, p)
      BY <1>1, <1>3, <2>7, OrderOfHead
    <3>3. ~Opens(r, p)
      <4>1. ASSUME NEW i \in DOMAIN r, r[i].cmd = "set"
            PROVE  r[i].prop # p
        <5>1. r[i] \in Steps
          BY <1>5
        <5> QED  BY <3>1, <4>1, <5>1, StepKinds
      <4> QED  BY <3>2, <4>1 DEF Opens, Clears
    <3>4. ~Before(t, p)
      BY <1>6, <2>7, <3>3 DEF Before
    <3>5. staged[p] \cup Assigns(t, s, p) = Sets(t, p)
      BY <2>2, <3>4 DEF Since
    <3>6. staged'[p] = staged[p] \cup {<<t, h.arg>>}
      BY <1>8, <2>7, ChangePuts
    <3>7. staged'[p] \cup Assigns(t, r, p) = Sets(t, p)
      BY <1>6, <1>8, <2>7, <3>5, <3>6
    <3> QED  BY <1>1, <1>2, <1>4, <2>1, <2>2, <2>4, <3>2, <3>7 DEF Since
  <2> QED  BY <1>8, <2>5, <2>6, <2>7 DEF Changes
<1>9. CASE ~(Applies(t) /\ h.cmd \in Changes /\ h.prop = p)
  <2>1. /\ staged'[p] = staged[p] /\ running'[p] \in {running[p], staged[p]}
        /\ Applies(t) /\ h.cmd = "reload" => running'[p] = staged[p]
    BY <1>9, HandlerPuts
  <2>2. conn[t] # 0 => conn'[t] = conn[t]
    BY <1>4, <1>7 DEF Applies, Looks, Connect
  <2>3. ASSUME NEW q, plan'[t] = q, Opens(q, p) <=> Opens(s, p), Clears(q, p) => Clears(s, p),
               Reloads(s) => Reloads(q) \/ running'[p] = staged[p],
               Assigns(t, q, p) = Assigns(t, s, p)
        PROVE  Before(t, p)' \/ Since(t, p)'
    BY <1>1, <1>2, <2>1, <2>2, <2>3 DEF Before, Since
  <2>4. CASE plan'[t] = s
    BY <2>3, <2>4
  <2>5. CASE plan'[t] = r /\ (h.cmd \in Changes \cup {"reload"} => Applies(t))
    <3>1. ~(h.cmd \in {"set", "add", "clear"} /\ h.prop = p)
      BY <1>9, <2>5 DEF Changes
    <3>2. /\ Opens(r, p) <=> Opens(s, p)
          /\ Clears(r, p) => Clears(s, p)
          /\ Assigns(t, r, p) = Assigns(t, s, p)
      BY <1>6, <3>1
    <3>3. Reloads(s) => Reloads(r) \/ running'[p] = staged[p]
      BY <1>6, <2>1, <2>5
    <3> QED  BY <2>3, <2>5, <3>2, <3>3
  <2>6. CASE /\ h.cmd \in {"query", "switch"}
             /\ plan'[t] = <<>> \/ plan'[t] = Do("confirm", h.arg)
    <3>1. ~Opens(s, p) /\ ~Reloads(s) /\ Assigns(t, s, p) = {}
      BY <1>1, <1>3, <2>6, StateAtEnd
    <3>2. ~Opens(plan'[t], p) /\ ~Clears(plan'[t], p) /\ Assigns(t, plan'[t], p) = {}
      BY <2>6, NothingLeft
    <3> QED  BY <2>3, <3>1, <3>2
  <2> QED  BY <2>4, <2>5, <2>6, HandlerGoesOn
<1> QED  BY <1>8, <1>9

\* The other threads keep what they have set unless one sets it too.
LEMMA OthersStep ==
    ASSUME Types, PlansInv, NEW t \in Threads, Handler(t), NEW u \in Threads \ {t},
           NEW p \in Properties, ~Contended(u, p), Before(u, p) \/ Since(u, p)
    PROVE  Before(u, p)' \/ Since(u, p)'
<1>1. /\ request' = request /\ epoch' = epoch /\ code[t] = "running"
      /\ plan[t] \in Seq(Steps) /\ plan[t] # <<>>
      /\ plan'[u] = plan[u] /\ conn'[u] = conn[u]
  BY HandlerLeaves
<1>2. Sets(u, p)' = Sets(u, p)
  BY <1>1 DEF Sets
<1>3. staged'[p] = staged[p] /\ running'[p] \in {running[p], staged[p]}
  <2>1. CASE Head(plan[t]).cmd \in Changes /\ Head(plan[t]).prop = p
    <3>1. Touches(plan[t], p)
      BY <1>1, <2>1, HeadAndTail DEF Touches
    <3>2. request[t] # NoRequest /\ Sets(t, p) # {}
      BY <1>1, <3>1 DEF PlansInv
    <3>3. Contended(u, p)
      BY <3>2 DEF Contended
    <3> QED  BY <3>3
  <2>2. CASE ~(Head(plan[t]).cmd \in Changes /\ Head(plan[t]).prop = p)
    BY <2>2, HandlerPuts
  <2> QED  BY <2>1, <2>2
<1> QED  BY <1>1, <1>2, <1>3 DEF Before, Since

\* Every step preserves AppliedInv.
LEMMA AppliedStep == Types /\ PlansInv /\ AppliedInv /\ [Next]_vars => AppliedInv'
<1> SUFFICES ASSUME Types, PlansInv, AppliedInv, [Next]_vars,
                    NEW u \in Threads, NEW p \in Properties,
                    code'[u] \in {"running", "Succeeded"},
                    Sets(u, p)' # {}, ~Contended(u, p)'
             PROVE  Before(u, p)' \/ Since(u, p)'
  BY DEF AppliedInv
<1> HIDE DEF Steps, Properties, Values, AllRequests, Plan
<1>1. ASSUME NEW t \in Threads, Handler(t)
      PROVE  Before(u, p)' \/ Since(u, p)'
  <2>1. /\ request' = request /\ code[t] = "running"
        /\ \A v \in Threads \ {t} : code'[v] = code[v]
    BY <1>1, HandlerLeaves
  <2>2. \A v \in Threads : Sets(v, p)' = Sets(v, p)
    BY <2>1 DEF Sets
  <2>3. Sets(u, p) # {} /\ ~Contended(u, p)
    BY <2>1, <2>2 DEF Contended
  <2>4. Before(u, p) \/ Since(u, p)
    BY <2>1, <2>3 DEF AppliedInv
  <2> QED  BY <1>1, <2>3, <2>4, OwnStep, OthersStep
<1>2. ASSUME NEW t \in Threads, NEW r \in Requests[t], Handles(t, r)
      PROVE  Before(u, p)' \/ Since(u, p)'
  <2>1. /\ UNCHANGED <<staged, running, epoch, conn>>
        /\ code[t] = "none" /\ request[t] = NoRequest
        /\ \A v \in Threads :
               /\ plan'[v] = IF v = t THEN Plan(r) ELSE plan[v]
               /\ code'[v] = IF v = t THEN "running" ELSE code[v]
               /\ request'[v] = IF v = t THEN r ELSE request[v]
    BY <1>2 DEF Handles, hostapdVars, Types, PlansInv
  <2>2. CASE u = t
    <3>1. Assigns(t, plan'[t], p) = Sets(t, p)' /\ plan'[t] = Plan(r)
      BY <2>1 DEF Sets
    <3>2. Plan(r) \in Seq(Steps) /\ ClearsFirst(Plan(r))
      BY PlanOfRequest
    <3>3. \A i \in DOMAIN Plan(r) : Plan(r)[i] \in Steps
      BY <3>2
    <3>4. PICK i \in DOMAIN Plan(r) :
              Plan(r)[i].cmd \in {"set", "add"} /\ Plan(r)[i].prop = p
      <4>1. Assigns(t, Plan(r), p) # {}
        BY <2>2, <3>1
      <4>2. PICK x \in Range(Plan(r)) : x.cmd \in {"set", "add"} /\ x.prop = p
        BY <4>1 DEF Assigns
      <4> QED  BY <4>2 DEF Range
    <3>5. CASE Plan(r)[i].cmd = "set"
      BY <2>2, <3>1, <3>4, <3>5 DEF Before, Opens
    <3>6. CASE Plan(r)[i].cmd = "add"
      <4>1. Len(Plan(r)) \in Nat /\ DOMAIN Plan(r) = 1 .. Len(Plan(r))
        BY <3>2
      <4>2. PICK j \in 1 .. i - 1 : Plan(r)[j].cmd = "clear"
        BY <3>2, <3>6 DEF ClearsFirst
      <4>3. j \in DOMAIN Plan(r)
        BY <4>1
      <4>4. Plan(r)[i].prop = "sae_password" /\ Plan(r)[j].prop = "sae_password"
        BY <3>3, <3>6, <4>2, <4>3, StepKinds
      <4>5. Opens(Plan(r), p)
        BY <3>4, <4>2, <4>3, <4>4 DEF Opens
      <4> QED  BY <2>2, <3>1, <4>5 DEF Before
    <3> QED  BY <3>4, <3>5, <3>6
  <2>3. CASE u # t
    <3>1. \A v \in Threads \ {t} : Sets(v, p)' = Sets(v, p)
      BY <2>1 DEF Sets
    <3>2. Sets(u, p) # {} /\ ~Contended(u, p) /\ code[u] = code'[u]
      BY <2>1, <2>3, <3>1 DEF Contended
    <3>3. Before(u, p) \/ Since(u, p)
      BY <3>2 DEF AppliedInv
    <3> QED  BY <2>1, <2>3, <3>1, <3>3 DEF Before, Since
  <2> QED  BY <2>2, <2>3
<1>3. CASE HostapdMoves \/ UNCHANGED requestVars
  <2>1. UNCHANGED <<request, plan, conn, code>>
    BY <1>3 DEF HostapdMoves, requestVars, threadVars
  <2>2. \A v \in Threads : Sets(v, p)' = Sets(v, p)
    BY <2>1 DEF Sets
  <2>3. Sets(u, p) # {} /\ ~Contended(u, p)
    BY <2>1, <2>2 DEF Contended
  <2>4. Before(u, p) \/ Since(u, p)
    BY <2>1, <2>3 DEF AppliedInv
  <2>5. CASE UNCHANGED <<staged, running, epoch>>
    BY <2>1, <2>2, <2>4, <2>5 DEF Before, Since
  <2>6. CASE epoch' = epoch + 1
    <3>1. conn'[u] # epoch'
      <4>1. conn[u] \in 0 .. epoch /\ epoch \in Nat
        BY ProcessAssumption DEF Types
      <4> QED  BY <2>1, <2>6, <4>1
    <3> QED  BY <2>1, <2>2, <2>4, <3>1 DEF Before, Since
  <2> QED  BY <1>3, <2>5, <2>6
          DEF HostapdMoves, StartingEnds, RadarDetected, Stops, Starts, requestVars, hostapdVars
<1> QED  BY <1>1, <1>2, <1>3, StepSplit

-----------------------------------------------------------------------------
\* A handler that succeeds and has changed something has reached the hostapd
\* that runs.
LEMMA SuccessReaches ==
    ASSUME Types, PlansInv, NEW t \in Threads, Handler(t), NEW p \in Properties,
           Sets(t, p) # {}, code'[t] = "Succeeded"
    PROVE  conn'[t] \in {0, epoch'} /\ plan'[t] = <<>>
<1> DEFINE s == plan[t]
           h == Head(s)
<1>1. /\ request' = request /\ epoch' = epoch /\ code[t] = "running"
      /\ s \in Seq(Steps) /\ s # <<>>
      /\ Applies(t) \/ Looks(t)
  BY HandlerLeaves, HandlerSteps
<1>2. Ordered(s) /\ Enables(s)
  BY <1>1 DEF PlansInv
<1>3. conn \in [Threads -> 0 .. epoch] /\ plan \in [Threads -> Seq(Steps)]
      /\ code \in [Threads -> Codes]
  BY DEF Types
<1> HIDE DEF Steps, Properties, Plan
<1>4. plan'[t] = <<>>
  <2>1. plan'[t] # <<>> <=> code'[t] = "running"
    BY PlanTyped
  <2> QED  BY <2>1
<1>5. UNCHANGED conn \/ Connect(t)
  BY <1>1 DEF Applies, Looks
<1>6. Connected(t) => conn'[t] \in {0, epoch'}
  BY <1>1, <1>3, <1>5 DEF Connected, Connect
<1>7. CASE Applies(t)
  BY <1>4, <1>6, <1>7 DEF Applies
<1>8. CASE ~Applies(t)
  <2>1. CASE h.cmd \in Checks \cup {"query"} /\ GoOn(t)
    <3>1. Len(s) = 1
      BY <1>1, <1>3, <2>1 DEF GoOn
    <3>2. h = s[Len(s)]
      BY <1>1, <3>1, HeadAndTail
    <3>3. h.cmd \notin Checks
      BY <1>1, <1>2, <3>2 DEF Enables
    <3>4. h.cmd # "query"
      <4>1. h.cmd = "query" => Len(s) = 2
        BY <1>1, <1>2, OrderOfHead
      <4> QED  BY <3>1, <4>1
    <3> QED  BY <2>1, <3>3, <3>4
  <2>2. CASE h.cmd = "query" /\ SeenState = h.arg /\ (~up \/ Connected(t))
    <3>1. s[1] = h /\ 1 \in DOMAIN s
      BY <1>1, HeadAndTail
    <3>2. h.arg = "ENABLED"
      BY <1>2, <2>2, <3>1 DEF Enables
    <3>3. up
      BY <2>2, <3>2 DEF SeenState
    <3> QED  BY <1>4, <1>6, <2>2, <3>3
  <2>3. CASE Connected(t)
    BY <1>4, <1>6, <2>3
  <2>4. code'[t] # code[t]
    BY <1>1
  <2>5. Looks(t)
    BY <1>1, <1>8
  <2>6. ASSUME NEW c, Return(t, c)
        PROVE  code'[t] = c
    BY <1>3, <2>6 DEF Return
  <2> QED  BY <2>1, <2>2, <2>3, <2>4, <2>5, <2>6 DEF Looks
<1> QED  BY <1>7, <1>8

-----------------------------------------------------------------------------
(* The theorems                                                              *)

\* All invariants hold at first.
LEMMA InvInit == Init => Types /\ PasswordsInv /\ TraceInv
<1> SUFFICES ASSUME Init PROVE PasswordsInv /\ TraceInv
  BY TypesInit
<1>1. "sae_password" \in Properties
  BY DEF Properties
<1> HIDE DEF Properties
<1>2. PasswordsInv
  BY <1>1, ShortPlans
     DEF Init, HostapdInit, FileConfiguration, PasswordsInv, OldPasswordsGone
<1>3. TraceInv
  BY ValueAssumption
     DEF Init, HostapdInit, FileConfiguration, TraceInv, Traceless, NoRequest
<1> QED  BY <1>2, <1>3

\* Where the listeners of the controllers are.
ListenerTypes ==
    /\ listener \in [Threads -> {"none", "running", "joined"} \cup Ending]
    /\ \A t \in Threads : listener[t] \in Ending => code[t] \notin {"none", "running"}

\* A handler starts its listener once, and stops it when it has its result.
LEMMA ListenerStep == Types /\ ListenerTypes /\ [Next]_vars => ListenerTypes'
<1> SUFFICES ASSUME Types, ListenerTypes, [Next]_vars PROVE ListenerTypes'
  OBVIOUS
<1> USE DEF ListenerTypes, Ending
<1>1. ASSUME NEW t \in Threads, Handler(t)
      PROVE  ListenerTypes'
  <2>1. listener' = listener \/ \E place \in {"none", "running"} :
                                    listener' = [listener EXCEPT ![t] = place]
    BY <1>1 DEF Handler, Refused, CreateController, CheckCapability, ThrowCaught, Change, ReadBack,
                QueryState, SwitchState, ConfirmState
  <2>2. code[t] = "running" /\ \A u \in Threads \ {t} : code'[u] = code[u]
    BY <1>1, HandlerLeaves
  <2> QED  BY <2>1, <2>2
<1>2. ASSUME NEW t \in Threads, NEW r \in Requests[t], Handles(t, r)
      PROVE  ListenerTypes'
  BY <1>2 DEF Handles, Types
<1>3. CASE HostapdMoves
  BY <1>3 DEF HostapdMoves, threadVars
<1>4. ASSUME NEW t \in Threads, DestroyController(t) \/ ListenerWoken(t)
      PROVE  ListenerTypes'
  BY <1>4 DEF DestroyController, SignalListener, RequestStop, JoinListener, ListenerWoken, ListenerGoes,
              requestVars, threadVars
<1>5. CASE UNCHANGED vars
  BY <1>5 DEF vars, requestVars, threadVars
<1> QED  BY <1>1, <1>2, <1>3, <1>4, <1>5 DEF Next

\* All invariants hold always.
LEMMA InvHolds == Spec => [](Types /\ PasswordsInv /\ TraceInv)
<1>1. Types /\ PasswordsInv /\ TraceInv /\ [Next]_vars => (Types /\ PasswordsInv /\ TraceInv)'
  BY TypesStep, PasswordsStep, TracesStep
<1> QED  BY <1>1, InvInit, PTL DEF Spec

\* The plans and what they have set, at first.
LEMMA AppliedInit == Init => PlansInv /\ AppliedInv /\ StagedInv
<1> SUFFICES ASSUME Init PROVE PlansInv /\ AppliedInv /\ StagedInv
  OBVIOUS
<1>1. /\ \A t \in Threads : plan[t] = <<>> /\ code[t] = "none" /\ request[t] = NoRequest
      /\ staged = running
  BY DEF Init, HostapdInit
<1> HIDE DEF Plan
<1>2. PlansInv
  BY <1>1, NothingLeft DEF PlansInv
<1>3. AppliedInv /\ StagedInv
  BY <1>1 DEF AppliedInv, StagedInv
<1> QED  BY <1>2, <1>3

\* They hold always.
LEMMA AppliedHolds == Spec => [](Types /\ PlansInv /\ AppliedInv /\ StagedInv)
<1> DEFINE Inv == Types /\ PlansInv /\ AppliedInv /\ StagedInv
<1>1. Init => Inv
  BY TypesInit, AppliedInit
<1>2. Inv /\ [Next]_vars => Inv'
  BY TypesStep, PlansStep, AppliedStep, StagedStep
<1> QED  BY <1>1, <1>2, PTL DEF Spec

\* Threads, requests, commands and hostapd's values are of the kinds they are
\* declared with, and a request runs as long as something of it is left to do.
THEOREM TypeCorrect == Spec => []TypeOK
<1>1. Types /\ ListenerTypes => TypeOK
  <2> SUFFICES ASSUME Types, ListenerTypes PROVE TypeOK
    OBVIOUS
  <2> HIDE DEF Steps, Properties
  <2>1. \A p \in Properties : \A v \in staged[p] \cup running[p] :
            v = FileValue \/ v \in Threads \X Nat
    BY DEF Types, Values
  <2>2. ASSUME NEW t \in Threads, NEW i \in DOMAIN plan[t]
        PROVE  plan[t][i].cmd \in Commands
    <3>1. plan[t][i] \in Steps
      BY DEF Types
    <3> QED  BY <3>1, StepKinds
  <2> QED  BY <2>1, <2>2 DEF Types, ListenerTypes, TypeOK
<1>2. Init => Types /\ ListenerTypes
  BY TypesInit DEF Init, ListenerTypes, Ending
<1>3. Types /\ ListenerTypes /\ [Next]_vars => (Types /\ ListenerTypes)'
  BY TypesStep, ListenerStep
<1> QED  BY <1>1, <1>2, <1>3, PTL DEF Spec

\* SetSaePasswords: however many requests, failures and restarts follow each
\* other, no password of a request works beside one of hostapd's file.
THEOREM PasswordsReplaced == Spec => []OldPasswordsGone
<1>1. PasswordsInv => OldPasswordsGone
  BY DEF PasswordsInv
<1> QED  BY <1>1, InvHolds, PTL

\* WifiAccessPointSet...Impl: a request for one item that is answered with one
\* of the codes for what cannot be done has changed nothing of hostapd's.
THEOREM RejectionsTraceless == Spec => []RejectedLeavesNoTrace
<1>1. Types /\ TraceInv => RejectedLeavesNoTrace
  <2> SUFFICES ASSUME Types, TraceInv,
                      NEW t \in Threads, request[t] # NoRequest, request[t].api = "Set",
                      code[t] \in Rejections,
                      NEW p \in Properties, NEW v \in staged[p]
               PROVE  v = FileValue \/ v[1] # t
    BY DEF RejectedLeavesNoTrace, Rejections
  <2>1. Traceless(t)
    BY DEF TraceInv, Committed
  <2>2. v = FileValue \/ v \in Threads \X Nat
    BY DEF Types, Values
  <2>3. ASSUME v \in Threads \X Nat, v[1] = t
        PROVE  FALSE
    <3>1. v = <<t, v[2]>> /\ v[2] \in Nat
      BY <2>3
    <3> QED  BY <2>1, <3>1 DEF Traceless
  <2> QED  BY <2>2, <2>3
<1> QED  BY <1>1, InvHolds, PTL

\* SetProperty, Reload: whatever other requests reload meanwhile, a request that
\* succeeds has put everything it sets into effect, but for the protection of a
\* 6 GHz band and what another request sets too.
THEOREM SuccessApplied == Spec => SuccessIsApplied
<1> DEFINE Good ==
        \A t \in Threads : code[t] = "running" /\ code'[t] = "Succeeded" =>
            \A p \in Properties \ {"ieee80211w"} :
                Sets(t, p) = {} \/ Contended(t, p) \/ running'[p] = Sets(t, p)
<1>1. ASSUME Types, PlansInv, Types', AppliedInv', [Next]_vars
      PROVE  Good
  <2> SUFFICES ASSUME NEW t \in Threads, code[t] = "running", code'[t] = "Succeeded",
                      NEW p \in Properties \ {"ieee80211w"},
                      Sets(t, p) # {}, ~Contended(t, p)
               PROVE  running'[p] = Sets(t, p)
    OBVIOUS
  <2> HIDE DEF Steps, Properties, Values, AllRequests, Plan
  <2>1. Handler(t)
    <3>1. ASSUME NEW u \in Threads, Handler(u), u # t
          PROVE  FALSE
      BY <1>1, <3>1, HandlerLeaves
    <3>2. ASSUME NEW u \in Threads, NEW r \in Requests[u], Handles(u, r)
          PROVE  FALSE
      BY <1>1, <3>2 DEF Handles, Types
    <3>3. CASE HostapdMoves \/ UNCHANGED requestVars
      BY <3>3 DEF HostapdMoves, requestVars, threadVars
    <3> QED  BY <1>1, <3>1, <3>2, <3>3, StepSplit
  <2>2. request' = request
    BY <1>1, <2>1, HandlerLeaves
  <2>3. \A u \in Threads : Sets(u, p)' = Sets(u, p)
    BY <2>2 DEF Sets
  <2>4. Sets(t, p)' # {} /\ ~Contended(t, p)'
    BY <2>2, <2>3 DEF Contended
  <2>5. Before(t, p)' \/ Since(t, p)'
    BY <1>1, <2>4 DEF AppliedInv
  <2>6. conn'[t] \in {0, epoch'} /\ plan'[t] = <<>>
    BY <1>1, <2>1, SuccessReaches
  <2>7. ~Opens(plan'[t], p) /\ ~Reloads(plan'[t]) /\ Assigns(t, plan'[t], p) = {}
    <3>1. ~Opens(<<>>, p) /\ Assigns(t, <<>>, p) = {}
      BY NothingLeft
    <3>2. ~Reloads(<<>>)
      BY DEF Reloads
    <3> QED  BY <2>6, <3>1, <3>2
  <2>8. Since(t, p)'
    BY <2>5, <2>7 DEF Before
  <2> QED  BY <2>3, <2>6, <2>7, <2>8 DEF Since
<1>2. Types /\ PlansInv /\ (Types /\ AppliedInv)' /\ [Next]_vars => [Good]_vars
  BY <1>1
<1>3. SuccessIsApplied <=> [][Good]_vars
  BY DEF SuccessIsApplied
<1> QED  BY <1>2, <1>3, AppliedHolds, PTL DEF Spec

\* WifiAccessPointEnable: an interface that a request's ENABLE brings up comes up
\* with all that the request sets, unless another request sets it too.
THEOREM EnabledConfigured == Spec => EnabledAsConfigured
<1> DEFINE Good ==
        \A t \in Threads :
            At(t, {"switch"}) /\ plan'[t] # plan[t] /\ state = "DISABLED" /\ state' # "DISABLED" =>
                \A p \in Properties :
                    Sets(t, p) = {} \/ Contended(t, p) \/ running'[p] = Sets(t, p)
<1>1. ASSUME Types, PlansInv, AppliedInv, [Next]_vars
      PROVE  Good
  <2> SUFFICES ASSUME NEW t \in Threads, At(t, {"switch"}), plan'[t] # plan[t],
                      state = "DISABLED", state' # "DISABLED",
                      NEW p \in Properties, Sets(t, p) # {}, ~Contended(t, p)
               PROVE  running'[p] = Sets(t, p)
    OBVIOUS
  <2> HIDE DEF Steps, Properties, Values, AllRequests, Plan
  <2>1. Handler(t)
    <3>1. ASSUME NEW u \in Threads, Handler(u), u # t
          PROVE  FALSE
      BY <1>1, <3>1, HandlerLeaves
    <3>2. ASSUME NEW u \in Threads, NEW r \in Requests[u], Handles(u, r)
          PROVE  FALSE
      BY <3>2 DEF Handles, hostapdVars
    <3>3. CASE HostapdMoves \/ UNCHANGED requestVars
      BY <3>3 DEF HostapdMoves, requestVars, threadVars
    <3> QED  BY <1>1, <3>1, <3>2, <3>3, StepSplit
  <2>2. /\ plan[t] \in Seq(Steps) /\ plan[t] # <<>> /\ Head(plan[t]).cmd = "switch"
        /\ code[t] = "running" /\ (Applies(t) \/ Looks(t))
    BY <1>1, <2>1, HandlerLeaves, HandlerSteps DEF At
  <2>3. Connected(t) /\ running' = staged
    <3>1. ~Applies(t)
      BY <2>2 DEF Applies, Changes
    <3> QED  BY <2>2, <3>1 DEF Looks, hostapdVars, EnableInterface, DisableInterface
  <2>4. Ordered(plan[t])
    BY <1>1 DEF PlansInv
  <2>5. ~Opens(plan[t], p) /\ Assigns(t, plan[t], p) = {}
    BY <2>2, <2>4, StateAtEnd
  <2>6. Since(t, p)
    <3>1. Before(t, p) \/ Since(t, p)
      BY <1>1, <2>2 DEF AppliedInv
    <3> QED  BY <2>5, <3>1 DEF Before
  <2> QED  BY <2>3, <2>5, <2>6 DEF Since, Connected
<1>2. Types /\ PlansInv /\ AppliedInv /\ [Next]_vars => [Good]_vars
  BY <1>1
<1>3. EnabledAsConfigured <=> [][Good]_vars
  BY DEF EnabledAsConfigured
<1> QED  BY <1>2, <1>3, AppliedHolds, PTL DEF Spec

\* noexcept: when the check of a change terminates the server, nothing of the
\* request is staged and not in effect.
THEOREM AbortsAfterApplying == Spec => AbortsOnlyAfterApplying
<1> DEFINE Good ==
        \A t \in Threads : At(t, {"read"}) /\ aborted' =>
            \A p \in Properties : Contended(t, p) \/ staged[p] = running[p]
<1>1. ASSUME Types, StagedInv
      PROVE  Good
  <2> SUFFICES ASSUME NEW t \in Threads, At(t, {"read"}), NEW p \in Properties,
                      staged[p] # running[p]
               PROVE  Contended(t, p)
    OBVIOUS
  <2> HIDE DEF Steps, Properties, Plan
  <2>1. PICK u \in Threads :
            request[u] # NoRequest /\ Sets(u, p) # {} /\ ReloadFirst(plan[u])
    BY <1>1 DEF StagedInv
  <2>2. u # t
    <3>1. plan[t] \in Seq(Steps) /\ plan[t] # <<>> /\ Head(plan[t]).cmd = "read"
      BY <1>1 DEF At, Types
    <3>2. ~ReloadFirst(plan[t])
      BY <3>1, OrderOfTail
    <3> QED  BY <2>1, <3>2
  <2> QED  BY <2>1, <2>2 DEF Contended
<1>2. Types /\ StagedInv => [Good]_vars
  BY <1>1
<1>3. AbortsOnlyAfterApplying <=> [][Good]_vars
  BY DEF AbortsOnlyAfterApplying
<1> QED  BY <1>2, <1>3, AppliedHolds, PTL
=============================================================================

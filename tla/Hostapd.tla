------------------------------- MODULE Hostapd -------------------------------
(***************************************************************************)
(* What the methods of the Hostapd class send to hostapd, command by         *)
(* command.  A method stops at the first command that is not answered with   *)
(* OK, and throws a HostapdException.                                        *)
(***************************************************************************)
EXTENDS Naturals, Sequences

Step(cmd, prop, arg) == [cmd |-> cmd, prop |-> prop, arg |-> arg]

Command(cmd, prop, arg) == <<Step(cmd, prop, arg)>>

\* An argument hostapd has no value for: the method throws by itself.
Throw == Command("throw", "", 0)

Reload == Command("reload", "", 0)

\* GetStatus and GetConfiguration.
Read == Command("read", "", 0)

\* (mutant) a change that is to be enforced now is deferred too
EnforceNever(enforce) == <<>>

Enforce(enforce) == IF enforce = "Now" THEN Reload ELSE <<>>

SetProperty(prop, enforce) == Command("set", prop, 1) \o Enforce(enforce)

SetAuthenticationAlgorithms(known, enforce) ==
    IF known THEN SetProperty("auth_algs", enforce) ELSE Throw

\* Fast transition gets a NAS identifier, which SetNetworkAccessServerId has
\* enforced at once.
SetKeyManagement(keys, enforce) ==
    IF "unknown" \in keys THEN Throw ELSE
    (IF "ft" \in keys THEN SetProperty("nas_identifier", "Now") ELSE <<>>)
    \o (IF "8021x" \in keys THEN SetProperty("ieee8021x", "Defer") ELSE <<>>)
    \o SetProperty("wpa_key_mgmt", enforce)

\* One property per protocol, each enforced; a protocol that is not known, or
\* without ciphers, throws.  WPA2 and WPA3 are one value, so there are three.
SetPairwiseCipherSuites(suites, enforce) ==
    LET Protocol(i) ==
            IF i \notin DOMAIN suites THEN <<>>
            ELSE IF suites[i].ciphers THEN SetProperty(suites[i].prop, enforce) ELSE Throw
    IN  Protocol(1) \o Protocol(2) \o Protocol(3)

SetPreSharedKey(enforce) == SetProperty("psk", enforce)

\* All passwords are cleared, the new ones added one by one, then enforced.
SetSaePasswords(n, enforce) ==
    Command("clear", "sae_password", 0)
    \o [k \in 1 .. n |-> Step("add", "sae_password", k)]
    \o Enforce(enforce)

SetBridgeInterface(enforce) == SetProperty("bridge", enforce)

\* An endpoint's address and shared secret; the port, a third property of the
\* same server, is left out.
AddRadiusEndpoints(types, enforce) ==
    [k \in 1 .. 2 * Len(types) |->
        LET type == types[(k + 1) \div 2] IN
        IF type = "unknown" THEN Step("throw", "", 0) ELSE Step("set", type, 1)]
    \o Enforce(enforce)
=============================================================================

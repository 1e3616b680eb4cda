------------------------------ MODULE WebProxy ------------------------------
(***************************************************************************)
(* The gateway's HTTP proxy and its OIDC login: one user's browser, with   *)
(* its tabs and its cookies per host, the identity provider, and the       *)
(* sandboxes' exposed ports, each behind a host name of its own under the  *)
(* base domain.  The gateway has an OIDC issuer: without one, an oidc port *)
(* only answers that it is unavailable.                                    *)
(***************************************************************************)
EXTENDS Naturals

CONSTANTS
    Hosts,      \* host names of exposed ports, port--sandbox--namespace.base
    Base,       \* the base domain itself, where the callback URL is
    Users,
    Tabs,
    MaxLogins,  \* bound: logins started
    MaxEvents   \* bound: changes of sandboxes, expiries, failing calls

VARIABLES
    user,      \* who uses the browser
    port,      \* what the gateway's cache says of the port behind a host
    tab,       \* where each tab is
    state,     \* the state cookies
    session,   \* the session cookies
    logins,    \* logins started: the next random state
    events

vars == <<user, port, tab, state, session, logins, events>>
browser == <<tab, state, session>>

-----------------------------------------------------------------------------

AllHosts == Hosts \cup {Base}

\* Allowed are the owner, allowedUsers and members of allowedGroups.
Port == [auth : {"unknown", "oidc", "none"}, allowed : SUBSET Users,
         routed : BOOLEAN]

Answers == {"served", "not found", "forbidden", "suspended", "bad state",
            "failed"}

\* A tab shows nothing, sends a request, or shows an answer or the login.
Tab == [at : {"blank", "request", "login", "callback"} \cup Answers,
        host : AllHosts, state : 0..MaxLogins]

Init ==
    /\ user \in Users
    /\ port \in [Hosts -> Port]
    /\ tab = [t \in Tabs |-> [at |-> "blank", host |-> Base, state |-> 0]]
    /\ state = [h \in AllHosts |-> 0]
    /\ session = [h \in AllHosts |-> {}]
    /\ logins = 0
    /\ events = 0

Event == events < MaxEvents /\ events' = events + 1

\* A sandbox is created, deleted, suspended, resumed or edited.
ChangePort(h) ==
    /\ Event
    /\ port' \in {[port EXCEPT ![h] = q] : q \in Port \ {port[h]}}
    /\ UNCHANGED <<user, browser, logins>>

\* The state cookie is kept ten minutes, the session as long as it is valid.
Expire(h) ==
    /\ Event
    /\ state' = [state EXCEPT ![h] = 0]
    /\ session' \in {session, [session EXCEPT ![h] = {}]}
    /\ UNCHANGED <<user, port, tab, logins>>

Go(t, at, host, st) ==
    tab' = [tab EXCEPT ![t] = [at |-> at, host |-> host, state |-> st]]

Show(t, answer) == tab' = [tab EXCEPT ![t].at = answer]

\* The user opens a page, or tries again.
Open(t) ==
    /\ tab[t].at \notin {"request", "login", "callback"}
    /\ \E h \in Hosts : Go(t, "request", h, 0)
    /\ UNCHANGED <<user, port, state, session, logins, events>>

-----------------------------------------------------------------------------
(***************************************************************************)
(* ServeHTTP.                                                              *)
(***************************************************************************)

\* The base domain is no route; a host may name no exposed port.
Known(h) == h \in Hosts /\ port[h].auth # "unknown"

authorizedForPort(h) == session[h] \subseteq port[h].allowed

\* Identify: the session cookie of the host the browser is on.
Identified(h) == session[h] # {}

\* The state cookie is set on the host of the request.
StartLogin(t) ==
    LET h == tab[t].host IN
    /\ tab[t].at = "request"
    /\ Known(h) /\ port[h].auth = "oidc" /\ ~Identified(h)
    /\ logins < MaxLogins
    /\ logins' = logins + 1
    /\ state' = [state EXCEPT ![h] = logins']
    /\ Go(t, "login", h, logins')
    /\ UNCHANGED <<user, port, session, events>>

ServeHTTP(t) ==
    LET h == tab[t].host IN
    /\ tab[t].at = "request"
    /\ \/ ~Known(h) /\ Show(t, "not found")
       \/ /\ Known(h) /\ port[h].auth = "oidc" /\ Identified(h)
          /\ ~authorizedForPort(h)
          /\ Show(t, "forbidden")
       \/ /\ Known(h)
          /\ port[h].auth = "oidc" => Identified(h) /\ authorizedForPort(h)
          /\ Show(t, IF port[h].routed THEN "served" ELSE "suspended")
    /\ UNCHANGED <<user, port, state, session, logins, events>>

\* The provider sends the browser back to the one redirect URL it knows.
SignIn(t) ==
    /\ tab[t].at = "login"
    /\ Go(t, "callback", Base, tab[t].state)
    /\ UNCHANGED <<user, port, state, session, logins, events>>

(***************************************************************************)
(* Callback: the state must be the one in the cookie the browser sends     *)
(* along to this host; then the session cookie is set, on this host, and   *)
(* the browser sent to the path it asked for.                              *)
(***************************************************************************)
Callback(t) ==
    LET h == tab[t].host IN
    /\ tab[t].at = "callback"
    /\ \/ /\ state[h] # tab[t].state
          /\ Show(t, "bad state")
          /\ UNCHANGED <<session, events>>
       \/ /\ state[h] = tab[t].state
          /\ Event  \* the exchange fails, or the ID token is refused
          /\ Show(t, "failed")
          /\ UNCHANGED session
       \/ /\ state[h] = tab[t].state
          /\ session' = [session EXCEPT ![h] = {user}]
          /\ Go(t, "request", h, 0)
          /\ UNCHANGED events
    /\ UNCHANGED <<user, port, state, logins>>

Next ==
    \/ \E t \in Tabs :
          Open(t) \/ StartLogin(t) \/ ServeHTTP(t) \/ SignIn(t) \/ Callback(t)
    \/ \E h \in Hosts : ChangePort(h)
    \/ \E h \in AllHosts : Expire(h)

Spec == Init /\ [][Next]_vars

-----------------------------------------------------------------------------

(***************************************************************************)
(* "The OIDC callback is handled before routing so it works regardless of  *)
(* which sandbox host the browser is on" (ServeHTTP): the callback of a    *)
(* browser's latest login, its cookies not expired, is not refused for its *)
(* state.                                                                  *)
(***************************************************************************)
CallbackWorks ==
    \A t \in Tabs :
        tab[t].at = "bad state" /\ tab[t].state = logins => events > 0

=============================================================================

------------------------------ MODULE Identity ------------------------------
(***************************************************************************)
(* The directory, sessions, passkeys and emergency account of one tenant,  *)
(* in one versioned document: every call is one compare-and-swap that is   *)
(* repeated on a conflict.  What spans calls is a login (a transaction is  *)
(* consumed before the identity provider is asked) and a passkey ceremony  *)
(* (a challenge is answered later, whatever happened to its user).         *)
(***************************************************************************)
EXTENDS Naturals, FiniteSets, FiniteSetsExt

CONSTANTS Users, Logins, None,
          MaxSessions,       \* bound on the sessions that are issued, numbered as they are
          MaxConcurrent,     \* bound on policy.maximumConcurrentSessions
          MaxAttempts        \* policy.maximumFailedBreakGlassAttempts

Sessions == 1..MaxSessions
Holders  == Users \cup {"account"}
Strength == {"multi-factor", "phishing-resistant", "break-glass"}

VARIABLES
  users,      \* the state of each directory user
  linked,     \* the user the federated subject is linked to
  provider,   \* the identity provider: disabled, enabled, enabled to provision as well
  sessions,   \* the sessions
  login,      \* per login with the one transaction: how far it is
  passkey,    \* the last challenge, and each user's credential
  account,    \* the break-glass account
  policy      \* the limit of sessions; history: what it was when a user's last began

ivars == <<users, linked, provider, sessions, login, passkey, account, policy>>

UserState  == {"none", "active", "inactive"}
Session    == [state : {"none", "live", "revoked"}, of : Holders \cup {None},
               strength : Strength, expired : BOOLEAN]
Credential == {"none", "active", "revoked"}

NoSession   == [state |-> "none", of |-> None, strength |-> "multi-factor", expired |-> FALSE]
NoChallenge == [kind |-> "none", session |-> 1, user |-> None]

Init ==
  /\ users = [u \in Users |-> "none"]
  /\ linked = None
  /\ provider = "provisions"
  /\ sessions = [s \in Sessions |-> NoSession]
  /\ login = [l \in Logins |-> "started"]
  /\ passkey = [challenge |-> NoChallenge, credential |-> [u \in Users |-> "none"]]
  /\ account = [state |-> "none", failed |-> 0]
  /\ policy = [limit |-> 1, granted |-> [u \in Users |-> 1]]

-----------------------------------------------------------------------------
\* The directory, as SCIM and the erasure of personal data change it.
ConfigureProvider(setting) ==
  /\ provider' = setting
  /\ UNCHANGED <<users, linked, sessions, login, passkey, account, policy>>

\* A stricter policy ends no session by itself.
SetSessionPolicy(n) ==
  /\ policy' = [policy EXCEPT !.limit = n]
  /\ UNCHANGED <<users, linked, provider, sessions, login, passkey, account>>

\* Of a session that has ended, only its holder matters.
Revoking(chosen) ==
  [s \in Sessions |-> IF s \in chosen /\ sessions[s].state = "live"
                      THEN [NoSession EXCEPT !.state = "revoked", !.of = sessions[s].of] ELSE sessions[s]]

SessionsOf(u) == {s \in Sessions : sessions[s].of = u}

RevokesOnlyHere(u, active) == {}   \* Mutant: an update that disables revokes nothing.
RevokedBy(u, active) == IF active THEN {} ELSE SessionsOf(u)

UpsertUser(u, active) ==
  /\ users' = [users EXCEPT ![u] = IF active THEN "active" ELSE "inactive"]
  /\ sessions' = Revoking(RevokedBy(u, active))
  /\ UNCHANGED <<linked, provider, login, passkey, account, policy>>

DeprovisionUser(u) ==
  /\ users[u] # "none"
  /\ users' = [users EXCEPT ![u] = "inactive"]
  /\ sessions' = Revoking(SessionsOf(u))
  /\ UNCHANGED <<linked, provider, login, passkey, account, policy>>

AnonymizeUser(u) ==
  /\ users[u] # "none"
  /\ users' = [users EXCEPT ![u] = "inactive"]
  /\ linked' = IF linked = u THEN None ELSE linked
  /\ sessions' = Revoking(SessionsOf(u))
  /\ passkey' = [passkey EXCEPT !.credential[u] = "none"]
  /\ UNCHANGED <<provider, login, account, policy>>

-----------------------------------------------------------------------------
\* #issueSession: beyond the limit, the oldest sessions of the user end.
Issued == {s \in Sessions : sessions[s].state # "none"}
NextSession  == Cardinality(Issued) + 1

Oldest(live) == {s \in live : Cardinality({t \in live : t > s}) >= policy.limit}

IssueSession(of, strength) ==
  LET s    == NextSession
      live == {t \in SessionsOf(of) : sessions[t].state = "live" /\ ~sessions[t].expired} \cup {s}
  IN  /\ s \in Sessions
      /\ sessions' = [(IF of = "account" THEN sessions ELSE Revoking(Oldest(live)))
                       EXCEPT ![s] = [state |-> "live", of |-> of, strength |-> strength,
                                      expired |-> FALSE]]
      /\ policy' = IF of = "account" THEN policy
                   ELSE [policy EXCEPT !.granted[of] = policy.limit]

\* createFederationTransaction, when the callbacks of the last one are over
CreateTransaction ==
  /\ \A l \in Logins : login[l] \in {"done", "denied"}
  /\ login' = [l \in Logins |-> "started"]
  /\ UNCHANGED <<users, linked, provider, sessions, passkey, account, policy>>

\* consumeFederationTransaction: once, whoever presents it.
NotReplayed(l) == \A other \in Logins : login[other] = "started"

ConsumeTransaction(l) ==
  /\ login[l] = "started"
  /\ login' = [login EXCEPT ![l] = IF NotReplayed(l) THEN "consumed" ELSE "denied"]
  /\ UNCHANGED <<users, linked, provider, sessions, passkey, account, policy>>

\* completeFederation, with what the identity provider asserted; a user the
\* directory does not know is provisioned if the provider may.
CompleteFederation(l, u) ==
  /\ login[l] = "consumed" /\ provider # "disabled"
  /\ \/ linked = u /\ users[u] = "active" /\ UNCHANGED <<users, linked>>
     \/ /\ linked = None /\ provider = "provisions" /\ users[u] = "none"
        /\ users' = [users EXCEPT ![u] = "active"]
        /\ linked' = u
  /\ IssueSession(u, "multi-factor")
  /\ login' = [login EXCEPT ![l] = "done"]
  /\ UNCHANGED <<provider, passkey, account>>

FederationFails(l) ==
  /\ login[l] = "consumed"
  /\ login' = [login EXCEPT ![l] = "denied"]
  /\ UNCHANGED <<users, linked, provider, sessions, passkey, account, policy>>

\* A session expires by itself; the next request that carries it ends it.
SessionExpires(s) ==
  /\ sessions[s].state = "live" /\ ~sessions[s].expired
  /\ sessions' = [sessions EXCEPT ![s].expired = TRUE]
  /\ UNCHANGED <<users, linked, provider, login, passkey, account, policy>>

\* authenticateSession, of one that has expired; the others change nothing here.
AuthenticateExpired(s) ==
  /\ sessions[s].state = "live" /\ sessions[s].expired
  /\ sessions' = Revoking({s})
  /\ UNCHANGED <<users, linked, provider, login, passkey, account, policy>>

RevokeSession(s) ==
  /\ sessions[s].state = "live"
  /\ sessions' = Revoking({s})
  /\ UNCHANGED <<users, linked, provider, login, passkey, account, policy>>

-----------------------------------------------------------------------------
\* Passkeys.
CreateChallenge(s, kind) ==
  LET u == sessions[s].of
  IN  /\ u \in Users /\ users[u] = "active" /\ sessions[s].state = "live"
      /\ passkey' = [passkey EXCEPT !.challenge = [kind |-> kind, session |-> s, user |-> u]]
      /\ UNCHANGED <<users, linked, provider, sessions, login, account, policy>>

\* The user and the session are not looked at again.
CompleteRegistration ==
  LET c == passkey.challenge
  IN  /\ c.kind = "registration" /\ passkey.credential[c.user] = "none"
      /\ passkey' = [challenge |-> NoChallenge,
                     credential |-> [passkey.credential EXCEPT ![c.user] = "active"]]
      /\ UNCHANGED <<users, linked, provider, sessions, login, account, policy>>

CompleteAuthentication ==
  LET c == passkey.challenge
  IN  /\ c.kind = "authentication"
      /\ passkey.credential[c.user] = "active" /\ sessions[c.session].state = "live"
      /\ sessions' = [sessions EXCEPT ![c.session].strength = "phishing-resistant"]
      /\ passkey' = [passkey EXCEPT !.challenge = NoChallenge]
      /\ UNCHANGED <<users, linked, provider, login, account, policy>>

RevokeCredential(u) ==
  /\ passkey.credential[u] = "active"
  /\ passkey' = [passkey EXCEPT !.credential[u] = "revoked"]
  /\ UNCHANGED <<users, linked, provider, sessions, login, account, policy>>

-----------------------------------------------------------------------------
\* The break-glass account: used once; too many failures revoke it.  Its failures
\* matter while it is active.
Ended(state) == [state |-> state, failed |-> 0]

CreateAccount ==
  /\ account.state = "none"
  /\ account' = [account EXCEPT !.state = "active"]
  /\ UNCHANGED <<users, linked, provider, sessions, login, passkey, policy>>

ActivateBreakGlass ==
  /\ account.state = "active"
  /\ account' = Ended("used")
  /\ IssueSession("account", "break-glass")
  /\ UNCHANGED <<users, linked, provider, login, passkey>>

FailBreakGlass ==
  /\ account.state = "active"
  /\ account' = IF account.failed + 1 >= MaxAttempts THEN Ended("revoked")
                ELSE [account EXCEPT !.failed = @ + 1]
  /\ UNCHANGED <<users, linked, provider, sessions, login, passkey, policy>>

RevokeAccount ==
  /\ account.state # "none"
  /\ account' = Ended("revoked")
  /\ sessions' = Revoking(SessionsOf("account"))
  /\ UNCHANGED <<users, linked, provider, login, passkey, policy>>

Directory ==
  \/ \E p \in {"disabled", "enabled", "provisions"} : ConfigureProvider(p)
  \/ \E u \in Users : \/ DeprovisionUser(u) \/ AnonymizeUser(u) \/ RevokeCredential(u)
                      \/ \E b \in BOOLEAN : UpsertUser(u, b)
  \/ CreateTransaction
  \/ \E l \in Logins : \/ ConsumeTransaction(l) \/ FederationFails(l)
                       \/ \E u \in Users : CompleteFederation(l, u)
  \/ \E s \in Sessions : \/ SessionExpires(s) \/ AuthenticateExpired(s) \/ RevokeSession(s)
                         \/ \E k \in {"registration", "authentication"} : CreateChallenge(s, k)
  \/ CompleteRegistration \/ CompleteAuthentication

Next ==
  \/ Directory \/ \E n \in 1..MaxConcurrent : SetSessionPolicy(n)
  \/ CreateAccount \/ ActivateBreakGlass \/ FailBreakGlass \/ RevokeAccount

-----------------------------------------------------------------------------
TypeOK ==
  /\ users \in [Users -> UserState]
  /\ linked \in Users \cup {None}
  /\ sessions \in [Sessions -> Session]
  /\ passkey.credential \in [Users -> Credential]
  /\ account.failed \in 0..MaxAttempts
  /\ policy \in [limit : 1..MaxConcurrent, granted : [Users -> 1..MaxConcurrent]]

\* Access ends with what it rests on: a live session is of an active user or of
\* the emergency account after its one use, across logins, ceremonies and
\* updates of the directory in any order; a login is worth one session, and a
\* user has no more of them than the policy allowed when the last one began.
Live(h) == {s \in SessionsOf(h) : sessions[s].state = "live"}
AccessFollowsDirectory ==
  /\ \A u \in Users : Live(u) # {} => users[u] = "active"
  /\ \A u \in Users : Cardinality({s \in Live(u) : ~sessions[s].expired}) <= policy.granted[u]
  /\ Live("account") # {} => account.state = "used"
  /\ Cardinality(SessionsOf("account")) <= 1
  /\ Cardinality({l \in Logins : login[l] \in {"consumed", "done"}}) <= 1
=============================================================================

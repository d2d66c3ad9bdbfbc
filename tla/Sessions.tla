------------------------------ MODULE Sessions ------------------------------
(***************************************************************************)
(* The session of a user in a client: tokens issued and rotated by the     *)
(* API, and kept by the client (auth/auth.service.ts, lib/auth-api.ts,     *)
(* lib/api.ts and lib/tokens.ts of the three front ends).                  *)
(*                                                                         *)
(* A client that is answered 401 presents its refresh token, which the API *)
(* replaces by a new one: a read, an update, a read and an insert.  The    *)
(* client stores the answer; without one it forgets what it had.  A slot   *)
(* holds such an exchange from the client's read of its token to the       *)
(* client's write.  The thirty days a refresh token lasts are longer than  *)
(* a behaviour.                                                            *)
(***************************************************************************)
EXTENDS Calls

CONSTANTS Users,    \* users with an account
          Clients,  \* documents that are clients: browsers and terminals
          UserOf    \* UserOf[c]

ASSUME SessionsAssumption == Clients \subseteq Docs /\ UserOf \in [Clients -> Users]

VARIABLES token,    \* token[n]: the n-th refresh token issued: user, live
          stored,   \* stored[c]: the refresh token client c keeps, 0 for none
          fresh,    \* clients whose access token is still valid
          enabled,  \* users whose account is active
          changed   \* users who changed their password

sessionVars == <<token, stored, fresh, enabled, changed>>

SessionsInit ==
  /\ token = <<>>
  /\ stored = [c \in Clients |-> 0]
  /\ fresh = {}
  /\ enabled = Users
  /\ changed = {}

Live(u) == {n \in DOMAIN token : token[n].user = u /\ token[n].live}
User(k) == UserOf[Doc(k)]

Issue(u)    == token' = Append(token, [user |-> u, live |-> TRUE])
Revoke(n)   == token' = [token EXCEPT ![n].live = FALSE]
RevokeAll(u) == token' = [n \in DOMAIN token |-> IF token[n].user = u
                                                 THEN [user |-> u, live |-> FALSE] ELSE token[n]]

-----------------------------------------------------------------------------
Login(k, c) ==
  /\ stored[c] = 0 /\ UserOf[c] \in enabled
  /\ Issue(UserOf[c])
  /\ Enter(k, "save_tokens", c, Len(token) + 1, <<>>)
  /\ UNCHANGED <<stored, fresh, enabled, changed>>

\* The lifetime of the access token is over.
Expire(c) ==
  /\ c \in fresh
  /\ fresh' = fresh \ {c}
  /\ UNCHANGED <<callVars, token, stored, enabled, changed>>

\* A fetch was answered 401.  Nothing keeps two fetches of one page from doing the same.
Refresh(k, c) ==
  /\ stored[c] # 0 /\ c \notin fresh
  /\ Enter(k, "find_token", c, stored[c], <<>>)
  /\ UNCHANGED sessionVars

FindToken(k) ==
  /\ At(k, "find_token")
  /\ Goto(k, IF token[Figure(k)].live THEN "rotate" ELSE "revoke_all")
  /\ UNCHANGED sessionVars

\* A token that was used already: all the user's tokens are revoked.
RevokeUser(k) ==
  /\ At(k, "revoke_all")
  /\ RevokeAll(User(k))
  /\ Goto(k, "clear_tokens")
  /\ UNCHANGED <<stored, fresh, enabled, changed>>

Rotate(k) ==
  /\ At(k, "rotate")
  /\ Revoke(Figure(k))
  /\ Goto(k, "issue")
  /\ UNCHANGED <<stored, fresh, enabled, changed>>

IssueToken(k) ==
  /\ At(k, "issue")
  /\ IF User(k) \in enabled THEN Issue(User(k)) /\ GotoWith(k, "save_tokens", Len(token) + 1)
     ELSE Goto(k, "clear_tokens") /\ UNCHANGED token
  /\ UNCHANGED <<stored, fresh, enabled, changed>>

\* Mutant: the access token alone is kept.
SaveAccessToken(k) ==
  /\ At(k, "save_tokens")
  /\ fresh' = fresh \cup {Doc(k)}
  /\ Leave(k)
  /\ UNCHANGED <<token, stored, enabled, changed>>

SaveTokens(k) ==
  /\ At(k, "save_tokens")
  /\ stored' = [stored EXCEPT ![Doc(k)] = Figure(k)]
  /\ fresh' = fresh \cup {Doc(k)}
  /\ Leave(k)
  /\ UNCHANGED <<token, enabled, changed>>

ClearTokens(k) ==
  /\ At(k, "clear_tokens")
  /\ stored' = [stored EXCEPT ![Doc(k)] = 0]
  /\ fresh' = fresh \ {Doc(k)}
  /\ Leave(k)
  /\ UNCHANGED <<token, enabled, changed>>

\* No answer: the client catches the error and clears what it has.
AnswerLost(k) ==
  /\ call[k].at \in {"find_token", "issue", "save_tokens", "logout"}
  /\ stored' = [stored EXCEPT ![Doc(k)] = 0]
  /\ fresh' = fresh \ {Doc(k)}
  /\ Fail(k)
  /\ UNCHANGED <<token, enabled, changed>>

Logout(k, c) ==
  /\ stored[c] # 0
  /\ Enter(k, "logout", c, stored[c], <<>>)
  /\ UNCHANGED sessionVars

RevokeOne(k) ==
  /\ At(k, "logout")
  /\ Revoke(Figure(k))
  /\ Goto(k, "clear_tokens")
  /\ UNCHANGED <<stored, fresh, enabled, changed>>

\* "revoke every other active session": the update revokes them all.
ChangePassword(k, c) ==
  /\ c \in fresh
  /\ AtOnce(k, c)
  /\ RevokeAll(UserOf[c])
  /\ changed' = changed \cup {UserOf[c]}
  /\ UNCHANGED <<stored, fresh, enabled>>

SetActive(k, c) ==
  /\ AtOnce(k, c)
  /\ enabled' = IF UserOf[c] \in enabled THEN enabled \ {UserOf[c]} ELSE enabled \cup {UserOf[c]}
  /\ UNCHANGED <<token, stored, fresh, changed>>

SessionsStep(k) ==
  \/ \E c \in Clients : Login(k, c) \/ Refresh(k, c) \/ Logout(k, c) \/ ChangePassword(k, c)
                          \/ SetActive(k, c)
  \/ FindToken(k) \/ RevokeUser(k) \/ Rotate(k) \/ IssueToken(k)
  \/ SaveTokens(k) \/ ClearTokens(k) \/ AnswerLost(k) \/ RevokeOne(k)

-----------------------------------------------------------------------------
ClientsOf(u) == {c \in Clients : UserOf[c] = u}

(***************************************************************************)
(* Nobody loses a session: the refresh tokens of a user that are live are  *)
(* those the user's clients keep, one each, whatever clients log in, out   *)
(* and refresh side by side.  It takes two exchanges of one client at the  *)
(* same time, a lost answer or a change of password to tell them apart.    *)
(***************************************************************************)
SessionKept ==
  \A u \in Users \ changed :
    (\A c \in ClientsOf(u) : Undisturbed(c) /\ InFlight(c) = {}) =>
      /\ Live(u) = {stored[c] : c \in ClientsOf(u)} \ {0}
      /\ \A c, d \in ClientsOf(u) : c # d /\ stored[c] # 0 => stored[c] # stored[d]
=============================================================================

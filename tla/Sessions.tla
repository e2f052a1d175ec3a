------------------------------ MODULE Sessions ------------------------------
(***************************************************************************)
(* Sign-in, rotation and logout of refresh tokens (internal/auth, and the  *)
(* account event handler it calls).  Every statement is a step of its own: *)
(* nothing is in a transaction, and requests of the same client overlap.   *)
(*                                                                         *)
(* A refresh token is a row; a family is a sign-in's token and those that  *)
(* rotations made of it.  A request that answers 401, and leaves           *)
(* everything as it is, is no step.  A request that fails with the outcome *)
(* of its last statement unknown is Fail, before or after that statement's *)
(* step; the same for an answer that gets lost and a server that stops.    *)
(*                                                                         *)
(* Operators named after another one with a suffix are wrong variants, not *)
(* in Next, to test that the properties notice.                            *)
(***************************************************************************)
EXTENDS Naturals

CONSTANTS
  Users,      \* (provider, provider_sub) pairs, each with its own email
  Tokens,     \* refresh token values that may be generated
  Requests,   \* requests the server can handle at a time
  NoToken,
  NoUser,
  MaxErrors   \* bound of the model: failed requests and lost answers

ASSUME SessionsAssumption ==
  /\ NoToken \notin Tokens
  /\ NoUser \notin Users
  /\ MaxErrors \in Nat

VARIABLES
  users,     \* users: the rows
  accounts,  \* accounts: their user_ids
  status,    \* refresh_tokens: no row, revoked_at IS NULL, revoked
  userOf,    \* refresh_tokens.user_id
  expired,   \* tokens past their expires_at
  request,   \* what each request is doing
  known,     \* tokens that reached the client
  parent,    \* history: the token a rotation replaced
  root,      \* history: the first token of its family
  ended,     \* history: families a logout has ended
  spoiled,   \* history: families that lost their newest token to a failure
  errors     \* bound: failures so far

rows    == <<status, userOf, parent, root>>
vars    == <<users, accounts, rows, expired, request, known, ended, spoiled, errors>>

Idle == [at |-> "idle", user |-> NoUser, token |-> NoToken]

TypeOK ==
  /\ users \subseteq Users /\ accounts \subseteq Users
  /\ status \in [Tokens -> {"absent", "live", "revoked"}]
  /\ userOf \in [Tokens -> Users \cup {NoUser}]
  /\ \A t \in Tokens : status[t] # "absent" => userOf[t] \in Users  \* NOT NULL
  /\ expired \subseteq Tokens /\ known \subseteq Tokens
  /\ request \in [Requests ->
       [at: {"idle", "upserted", "verified", "found", "revoked", "answer", "logout"},
        user: Users \cup {NoUser}, token: Tokens \cup {NoToken}]]
  /\ parent \in [Tokens -> Tokens \cup {NoToken}]
  /\ root \in [Tokens -> Tokens \cup {NoToken}]
  /\ ended \subseteq Tokens /\ spoiled \subseteq Tokens
  /\ errors \in 0..MaxErrors

Init ==
  /\ users = {} /\ accounts = {}
  /\ status = [t \in Tokens |-> "absent"]
  /\ userOf = [t \in Tokens |-> NoUser]
  /\ expired = {} /\ known = {}
  /\ request = [r \in Requests |-> Idle]
  /\ parent = [t \in Tokens |-> NoToken]
  /\ root = [t \in Tokens |-> NoToken]
  /\ ended = {} /\ spoiled = {}
  /\ errors = 0

Become(r, at, user, token) ==
  request' = [request EXCEPT ![r] = [at |-> at, user |-> user, token |-> token]]

Finish(r) == request' = [request EXCEPT ![r] = Idle]

(* refreshStore.Create: a row with a fresh random token. *)
Create(n, user, old) ==
  /\ status[n] = "absent"
  /\ status' = [status EXCEPT ![n] = "live"]
  /\ userOf' = [userOf EXCEPT ![n] = user]
  /\ parent' = [parent EXCEPT ![n] = old]
  /\ root' = [root EXCEPT ![n] = IF old = NoToken THEN n ELSE root[old]]

-----------------------------------------------------------------------------
(* VerifyHandler: the credential is valid; upsert the user, then the       *)
(* account, then issue tokens.                                             *)

Upsert(r, u) ==
  /\ request[r].at = "idle"
  /\ users' = users \cup {u}
  /\ Become(r, "upserted", u, NoToken)
  /\ UNCHANGED <<accounts, rows, expired, known, ended, spoiled, errors>>

(* The user row stays if this fails; the next sign-in does both again. *)
OnUserVerified(r) ==
  /\ request[r].at = "upserted"
  /\ accounts' = accounts \cup {request[r].user}
  /\ Become(r, "verified", request[r].user, NoToken)
  /\ UNCHANGED <<users, rows, expired, known, ended, spoiled, errors>>

IssueRefreshToken(r, n) ==
  /\ request[r].at = "verified"
  /\ Create(n, request[r].user, NoToken)
  /\ Become(r, "answer", request[r].user, n)
  /\ UNCHANGED <<users, accounts, expired, known, ended, spoiled, errors>>

(* The client has the new refresh token, of a sign-in or a rotation. *)
Answer(r) ==
  /\ request[r].at = "answer"
  /\ known' = known \cup {request[r].token}
  /\ Finish(r)
  /\ UNCHANGED <<users, accounts, rows, expired, ended, spoiled, errors>>

-----------------------------------------------------------------------------
(* RotateRefreshToken *)

FindUnchecked(r, t) ==
  /\ request[r].at = "idle"
  /\ t \in known
  /\ Become(r, "found", userOf[t], t)
  /\ UNCHANGED <<users, accounts, rows, expired, known, ended, spoiled, errors>>

(* FindByHash, with the checks of the row it read: any token that ever     *)
(* reached the client may come, also one that was rotated long ago.        *)
Find(r, t) ==
  /\ request[r].at = "idle"
  /\ t \in known
  /\ status[t] # "revoked"
  /\ t \notin expired
  /\ Become(r, "found", userOf[t], t)
  /\ UNCHANGED <<users, accounts, rows, expired, known, ended, spoiled, errors>>

RevokeAgain(r) ==
  LET t == request[r].token IN
  /\ request[r].at = "found"
  /\ status' = [status EXCEPT ![t] = "revoked"]
  /\ Become(r, "revoked", request[r].user, t)
  /\ UNCHANGED <<users, accounts, userOf, parent, root, expired, known, ended, spoiled, errors>>

RevokeAllOfUser(r) ==
  LET t == request[r].token IN
  /\ request[r].at = "found"
  /\ status' = [s \in Tokens |-> IF status[s] = "live" /\ userOf[s] = request[r].user
                                 THEN "revoked" ELSE status[s]]
  /\ IF status[t] = "live" THEN Become(r, "revoked", request[r].user, t) ELSE Finish(r)
  /\ UNCHANGED <<users, accounts, userOf, parent, root, expired, known, ended, spoiled, errors>>

(* UPDATE ... WHERE id = $1 AND revoked_at IS NULL: another request may    *)
(* have revoked the token since; no row then, and the rotation gives up.   *)
Revoke(r) ==
  LET t == request[r].token IN
  /\ request[r].at = "found"
  /\ status' = [status EXCEPT ![t] = "revoked"]
  /\ IF status[t] = "live" THEN Become(r, "revoked", request[r].user, t) ELSE Finish(r)
  /\ UNCHANGED <<users, accounts, userOf, parent, root, expired, known, ended, spoiled, errors>>

CreateSuccessor(r, n) ==
  /\ request[r].at = "revoked"
  /\ Create(n, request[r].user, request[r].token)
  /\ Become(r, "answer", request[r].user, n)
  /\ UNCHANGED <<users, accounts, expired, known, ended, spoiled, errors>>

-----------------------------------------------------------------------------
(* LogoutHandler: RevokeRefreshToken, its error ignored *)

FindForLogout(r, t) ==
  /\ request[r].at = "idle"
  /\ t \in known
  /\ Become(r, "logout", userOf[t], t)
  /\ UNCHANGED <<users, accounts, rows, expired, known, ended, spoiled, errors>>

Logout(r) ==
  LET t == request[r].token IN
  /\ request[r].at = "logout"
  /\ status' = [status EXCEPT ![t] = "revoked"]
  /\ ended' = IF status[t] = "live" THEN ended \cup {root[t]} ELSE ended
  /\ Finish(r)
  /\ UNCHANGED <<users, accounts, userOf, parent, root, expired, known, spoiled, errors>>

-----------------------------------------------------------------------------
(* Time and failures *)

(* All tokens live 30 days from their creation: an older one of the family *)
(* expires first.                                                          *)
Expire(t) ==
  /\ status[t] # "absent" /\ t \notin expired
  /\ parent[t] \in expired \cup {NoToken}
  /\ expired' = expired \cup {t}
  /\ UNCHANGED <<users, accounts, rows, request, known, ended, spoiled, errors>>

Fail(r) ==
  /\ errors < MaxErrors
  /\ request[r].at # "idle"
  /\ errors' = errors + 1
  /\ spoiled' = IF request[r].at \in {"revoked", "answer"}
                THEN spoiled \cup {root[request[r].token]} ELSE spoiled
  /\ Finish(r)
  /\ UNCHANGED <<users, accounts, rows, expired, known, ended>>

(* The three handlers; the lines of verification and answers that leave    *)
(* everything as it is are no steps of theirs.                             *)
VerifyAndUpsert(r) == (\E u \in Users : Upsert(r, u)) \/ OnUserVerified(r)

SignIn(r) == VerifyAndUpsert(r) \/ \E n \in Tokens : IssueRefreshToken(r, n)

Refresh(r) ==
  \/ \E t \in Tokens : Find(r, t)
  \/ Revoke(r)
  \/ \E n \in Tokens : CreateSuccessor(r, n)

LogoutHandler(r) ==
  \/ \E t \in Tokens : FindForLogout(r, t)
  \/ Logout(r)

Next ==
  \/ \E r \in Requests : SignIn(r) \/ Refresh(r) \/ LogoutHandler(r) \/ Answer(r) \/ Fail(r)
  \/ \E t \in Tokens : Expire(t)

Spec == Init /\ [][Next]_vars

-----------------------------------------------------------------------------
(* Properties *)

Rotating(r, f) ==
  /\ request[r].at \in {"found", "revoked"}
  /\ root[request[r].token] = f

(* A refresh token is exchanged at most once, and not while it is valid,   *)
(* however many requests present it at the same time (api.md: "Old refresh *)
(* token is immediately revoked").                                         *)
RotationExclusive ==
  \A m, n \in Tokens :
    parent[n] # NoToken => /\ status[parent[n]] = "revoked"
                           /\ (parent[m] = parent[n] => m = n)

(* The revocation of a valid token by a logout is final for its family: a  *)
(* rotation that found the token before it makes no successor.  (A logout  *)
(* that comes after the rotation's revocation ends nothing: its error is   *)
(* ignored, and the successor lives on.)                                   *)
LogoutEnds ==
  \A t \in Tokens : root[t] \in ended => status[t] = "revoked"

(* The checks come one statement before the revocation, yet a family whose *)
(* tokens are all revoked or expired, with no rotation under way, has no   *)
(* valid token ever again.                                                 *)
Dead(f) ==
  /\ root[f] = f
  /\ \A t \in Tokens : root[t] = f => status[t] = "revoked" \/ t \in expired
  /\ \A r \in Requests : ~Rotating(r, f)

DeadStaysDead == [][\A f \in Tokens : Dead(f) => Dead(f)']_vars

(* Unless the user logs out or a request fails, the client holds an        *)
(* unrevoked token of each of its sign-ins, or a request is about to bring *)
(* one: overlapping rotations, logouts of replaced tokens and sign-ins     *)
(* elsewhere cost nobody his session.                                      *)
InHand(t) ==
  \/ status[t] = "live" /\ t \in known
  \/ \E r \in Requests : request[r].at \in {"revoked", "answer"} /\ request[r].token = t

SessionSurvives ==
  \A f \in Tokens :
    root[f] = f /\ f \notin ended \cup spoiled =>
      \E t \in Tokens : root[t] = f /\ InHand(t)

(* However the statements of overlapping rotations, logouts and failures   *)
(* interleave, every sign-in behaves like a chain of tokens: module        *)
(* SessionFamily.                                                          *)
Valid(f)   == {t \in Tokens : status[t] = "live" /\ root[t] = f}
Rotates(f) == \E r \in Requests : request[r].at = "revoked" /\ root[request[r].token] = f

State(f) ==
  IF root[f] # f THEN "new"
  ELSE IF Valid(f) # {} THEN "valid"
  ELSE IF Rotates(f) THEN "rotating" ELSE "over"

Current(f) ==
  IF State(f) = "valid" THEN CHOOSE t \in Tokens : t \in Valid(f) ELSE NoToken

Families == INSTANCE SessionFamily WITH
  issued <- {t \in Tokens : status[t] # "absent"},
  state <- [f \in Tokens |-> State(f)], current <- [f \in Tokens |-> Current(f)]

ImplementsFamilies == Families!Spec

(* User, account and token are three statements, but no refresh token      *)
(* belongs to a user without an account.                                   *)
TokenHasAccount ==
  \A t \in Tokens : status[t] # "absent" => userOf[t] \in users \cap accounts
=============================================================================

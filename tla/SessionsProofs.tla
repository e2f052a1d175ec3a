--------------------------- MODULE SessionsProofs ---------------------------
(***************************************************************************)
(* Theorems about Sessions for every set of users, tokens and overlapping  *)
(* requests, and any number of failures.                                   *)
(***************************************************************************)
EXTENDS Sessions, TLAPS

(* What the rows of users, accounts and refresh_tokens say about each      *)
(* other: families are closed under parent and have their root.            *)
RowInv ==
  /\ \A t \in Tokens : status[t] = "absent" =>
       parent[t] = NoToken /\ root[t] = NoToken /\ t \notin known
  /\ \A t \in Tokens : status[t] # "absent" =>
       /\ userOf[t] \in users \cap accounts
       /\ root[t] \in Tokens
       /\ status[root[t]] # "absent"
       /\ root[root[t]] = root[t]
  /\ \A t \in Tokens : parent[t] # NoToken =>
       status[parent[t]] = "revoked"

(* What a request under way may rely on. *)
RequestInv ==
  /\ \A r \in Requests : request[r].at = "upserted" => request[r].user \in users
  /\ \A r \in Requests : request[r].at = "verified" => request[r].user \in users \cap accounts
  /\ \A r \in Requests : request[r].at \in {"found", "revoked", "answer", "logout"} =>
       /\ request[r].token \in Tokens
       /\ status[request[r].token] # "absent"
       /\ request[r].user = userOf[request[r].token]
  /\ \A r \in Requests : request[r].at = "revoked" =>
       /\ status[request[r].token] = "revoked"
       /\ \A n \in Tokens : parent[n] # request[r].token

(* A token is presented only after it reached the client, and reaches it   *)
(* with one answer: nobody revokes the token of an answer under way.       *)
AnswerInv ==
  /\ \A r \in Requests : request[r].at \in {"found", "logout"} => request[r].token \in known
  /\ \A r \in Requests : request[r].at = "answer" =>
       /\ status[request[r].token] = "live"
       /\ request[r].token \notin known
  /\ \A q, r \in Requests :
       /\ request[q].at = "answer" /\ request[r].at = "answer"
       /\ request[q].token = request[r].token
       => q = r

(* A family has one valid token or one rotation that is about to make one, *)
(* never both, and none once a logout ended it.                            *)
FamilyInv ==
  /\ \A s, t \in Tokens :
       status[s] = "live" /\ status[t] = "live" /\ root[s] = root[t] => s = t
  /\ \A t \in Tokens, r \in Requests :
       status[t] = "live" /\ request[r].at = "revoked" => root[request[r].token] # root[t]
  /\ \A q, r \in Requests :
       /\ request[q].at = "revoked" /\ request[r].at = "revoked"
       /\ root[request[q].token] = root[request[r].token]
       => q = r
  /\ \A m, n \in Tokens : parent[n] # NoToken /\ parent[m] = parent[n] => m = n
  /\ LogoutEnds
  /\ \A r \in Requests : request[r].at = "revoked" => root[request[r].token] \notin ended
  /\ \A t \in ended : status[t] # "absent"

SessionInv == TypeOK /\ RowInv /\ RequestInv /\ AnswerInv /\ FamilyInv

-----------------------------------------------------------------------------
(* What the steps of a rotation and a logout leave alone *)

(* FindByHash reads a row the client's token is of, for one request.       *)
LEMMA FindSteps ==
  ASSUME TypeOK, RowInv, NEW r \in Requests, NEW t \in Tokens, Find(r, t) \/ FindForLogout(r, t)
  PROVE  /\ UNCHANGED <<users, accounts, rows, expired, known, ended, spoiled, errors>>
         /\ request[r].at = "idle" /\ t \in known /\ status[t] # "absent"
         /\ \A q \in Requests : q # r => request'[q] = request[q]
         /\ request'[r].at \in {"found", "logout"}
         /\ request'[r].user = userOf[t] /\ request'[r].token = t
<1>1. /\ UNCHANGED <<users, accounts, rows, expired, known, ended, spoiled, errors>>
      /\ request[r].at = "idle" /\ t \in known
  BY DEF Find, FindForLogout
<1>2. t \in known => status[t] # "absent"
  BY DEF RowInv
<1>3. PICK at \in {"found", "logout"} : Become(r, at, userOf[t], t)
  BY DEF Find, FindForLogout
<1>4. /\ \A q \in Requests : q # r => request'[q] = request[q]
      /\ request'[r] = [at |-> at, user |-> userOf[t], token |-> t]
  BY <1>3 DEF Become, TypeOK
<1> QED BY <1>1, <1>2, <1>4

(* The conditional UPDATE: one request and one row of its own move.        *)
LEMMA RevokeSteps ==
  ASSUME TypeOK, RequestInv, NEW r \in Requests, NEW t, t = request[r].token, Revoke(r)
  PROVE  /\ UNCHANGED <<users, accounts, userOf, parent, root, expired, known, ended, spoiled, errors>>
         /\ request[r].at = "found" /\ t \in Tokens /\ status[t] # "absent"
         /\ \A s \in Tokens : s # t => status'[s] = status[s]
         /\ status'[t] = "revoked"
         /\ \A q \in Requests : q # r => request'[q] = request[q]
         /\ status[t] = "live" =>
              /\ request'[r].at = "revoked" /\ request'[r].token = t
              /\ request'[r].user = request[r].user
         /\ status[t] # "live" => request'[r] = Idle
<1>1. /\ UNCHANGED <<users, accounts, userOf, parent, root, expired, known, ended, spoiled, errors>>
      /\ request[r].at = "found" /\ status' = [status EXCEPT ![t] = "revoked"]
  BY DEF Revoke
<1>2. t \in Tokens /\ status[t] # "absent"
  BY <1>1 DEF RequestInv
<1>3. /\ \A s \in Tokens : s # t => status'[s] = status[s]
      /\ status'[t] = "revoked"
  BY <1>1, <1>2 DEF TypeOK
<1>4. CASE status[t] = "live"
  <2>1. Become(r, "revoked", request[r].user, t)
    BY <1>4 DEF Revoke
  <2>2. /\ \A q \in Requests : q # r => request'[q] = request[q]
        /\ request'[r] = [at |-> "revoked", user |-> request[r].user, token |-> t]
    BY <2>1 DEF Become, TypeOK
  <2> QED BY <1>1, <1>2, <1>3, <1>4, <2>2
<1>5. CASE status[t] # "live"
  <2>1. Finish(r)
    BY <1>5 DEF Revoke
  <2>2. /\ \A q \in Requests : q # r => request'[q] = request[q]
        /\ request'[r] = Idle
    BY <2>1 DEF Finish, TypeOK
  <2> QED BY <1>1, <1>2, <1>3, <1>5, <2>2
<1> QED BY <1>4, <1>5

-----------------------------------------------------------------------------
(* The types *)

(* Every operation of internal/auth keeps the types. *)
LEMMA TypeInductive ==
  ASSUME TypeOK, RowInv, RequestInv, [Next]_vars
  PROVE  TypeOK'
<1> USE SessionsAssumption DEF TypeOK, rows, Idle, Become, Finish, Create
<1>1. CASE UNCHANGED vars
  BY <1>1 DEF vars
<1>2. ASSUME NEW r \in Requests, NEW u \in Users, Upsert(r, u)
      PROVE  TypeOK'
  BY <1>2 DEF Upsert
<1>3. ASSUME NEW r \in Requests, OnUserVerified(r)
      PROVE  TypeOK'
  BY <1>3 DEF OnUserVerified, RequestInv
<1>4. ASSUME NEW r \in Requests, NEW n \in Tokens, IssueRefreshToken(r, n)
      PROVE  TypeOK'
  BY <1>4 DEF IssueRefreshToken, RequestInv
<1>5. ASSUME NEW r \in Requests, NEW n \in Tokens, CreateSuccessor(r, n)
      PROVE  TypeOK'
  BY <1>5 DEF CreateSuccessor, RequestInv
<1>6. ASSUME NEW r \in Requests, NEW t \in Tokens, Find(r, t) \/ FindForLogout(r, t)
      PROVE  TypeOK'
  BY <1>6 DEF Find, FindForLogout
<1>7. ASSUME NEW r \in Requests, Answer(r)
      PROVE  TypeOK'
  BY <1>7 DEF Answer, RequestInv
<1>8. ASSUME NEW r \in Requests, Revoke(r)
      PROVE  TypeOK'
  BY <1>8 DEF Revoke, RequestInv
<1>9. ASSUME NEW r \in Requests, Logout(r)
      PROVE  TypeOK'
  BY <1>9 DEF Logout, RequestInv, RowInv
<1>10. ASSUME NEW r \in Requests, Fail(r)
      PROVE  TypeOK'
  BY <1>10 DEF Fail, RequestInv, RowInv
<1>11. ASSUME NEW t \in Tokens, Expire(t)
      PROVE  TypeOK'
  BY <1>11 DEF Expire
<1> QED BY <1>1, <1>2, <1>3, <1>4, <1>5, <1>6, <1>7, <1>8, <1>9, <1>10, <1>11
  DEF Next, VerifyAndUpsert, SignIn, Refresh, LogoutHandler
(* Rows appear with their user, root and parent and are only revoked.      *)
LEMMA RowInductive ==
  ASSUME TypeOK, RowInv, RequestInv, [Next]_vars
  PROVE  RowInv'
<1> USE SessionsAssumption DEF TypeOK, RowInv, RequestInv, rows, Idle, Become, Finish, Create
<1>1. CASE UNCHANGED vars
  BY <1>1 DEF vars
<1>2. ASSUME NEW r \in Requests, NEW u \in Users, Upsert(r, u)
      PROVE  RowInv'
  BY <1>2 DEF Upsert
<1>3. ASSUME NEW r \in Requests, OnUserVerified(r)
      PROVE  RowInv'
  BY <1>3 DEF OnUserVerified
<1>4. ASSUME NEW r \in Requests, NEW n \in Tokens, IssueRefreshToken(r, n)
      PROVE  RowInv'
  BY <1>4 DEF IssueRefreshToken
<1>5. ASSUME NEW r \in Requests, NEW n \in Tokens, CreateSuccessor(r, n)
      PROVE  RowInv'
  BY <1>5 DEF CreateSuccessor
<1>6. ASSUME NEW r \in Requests, NEW t \in Tokens, Find(r, t) \/ FindForLogout(r, t)
      PROVE  RowInv'
  BY <1>6 DEF Find, FindForLogout
<1>7. ASSUME NEW r \in Requests, Answer(r)
      PROVE  RowInv'
  BY <1>7 DEF Answer
<1>8. ASSUME NEW r \in Requests, Revoke(r)
      PROVE  RowInv'
  BY <1>8, RevokeSteps
<1>9. ASSUME NEW r \in Requests, Logout(r)
      PROVE  RowInv'
  BY <1>9 DEF Logout
<1>10. ASSUME NEW r \in Requests, Fail(r)
      PROVE  RowInv'
  BY <1>10 DEF Fail
<1>11. ASSUME NEW t \in Tokens, Expire(t)
      PROVE  RowInv'
  BY ONLY <1>11, RowInv DEF Expire, rows, RowInv
<1> QED BY <1>1, <1>2, <1>3, <1>4, <1>5, <1>6, <1>7, <1>8, <1>9, <1>10, <1>11
  DEF Next, VerifyAndUpsert, SignIn, Refresh, LogoutHandler

(* What a request read or wrote is still there at its next statement. *)
LEMMA RequestInductive ==
  ASSUME TypeOK, RowInv, RequestInv, FamilyInv, [Next]_vars
  PROVE  RequestInv'
<1> USE SessionsAssumption DEF TypeOK, RowInv, RequestInv, FamilyInv, rows, Idle, Become, Finish, Create
<1>1. CASE UNCHANGED vars
  BY <1>1 DEF vars
<1>2. ASSUME NEW r \in Requests, NEW u \in Users, Upsert(r, u)
      PROVE  RequestInv'
  BY <1>2 DEF Upsert
<1>3. ASSUME NEW r \in Requests, OnUserVerified(r)
      PROVE  RequestInv'
  BY <1>3 DEF OnUserVerified
<1>4. ASSUME NEW r \in Requests, NEW n \in Tokens, IssueRefreshToken(r, n)
      PROVE  RequestInv'
  BY <1>4 DEF IssueRefreshToken
<1>5. ASSUME NEW r \in Requests, NEW n \in Tokens, CreateSuccessor(r, n)
      PROVE  RequestInv'
  BY <1>5 DEF CreateSuccessor
<1>6. ASSUME NEW r \in Requests, NEW t \in Tokens, Find(r, t) \/ FindForLogout(r, t)
      PROVE  RequestInv'
  <2>1. /\ UNCHANGED <<users, accounts, userOf, status, parent>>
        /\ status[t] # "absent"
        /\ \A q \in Requests : q # r => request'[q] = request[q]
        /\ request'[r].at \in {"found", "logout"}
        /\ request'[r].user = userOf[t] /\ request'[r].token = t
    BY ONLY <1>6, TypeOK, RowInv, r \in Requests, t \in Tokens, FindSteps DEF rows
  <2> QED BY ONLY <2>1, RequestInv, r \in Requests, t \in Tokens DEF RequestInv
<1>7. ASSUME NEW r \in Requests, Answer(r)
      PROVE  RequestInv'
  BY <1>7 DEF Answer
<1>8. ASSUME NEW r \in Requests, Revoke(r)
      PROVE  RequestInv'
  <2>1. PICK t \in Tokens :
          /\ t = request[r].token /\ request[r].at = "found" /\ status[t] # "absent"
          /\ UNCHANGED <<users, accounts, userOf, parent>>
          /\ \A s \in Tokens : s # t => status'[s] = status[s]
          /\ status'[t] = "revoked"
          /\ \A q \in Requests : q # r => request'[q] = request[q]
          /\ status[t] = "live" =>
               /\ request'[r].at = "revoked" /\ request'[r].token = t
               /\ request'[r].user = request[r].user
          /\ status[t] # "live" => request'[r].at = "idle"
    BY ONLY <1>8, TypeOK, RequestInv, r \in Requests, RevokeSteps DEF Idle
  <2>2. \A q \in Requests : request'[q].at \in {"upserted", "verified"} =>
          request'[q] = request[q]
    BY ONLY <2>1, r \in Requests
  <2>3. \A q \in Requests : request'[q].at \in {"found", "revoked", "answer", "logout"} =>
          /\ request'[q].token = request[q].token /\ request'[q].user = request[q].user
          /\ request[q].at \in {"found", "revoked", "answer", "logout"}
    BY ONLY <2>1, r \in Requests
  <2>4. status[t] = "live" => \A n \in Tokens : parent[n] # t
    BY ONLY <2>1, RowInv, SessionsAssumption DEF RowInv, SessionsAssumption
  <2>5. \A s \in Tokens : status[s] # "absent" => status'[s] # "absent"
    BY ONLY <2>1
  <2>6. \A q \in Requests : request'[q].at = "revoked" =>
          /\ status'[request'[q].token] = "revoked"
          /\ \A n \in Tokens : parent'[n] # request'[q].token
    BY ONLY <2>1, <2>4, RequestInv, r \in Requests DEF RequestInv
  <2>7. \A q \in Requests : request'[q].at \in {"found", "revoked", "answer", "logout"} =>
          /\ request'[q].token \in Tokens
          /\ status'[request'[q].token] # "absent"
          /\ request'[q].user = userOf'[request'[q].token]
    BY ONLY <2>1, <2>3, <2>5, RequestInv DEF RequestInv
  <2> QED BY ONLY <2>1, <2>2, <2>6, <2>7, RequestInv DEF RequestInv
<1>9. ASSUME NEW r \in Requests, Logout(r)
      PROVE  RequestInv'
  BY <1>9 DEF Logout
<1>10. ASSUME NEW r \in Requests, Fail(r)
      PROVE  RequestInv'
  BY <1>10 DEF Fail
<1>11. ASSUME NEW t \in Tokens, Expire(t)
      PROVE  RequestInv'
  BY <1>11 DEF Expire
<1> QED BY <1>1, <1>2, <1>3, <1>4, <1>5, <1>6, <1>7, <1>8, <1>9, <1>10, <1>11
  DEF Next, VerifyAndUpsert, SignIn, Refresh, LogoutHandler

(* Fresh tokens are not known, and answers do not share a token. *)
LEMMA AnswerInductive ==
  ASSUME TypeOK, RowInv, RequestInv, AnswerInv, [Next]_vars
  PROVE  AnswerInv'
<1> USE SessionsAssumption DEF TypeOK, RowInv, RequestInv, AnswerInv, rows, Idle, Become, Finish, Create
<1>1. CASE UNCHANGED vars
  BY <1>1 DEF vars
<1>2. ASSUME NEW r \in Requests, NEW u \in Users, Upsert(r, u)
      PROVE  AnswerInv'
  BY <1>2 DEF Upsert
<1>3. ASSUME NEW r \in Requests, OnUserVerified(r)
      PROVE  AnswerInv'
  BY <1>3 DEF OnUserVerified
<1>4. ASSUME NEW r \in Requests, NEW n \in Tokens, IssueRefreshToken(r, n)
      PROVE  AnswerInv'
  BY <1>4 DEF IssueRefreshToken
<1>5. ASSUME NEW r \in Requests, NEW n \in Tokens, CreateSuccessor(r, n)
      PROVE  AnswerInv'
  BY <1>5 DEF CreateSuccessor
<1>6. ASSUME NEW r \in Requests, NEW t \in Tokens, Find(r, t) \/ FindForLogout(r, t)
      PROVE  AnswerInv'
  <2>1. /\ UNCHANGED <<status, known>> /\ t \in known
        /\ \A q \in Requests : q # r => request'[q] = request[q]
        /\ request'[r].at \in {"found", "logout"} /\ request'[r].token = t
    BY ONLY <1>6, TypeOK, RowInv, r \in Requests, t \in Tokens, FindSteps DEF rows
  <2> QED BY ONLY <2>1, AnswerInv, r \in Requests, t \in Tokens DEF AnswerInv
<1>7. ASSUME NEW r \in Requests, Answer(r)
      PROVE  AnswerInv'
  BY <1>7 DEF Answer
<1>8. ASSUME NEW r \in Requests, Revoke(r)
      PROVE  AnswerInv'
  BY <1>8, RevokeSteps
<1>9. ASSUME NEW r \in Requests, Logout(r)
      PROVE  AnswerInv'
  BY <1>9 DEF Logout
<1>10. ASSUME NEW r \in Requests, Fail(r)
      PROVE  AnswerInv'
  BY <1>10 DEF Fail
<1>11. ASSUME NEW t \in Tokens, Expire(t)
      PROVE  AnswerInv'
  BY ONLY <1>11, AnswerInv DEF Expire, rows, AnswerInv
<1> QED BY <1>1, <1>2, <1>3, <1>4, <1>5, <1>6, <1>7, <1>8, <1>9, <1>10, <1>11
  DEF Next, VerifyAndUpsert, SignIn, Refresh, LogoutHandler

(* Revoke turns the one valid token of a family into its one rotation; a   *)
(* rotation into its one valid token; and only a valid token ends one.     *)
LEMMA FamilyInductive ==
  ASSUME TypeOK, RowInv, RequestInv, FamilyInv, [Next]_vars
  PROVE  FamilyInv'
<1> USE SessionsAssumption DEF TypeOK, RowInv, RequestInv, FamilyInv, LogoutEnds, rows, Idle, Become, Finish, Create
<1>0. ASSUME UNCHANGED <<status, parent, root, ended>>,
             \A q \in Requests : request'[q].at = "revoked" => request'[q] = request[q]
      PROVE  FamilyInv'
  BY <1>0
<1>1. CASE UNCHANGED vars
  BY <1>1 DEF vars
<1>2. ASSUME NEW r \in Requests, NEW u \in Users, Upsert(r, u)
      PROVE  FamilyInv'
  <2>1. /\ UNCHANGED <<status, parent, root, ended>>
        /\ \A q \in Requests : q # r => request'[q] = request[q]
        /\ request'[r].at = "upserted"
    BY <1>2 DEF Upsert
  <2> QED BY <2>1, <1>0
<1>3. ASSUME NEW r \in Requests, OnUserVerified(r)
      PROVE  FamilyInv'
  BY <1>3 DEF OnUserVerified
<1>4. ASSUME NEW r \in Requests, NEW n \in Tokens, IssueRefreshToken(r, n)
      PROVE  FamilyInv'
  BY <1>4 DEF IssueRefreshToken
<1>5. ASSUME NEW r \in Requests, NEW n \in Tokens, CreateSuccessor(r, n)
      PROVE  FamilyInv'
  BY <1>5 DEF CreateSuccessor
<1>6. ASSUME NEW r \in Requests, NEW t \in Tokens, Find(r, t) \/ FindForLogout(r, t)
      PROVE  FamilyInv'
  <2>1. /\ UNCHANGED <<status, parent, root, ended>>
        /\ \A q \in Requests : q # r => request'[q] = request[q]
        /\ request'[r].at \in {"found", "logout"}
    BY <1>6 DEF Find, FindForLogout
  <2> QED BY <2>1, <1>0
<1>7. ASSUME NEW r \in Requests, Answer(r)
      PROVE  FamilyInv'
  BY <1>7 DEF Answer
<1>8. ASSUME NEW r \in Requests, Revoke(r)
      PROVE  FamilyInv'
  <2>1. PICK t \in Tokens :
          /\ t = request[r].token /\ request[r].at = "found"
          /\ UNCHANGED <<parent, root, ended>>
          /\ \A s \in Tokens : s # t => status'[s] = status[s]
          /\ status'[t] = "revoked"
          /\ \A q \in Requests : q # r => request'[q] = request[q]
          /\ status[t] = "live" => request'[r].at = "revoked" /\ request'[r].token = t
          /\ status[t] # "live" => request'[r].at = "idle"
    BY ONLY <1>8, TypeOK, RequestInv, r \in Requests, RevokeSteps DEF Idle
  <2>2. \A s \in Tokens : status'[s] = "live" => status[s] = "live" /\ s # t
    BY ONLY <2>1
  <2>3. \A q \in Requests : request'[q].at = "revoked" =>
          \/ q = r /\ status[t] = "live" /\ request'[q].token = t
          \/ q # r /\ request'[q] = request[q]
    BY ONLY <2>1, r \in Requests
  <2>4. status[t] = "live" => root[t] \notin ended
    BY ONLY <2>1, FamilyInv DEF FamilyInv, LogoutEnds
  <2>5. \A s, u \in Tokens :
          status'[s] = "live" /\ status'[u] = "live" /\ root'[s] = root'[u] => s = u
    BY ONLY <2>1, <2>2, FamilyInv DEF FamilyInv
  <2>6. \A s \in Tokens, q \in Requests :
          status'[s] = "live" /\ request'[q].at = "revoked" => root'[request'[q].token] # root'[s]
    BY ONLY <2>1, <2>2, <2>3, FamilyInv DEF FamilyInv
  <2>7. \A p, q \in Requests :
          /\ request'[p].at = "revoked" /\ request'[q].at = "revoked"
          /\ root'[request'[p].token] = root'[request'[q].token]
          => p = q
    BY ONLY <2>1, <2>3, FamilyInv DEF FamilyInv
  <2>8. \A q \in Requests : request'[q].at = "revoked" => root'[request'[q].token] \notin ended'
    BY ONLY <2>1, <2>3, <2>4, FamilyInv DEF FamilyInv
  <2>9. (\A s \in ended : status[s] # "absent")' /\ LogoutEnds'
    BY ONLY <2>1, ended \subseteq Tokens, FamilyInv DEF FamilyInv, LogoutEnds
  <2> QED BY ONLY <2>1, <2>5, <2>6, <2>7, <2>8, <2>9, FamilyInv DEF FamilyInv
<1>9. ASSUME NEW r \in Requests, Logout(r)
      PROVE  FamilyInv'
  BY <1>9 DEF Logout
<1>10. ASSUME NEW r \in Requests, Fail(r)
      PROVE  FamilyInv'
  BY <1>10 DEF Fail
<1>11. ASSUME NEW t \in Tokens, Expire(t)
      PROVE  FamilyInv'
  BY <1>11 DEF Expire
<1> QED BY <1>1, <1>2, <1>3, <1>4, <1>5, <1>6, <1>7, <1>8, <1>9, <1>10, <1>11
  DEF Next, VerifyAndUpsert, SignIn, Refresh, LogoutHandler

(* A family whose newest token is in hand keeps one in hand, whatever the  *)
(* requests of other families and overlapping requests of this one do.     *)
LEMMA SurvivesInductive ==
  ASSUME SessionInv, SessionSurvives, [Next]_vars
  PROVE  SessionSurvives'
<1> SUFFICES ASSUME NEW f \in Tokens, root'[f] = f, f \notin ended' \cup spoiled'
             PROVE  (\E t \in Tokens : root[t] = f /\ InHand(t))'
  BY DEF SessionSurvives
<1> USE SessionsAssumption DEF SessionInv, TypeOK, RowInv, RequestInv, AnswerInv, InHand, rows,
        Idle, Become, Finish
<1>0. ASSUME root[f] = f, f \notin ended \cup spoiled
      PROVE  \E t \in Tokens : root[t] = f /\ InHand(t)
  BY <1>0 DEF SessionSurvives
<1>1. CASE UNCHANGED vars
  BY <1>0, <1>1 DEF vars
<1>2. ASSUME NEW r \in Requests, NEW u \in Users, Upsert(r, u)
      PROVE  (\E t \in Tokens : root[t] = f /\ InHand(t))'
  BY <1>0, <1>2 DEF Upsert
<1>3. ASSUME NEW r \in Requests, OnUserVerified(r)
      PROVE  (\E t \in Tokens : root[t] = f /\ InHand(t))'
  BY <1>0, <1>3 DEF OnUserVerified
<1>4. ASSUME NEW r \in Requests, NEW n \in Tokens, IssueRefreshToken(r, n)
      PROVE  (\E t \in Tokens : root[t] = f /\ InHand(t))'
  BY <1>0, <1>4 DEF IssueRefreshToken, Create
<1>5. ASSUME NEW r \in Requests, NEW n \in Tokens, CreateSuccessor(r, n)
      PROVE  (\E t \in Tokens : root[t] = f /\ InHand(t))'
  BY <1>0, <1>5 DEF CreateSuccessor, Create
<1>6. ASSUME NEW r \in Requests, NEW t \in Tokens, Find(r, t) \/ FindForLogout(r, t)
      PROVE  (\E s \in Tokens : root[s] = f /\ InHand(s))'
  BY <1>0, <1>6 DEF Find, FindForLogout
<1>7. ASSUME NEW r \in Requests, Answer(r)
      PROVE  (\E t \in Tokens : root[t] = f /\ InHand(t))'
  BY <1>0, <1>7 DEF Answer
<1>8. ASSUME NEW r \in Requests, Revoke(r)
      PROVE  (\E t \in Tokens : root[t] = f /\ InHand(t))'
  BY <1>0, <1>8, RevokeSteps
<1>9. ASSUME NEW r \in Requests, Logout(r)
      PROVE  (\E t \in Tokens : root[t] = f /\ InHand(t))'
  BY <1>0, <1>9 DEF Logout
<1>10. ASSUME NEW r \in Requests, Fail(r)
      PROVE  (\E t \in Tokens : root[t] = f /\ InHand(t))'
  BY <1>0, <1>10 DEF Fail
<1>11. ASSUME NEW t \in Tokens, Expire(t)
      PROVE  (\E s \in Tokens : root[s] = f /\ InHand(s))'
  BY <1>0, <1>11 DEF Expire
<1> QED BY <1>1, <1>2, <1>3, <1>4, <1>5, <1>6, <1>7, <1>8, <1>9, <1>10, <1>11
  DEF Next, VerifyAndUpsert, SignIn, Refresh, LogoutHandler

-----------------------------------------------------------------------------
(* The theorems *)

(* No row and no request yet. *)
LEMMA SessionInitially == Init => SessionInv /\ SessionSurvives
BY SessionsAssumption
DEF Init, SessionInv, TypeOK, RowInv, RequestInv, AnswerInv, FamilyInv, LogoutEnds,
    SessionSurvives, Idle

(* The parts together are inductive. *)
LEMMA SessionInductive ==
  SessionInv /\ SessionSurvives /\ [Next]_vars => SessionInv' /\ SessionSurvives'
<1> SUFFICES ASSUME SessionInv, SessionSurvives, [Next]_vars
             PROVE  SessionInv' /\ SessionSurvives'
  OBVIOUS
<1>1. TypeOK /\ RowInv /\ RequestInv /\ AnswerInv /\ FamilyInv
  BY DEF SessionInv
<1>2. TypeOK' /\ RowInv' /\ RequestInv' /\ AnswerInv' /\ FamilyInv'
  BY <1>1, TypeInductive, RowInductive, RequestInductive, AnswerInductive, FamilyInductive
<1> QED BY <1>2, SurvivesInductive DEF SessionInv

(* Every state satisfies all parts. *)
LEMMA SessionAlways == Spec => [](SessionInv /\ SessionSurvives)
BY SessionInitially, SessionInductive, PTL DEF Spec

(* The columns and the requests under way keep their types. *)
THEOREM TypeCorrect == Spec => []TypeOK
<1>1. SessionInv => TypeOK
  BY DEF SessionInv
<1> QED BY <1>1, SessionAlways, PTL

(* However many requests present a token at once, one of them at most      *)
(* exchanges it (RotateRefreshToken's conditional revocation).             *)
THEOREM RotationCorrect == Spec => []RotationExclusive
<1>1. SessionInv => RotationExclusive
  BY DEF SessionInv, RowInv, FamilyInv, RotationExclusive
<1> QED BY <1>1, SessionAlways, PTL

(* A logout that revoked a valid token leaves no valid token in its        *)
(* family, now or later.                                                   *)
THEOREM LogoutCorrect == Spec => []LogoutEnds
<1>1. SessionInv => LogoutEnds
  BY DEF SessionInv, FamilyInv
<1> QED BY <1>1, SessionAlways, PTL

(* Without logout and failures no session gets lost. *)
THEOREM SurvivalCorrect == Spec => []SessionSurvives
BY SessionAlways, PTL

(* upsertAndNotify makes user and account before a token is issued. *)
THEOREM AccountCorrect == Spec => []TokenHasAccount
<1>1. SessionInv => TokenHasAccount
  BY DEF SessionInv, RowInv, TokenHasAccount
<1> QED BY <1>1, SessionAlways, PTL

(* No step of a family without valid token and rotation starts a rotation  *)
(* or adds a token.                                                        *)
LEMMA DeadStep ==
  ASSUME SessionInv, [Next]_vars, NEW f \in Tokens, Dead(f)
  PROVE  Dead(f)'
<1> USE SessionsAssumption DEF SessionInv, TypeOK, RowInv, RequestInv, Dead, Rotating, rows,
        Idle, Become, Finish
<1>1. CASE UNCHANGED vars
  BY <1>1 DEF vars
<1>2. ASSUME NEW r \in Requests, NEW u \in Users, Upsert(r, u)
      PROVE  Dead(f)'
  BY <1>2 DEF Upsert
<1>3. ASSUME NEW r \in Requests, OnUserVerified(r)
      PROVE  Dead(f)'
  BY <1>3 DEF OnUserVerified
<1>4. ASSUME NEW r \in Requests, NEW n \in Tokens, IssueRefreshToken(r, n)
      PROVE  Dead(f)'
  <2>1. n # f /\ root' = [root EXCEPT ![n] = n]
    BY <1>4 DEF IssueRefreshToken, Create
  <2> QED BY <1>4, <2>1 DEF IssueRefreshToken, Create
<1>5. ASSUME NEW r \in Requests, NEW n \in Tokens, CreateSuccessor(r, n)
      PROVE  Dead(f)'
  <2>0. request[r].token \in Tokens
    BY <1>5 DEF CreateSuccessor
  <2>1. n # f /\ root' = [root EXCEPT ![n] = root[request[r].token]]
    <3>1. root' = [root EXCEPT ![n] = root[request[r].token]]
      BY <1>5, <2>0 DEF CreateSuccessor, Create
    <3>2. n # f
      BY <1>5 DEF CreateSuccessor, Create
    <3> QED BY <3>1, <3>2
  <2>2. root[request[r].token] # f
    BY <1>5 DEF CreateSuccessor
  <2> QED BY <1>5, <2>1, <2>2 DEF CreateSuccessor, Create
<1>6. ASSUME NEW r \in Requests, NEW t \in Tokens, Find(r, t) \/ FindForLogout(r, t)
      PROVE  Dead(f)'
  <2>1. (t \notin expired /\ status[t] # "revoked") \/ request'[r].at = "logout"
    BY <1>6 DEF Find, FindForLogout
  <2> QED BY <1>6, <2>1, FindSteps
<1>7. ASSUME NEW r \in Requests, Answer(r)
      PROVE  Dead(f)'
  BY <1>7 DEF Answer
<1>8. ASSUME NEW r \in Requests, Revoke(r)
      PROVE  Dead(f)'
  BY <1>8 DEF Revoke
<1>9. ASSUME NEW r \in Requests, Logout(r)
      PROVE  Dead(f)'
  BY <1>9 DEF Logout
<1>10. ASSUME NEW r \in Requests, Fail(r)
      PROVE  Dead(f)'
  BY <1>10 DEF Fail
<1>11. ASSUME NEW t \in Tokens, Expire(t)
      PROVE  Dead(f)'
  BY <1>11 DEF Expire
<1> QED BY <1>1, <1>2, <1>3, <1>4, <1>5, <1>6, <1>7, <1>8, <1>9, <1>10, <1>11
  DEF Next, VerifyAndUpsert, SignIn, Refresh, LogoutHandler

(* RotateRefreshToken's checks of revoked_at and expires_at hold although  *)
(* they come one statement before the revocation.                          *)
THEOREM DeadCorrect == Spec => DeadStaysDead
<1>1. SessionInv /\ [Next]_vars => [\A f \in Tokens : Dead(f) => Dead(f)']_vars
  BY DeadStep
<1> QED BY <1>1, SessionAlways, PTL DEF Spec, DeadStaysDead
-----------------------------------------------------------------------------
(* Every sign-in implements module SessionFamily *)

(* A family whose rows and rotations are the same is in the same state.    *)
LEMMA SameState ==
  ASSUME NEW f \in Tokens, (root'[f] = f) <=> (root[f] = f), Valid(f)' = Valid(f),
         Rotates(f)' <=> Rotates(f)
  PROVE  State(f)' = State(f) /\ Current(f)' = Current(f)
<1>1. State(f)' = State(f)
  BY DEF State
<1> QED BY <1>1 DEF Current

(* What a step that moves one family is to SessionFamily.                  *)
LEMMA FamilyMoves ==
  ASSUME NEW f \in Tokens, NEW phase, NEW token, State(f)' = phase, Current(f)' = token,
         \A g \in Tokens \ {f} :
           ((root'[g] = g) <=> (root[g] = g)) /\ Valid(g)' = Valid(g) /\ (Rotates(g)' <=> Rotates(g))
  PROVE  Families!Enter(f, phase, token)
<1>1. \A g \in Tokens \ {f} : State(g)' = State(g) /\ Current(g)' = Current(g)
  BY SameState
<1> QED BY <1>1 DEF Families!Enter

(* What a step that moves no family is to SessionFamily.                   *)
LEMMA FamiliesStay ==
  ASSUME UNCHANGED <<status, root>>, \A f \in Tokens : Rotates(f)' <=> Rotates(f)
  PROVE  UNCHANGED Families!fvars
<1>1. \A f \in Tokens : Valid(f)' = Valid(f)
  BY DEF Valid
<1>2. \A f \in Tokens : State(f)' = State(f) /\ Current(f)' = Current(f)
  BY <1>1, SameState
<1> QED BY <1>2 DEF Families!fvars

(* The state of a family with a valid token.                               *)
LEMMA ValidState ==
  ASSUME FamilyInv, NEW t \in Tokens, status[t] = "live", root[t] \in Tokens,
         root[root[t]] = root[t]
  PROVE  Valid(root[t]) = {t} /\ State(root[t]) = "valid" /\ Current(root[t]) = t
<1>1. Valid(root[t]) = {t}
  BY DEF Valid, FamilyInv
<1>2. State(root[t]) = "valid"
  BY <1>1 DEF State
<1> QED BY <1>1, <1>2 DEF Current

(* Sign-in, the conditional revocation, the successor, logout and a lost   *)
(* rotation are the steps of the chain; everything else is invisible.      *)
LEMMA FamilyRefines ==
  ASSUME SessionInv, SessionInv', [Next]_vars
  PROVE  [Families!Next]_Families!fvars
<1> USE SessionsAssumption DEF SessionInv, TypeOK, RowInv, RequestInv
<1>0. ASSUME UNCHANGED <<status, root>>, NEW r \in Requests,
             \A q \in Requests : q # r => request'[q] = request[q],
             request[r].at # "revoked", request'[r].at # "revoked"
      PROVE  UNCHANGED Families!fvars
  <2>1. \A f \in Tokens : Rotates(f)' <=> Rotates(f)
    BY <1>0 DEF Rotates
  <2> QED BY <1>0, <2>1, FamiliesStay
<1>1. CASE UNCHANGED vars
  BY <1>1, FamiliesStay DEF vars, rows, Rotates
<1>2. ASSUME NEW r \in Requests, (\E u \in Users : Upsert(r, u)) \/ OnUserVerified(r) \/ Answer(r)
             \/ \E t \in Tokens : Find(r, t) \/ FindForLogout(r, t)
      PROVE  UNCHANGED Families!fvars
  <2>1. UNCHANGED <<status, root>> /\ request[r].at # "revoked" /\ request'[r].at # "revoked"
    BY <1>2 DEF Upsert, OnUserVerified, Answer, Find, FindForLogout, Become, Finish, Idle, rows
  <2>2. \A q \in Requests : q # r => request'[q] = request[q]
    BY <1>2 DEF Upsert, OnUserVerified, Answer, Find, FindForLogout, Become, Finish
  <2> QED BY <2>1, <2>2, <1>0
<1>3. ASSUME NEW r \in Requests, NEW n \in Tokens, IssueRefreshToken(r, n)
      PROVE  Families!Begin(n)
  <2>1. /\ status[n] = "absent" /\ status' = [status EXCEPT ![n] = "live"]
        /\ root' = [root EXCEPT ![n] = n]
        /\ request[r].at = "verified"
        /\ request' = [request EXCEPT ![r] = [at |-> "answer", user |-> request[r].user, token |-> n]]
    BY <1>3 DEF IssueRefreshToken, Create, Become
  <2>2. State(n) = "new"
    BY <2>1 DEF State
  <2>3. status'[n] = "live" /\ root'[n] = n
    BY <2>1
  <2>4. State(n)' = "valid" /\ Current(n)' = n
    <3>1. Valid(n)' = {n}
      BY <2>3 DEF FamilyInv, Valid
    <3>2. State(n)' = "valid"
      BY <2>3, <3>1 DEF State
    <3> QED BY <3>1, <3>2 DEF Current
  <2>5. \A g \in Tokens \ {n} :
          ((root'[g] = g) <=> (root[g] = g)) /\ Valid(g)' = Valid(g) /\ (Rotates(g)' <=> Rotates(g))
    <3> TAKE g \in Tokens \ {n}
    <3>1. Valid(g)' = Valid(g)
      BY <2>1 DEF Valid
    <3>2. Rotates(g)' <=> Rotates(g)
      <4>1. /\ \A q \in Requests : q # r => request'[q] = request[q]
            /\ request[r].at = "verified" /\ request'[r].at = "answer"
        BY <2>1
      <4>2. \A q \in Requests : request[q].at = "revoked" =>
              root'[request[q].token] = root[request[q].token]
        BY <2>1
      <4> QED BY ONLY <4>1, <4>2, r \in Requests DEF Rotates
    <3> QED BY <2>1, <3>1, <3>2
  <2>6. Families!Enter(n, "valid", n)
    BY <2>4, <2>5, FamilyMoves
  <2> QED BY <2>1, <2>2, <2>6 DEF Families!Begin
<1>4. ASSUME NEW r \in Requests, NEW n \in Tokens, CreateSuccessor(r, n)
      PROVE  \E f \in Tokens : Families!Succeed(f, n)
  <2>0. PICK t \in Tokens, f \in Tokens :
          t = request[r].token /\ f = root[t] /\ root[f] = f /\ status[t] # "absent"
    BY <1>4 DEF CreateSuccessor
  <2>1. /\ status[n] = "absent" /\ status' = [status EXCEPT ![n] = "live"]
        /\ n # f /\ n # t
        /\ root' = [root EXCEPT ![n] = f]
        /\ request[r].at = "revoked"
        /\ request' = [request EXCEPT ![r] = [at |-> "answer", user |-> request[r].user, token |-> n]]
    <3>0. status[f] # "absent"
      BY <2>0
    <3>1. status[n] = "absent" /\ n # f /\ n # t
      <4>1. status[n] = "absent"
        BY <1>4 DEF CreateSuccessor, Create
      <4> QED BY <2>0, <3>0, <4>1
    <3>2. root' = [root EXCEPT ![n] = f]
      <4>1. root' = [root EXCEPT ![n] = IF t = NoToken THEN n ELSE root[t]]
        <5>1. root' = [root EXCEPT ![n] =
                IF request[r].token = NoToken THEN n ELSE root[request[r].token]]
          BY <1>4, Zenon DEF CreateSuccessor, Create
        <5> QED BY <2>0, <5>1
      <4>2. (IF t = NoToken THEN n ELSE root[t]) = f
        BY <2>0
      <4> QED BY <4>1, <4>2, Zenon
    <3>3. /\ status' = [status EXCEPT ![n] = "live"] /\ request[r].at = "revoked"
          /\ request' = [request EXCEPT ![r] =
               [at |-> "answer", user |-> request[r].user, token |-> n]]
      BY <1>4 DEF CreateSuccessor, Create, Become
    <3> QED BY <3>1, <3>2, <3>3
  <2>2. State(f) = "rotating"
    <3>1. Valid(f) = {}
      BY <2>0, <2>1 DEF FamilyInv, Valid
    <3>2. Rotates(f)
      BY <2>0, <2>1 DEF Rotates
    <3> QED BY ONLY <2>0, <3>1, <3>2 DEF State
  <2>3. status'[n] = "live" /\ root'[n] = f /\ root'[f] = f
    BY <2>0, <2>1
  <2>4. State(f)' = "valid" /\ Current(f)' = n
    <3>1. Valid(f)' = {n}
      BY <2>0, <2>3 DEF FamilyInv, Valid
    <3>2. State(f)' = "valid"
      BY <2>0, <2>3, <3>1 DEF State
    <3> QED BY <3>1, <3>2 DEF Current
  <2>5. \A g \in Tokens \ {f} :
          ((root'[g] = g) <=> (root[g] = g)) /\ Valid(g)' = Valid(g) /\ (Rotates(g)' <=> Rotates(g))
    <3> TAKE g \in Tokens \ {f}
    <3>1. Valid(g)' = Valid(g)
      BY <2>0, <2>1 DEF Valid
    <3>2. Rotates(g)' <=> Rotates(g)
      <4>1. /\ \A q \in Requests : q # r => request'[q] = request[q]
            /\ request[r].at = "revoked" /\ root[request[r].token] # g
            /\ request'[r].at = "answer"
        BY <2>0, <2>1
      <4>2. \A q \in Requests : request[q].at = "revoked" =>
              root'[request[q].token] = root[request[q].token]
        BY <2>1
      <4> QED BY ONLY <4>1, <4>2, r \in Requests DEF Rotates
    <3> QED BY <2>0, <2>1, <3>1, <3>2
  <2>6. Families!Enter(f, "valid", n)
    BY <2>0, <2>1, <2>4, <2>5, FamilyMoves
  <2> QED BY <2>0, <2>1, <2>2, <2>6 DEF Families!Succeed
<1>5. ASSUME NEW r \in Requests, Revoke(r)
      PROVE  (\E f \in Tokens : Families!GiveUp(f)) \/ UNCHANGED Families!fvars
  <2>0. PICK t \in Tokens, f \in Tokens :
          t = request[r].token /\ f = root[t] /\ root[f] = f /\ status[t] # "absent"
    BY <1>5 DEF Revoke
  <2>1. /\ request[r].at = "found" /\ root' = root
        /\ status' = [status EXCEPT ![t] = "revoked"]
    BY <1>5, <2>0 DEF Revoke
  <2>2. CASE status[t] = "live"
    <3>1. request' = [request EXCEPT ![r] = [at |-> "revoked", user |-> request[r].user, token |-> t]]
      BY <1>5, <2>0, <2>2 DEF Revoke, Become
    <3>2. State(f) = "valid" /\ Valid(f) = {t}
      BY <2>0, <2>1, <2>2, ValidState
    <3>3. State(f)' = "rotating" /\ Current(f)' = NoToken
      <4>1. Valid(f)' = {}
        BY <2>0, <2>1, <3>2 DEF Valid
      <4>2. Rotates(f)'
        BY <2>0, <2>1, <3>1 DEF Rotates
      <4>3. State(f)' = "rotating"
        BY <2>0, <2>1, <4>1, <4>2 DEF State
      <4> QED BY <4>3 DEF Current
    <3>4. \A g \in Tokens \ {f} :
            ((root'[g] = g) <=> (root[g] = g)) /\ Valid(g)' = Valid(g) /\ (Rotates(g)' <=> Rotates(g))
      <4> TAKE g \in Tokens \ {f}
      <4>1. Valid(g)' = Valid(g)
        BY <2>0, <2>1 DEF Valid
      <4>2. Rotates(g)' <=> Rotates(g)
        BY <2>0, <2>1, <3>1 DEF Rotates
      <4> QED BY <2>0, <2>1, <4>1, <4>2
    <3>5. Families!Enter(f, "rotating", NoToken)
      BY <2>0, <2>1, <3>3, <3>4, FamilyMoves
    <3>6. UNCHANGED {x \in Tokens : status[x] # "absent"}
      BY <2>0, <2>1, <2>2
    <3> QED BY <2>0, <2>1, <3>2, <3>5, <3>6 DEF Families!GiveUp
  <2>3. CASE status[t] # "live"
    <3>1. status[t] = "revoked"
      BY <2>0, <2>1, <2>3
    <3>2. status' = status /\ request' = [request EXCEPT ![r] = Idle]
      BY <1>5, <2>0, <2>1, <2>3, <3>1 DEF Revoke, Finish
    <3> QED BY <2>0, <2>1, <3>2, <1>0 DEF Idle
  <2> QED BY <2>2, <2>3
<1>6. ASSUME NEW r \in Requests, Logout(r)
      PROVE  (\E f \in Tokens : Families!End(f)) \/ UNCHANGED Families!fvars
  <2>0. PICK t \in Tokens, f \in Tokens :
          t = request[r].token /\ f = root[t] /\ root[f] = f /\ status[t] # "absent"
    BY <1>6 DEF Logout
  <2>1. /\ request[r].at = "logout" /\ root' = root
        /\ status' = [status EXCEPT ![t] = "revoked"]
        /\ request' = [request EXCEPT ![r] = Idle]
    BY <1>6, <2>0 DEF Logout, Finish
  <2>2. \A g \in Tokens : Rotates(g)' <=> Rotates(g)
    BY <2>0, <2>1 DEF Rotates, Idle
  <2>3. CASE status[t] = "live"
    <3>1. State(f) = "valid" /\ Valid(f) = {t}
      BY <2>0, <2>1, <2>3, ValidState
    <3>2. State(f)' = "over" /\ Current(f)' = NoToken
      <4>1. Valid(f)' = {}
        BY <2>0, <2>1, <3>1 DEF Valid
      <4>2. ~Rotates(f)'
        BY <2>0, <2>1, <2>2, <2>3 DEF Rotates, FamilyInv
      <4>3. State(f)' = "over"
        BY <2>0, <2>1, <4>1, <4>2 DEF State
      <4> QED BY <4>3 DEF Current
    <3>3. \A g \in Tokens \ {f} : Valid(g)' = Valid(g)
      BY <2>0, <2>1 DEF Valid
    <3>4. Families!Enter(f, "over", NoToken)
      BY <2>0, <2>1, <2>2, <3>2, <3>3, FamilyMoves
    <3>5. UNCHANGED {x \in Tokens : status[x] # "absent"}
      BY <2>0, <2>1, <2>3
    <3> QED BY <2>0, <2>1, <3>1, <3>4, <3>5 DEF Families!End
  <2>4. CASE status[t] # "live"
    <3>1. status' = status
      BY <2>0, <2>1, <2>4
    <3> QED BY <2>0, <2>1, <2>2, <3>1, FamiliesStay
  <2> QED BY <2>3, <2>4
<1>7. ASSUME NEW r \in Requests, Fail(r)
      PROVE  (\E f \in Tokens : Families!End(f)) \/ UNCHANGED Families!fvars
  <2>1. UNCHANGED <<status, root>> /\ request' = [request EXCEPT ![r] = Idle]
    BY <1>7 DEF Fail, Finish, rows
  <2>2. CASE request[r].at = "revoked"
    <3>1. PICK t \in Tokens, f \in Tokens : t = request[r].token /\ f = root[t] /\ root[f] = f
      BY <2>2
    <3>2. \A g \in Tokens : Valid(g)' = Valid(g)
      BY <2>1 DEF Valid
    <3>3. State(f) = "rotating" /\ Valid(f) = {}
      <4>1. Valid(f) = {}
        BY <2>2, <3>1 DEF FamilyInv, Valid
      <4>2. Rotates(f)
        BY <2>2, <3>1 DEF Rotates
      <4> QED BY <3>1, <4>1, <4>2 DEF State
    <3>4. State(f)' = "over" /\ Current(f)' = NoToken
      <4>1. ~Rotates(f)'
        BY <2>1, <2>2, <3>1 DEF Rotates, FamilyInv, Idle
      <4>2. State(f)' = "over"
        BY <2>1, <3>1, <3>2, <3>3, <4>1 DEF State
      <4> QED BY <4>2 DEF Current
    <3>5. \A g \in Tokens \ {f} : Rotates(g)' <=> Rotates(g)
      BY <2>1, <2>2, <3>1 DEF Rotates, Idle
    <3>6. Families!Enter(f, "over", NoToken)
      BY <2>1, <3>1, <3>2, <3>4, <3>5, FamilyMoves
    <3> QED BY <2>1, <3>1, <3>3, <3>6 DEF Families!End
  <2>3. CASE request[r].at # "revoked"
    BY <2>1, <2>3, <1>0 DEF Idle
  <2> QED BY <2>2, <2>3
<1>8. ASSUME NEW t \in Tokens, Expire(t)
      PROVE  UNCHANGED Families!fvars
  BY <1>8, FamiliesStay DEF Expire, rows, Rotates
<1> QED BY <1>1, <1>2, <1>3, <1>4, <1>5, <1>6, <1>7, <1>8
  DEF Next, VerifyAndUpsert, SignIn, Refresh, LogoutHandler, Families!Next

(* Whatever requests overlap or fail, the tokens of every sign-in form a   *)
(* chain: RotateRefreshToken and RevokeRefreshToken, statements without a  *)
(* transaction, act on a family as if they ran one at a time.              *)
THEOREM FamiliesCorrect == Spec => ImplementsFamilies
<1>1. Init => Families!Init
  <2> SUFFICES ASSUME Init
               PROVE  Families!Init
    OBVIOUS
  <2>1. \A f \in Tokens : State(f) = "new" /\ Current(f) = NoToken
    BY SessionsAssumption DEF Init, State, Current
  <2> QED BY <2>1 DEF Init, Families!Init
<1>2. SessionInv /\ SessionInv' /\ [Next]_vars => [Families!Next]_Families!fvars
  BY FamilyRefines
<1> QED BY <1>1, <1>2, SessionAlways, PTL DEF Spec, ImplementsFamilies, Families!Spec
=============================================================================

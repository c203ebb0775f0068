------------------------- MODULE RemoteAccess_proofs -------------------------
(***************************************************************************)
(* Proofs about AdminAuth, Tunnel and ExternalSources: the sessions of the *)
(* admins, the tunnel and the configurations of remote access, and the     *)
(* grants of external sources.                                             *)
(***************************************************************************)
EXTENDS AdminAuth, Tunnel, ExternalSources, SequenceTheorems, FiniteSetTheorems, TLAPS

-----------------------------------------------------------------------------
(* The sessions of the admins: AdminAuth.                                  *)

Token == [kind : {"access", "refresh"}, version : Nat, live : BOOLEAN]

Request == [op : {"none", "setup", "login", "refresh", "logout", "change"},
            step : {"none", "insert", "verify", "user", "go"},
            token : Nat, other : Nat, version : Nat]

AdminTyped ==
    /\ user \in Nat
    /\ issued \in Seq(Token)
    /\ memory \in [WorkerProcesses -> SUBSET Nat]
    /\ outHere \in [WorkerProcesses -> SUBSET Nat]
    /\ out \subseteq Tokens /\ cut \subseteq Tokens
    /\ doing \in [AdminRequests -> Request]
    /\ \A r \in AdminRequests : {doing[r].token, doing[r].other} \subseteq Tokens \union {0}

\* What a logout was answered for is in the table while it lives, and in the
\* memory of the process that answered.
OutInv ==
    /\ \A t \in out : issued[t].live => t \in blacklist
    /\ \A p \in WorkerProcesses : outHere[p] \subseteq memory[p]

LogoutInv == AdminTyped /\ OutInv

\* create_tokens appends two tokens and changes none.
LEMMA CreateTokensOK ==
  ASSUME NEW version \in Nat, issued \in Seq(Token), CreateTokens(version)
  PROVE  /\ issued' \in Seq(Token)
         /\ Tokens \subseteq Tokens'
         /\ \A t \in Tokens : issued'[t] = issued[t]
         /\ \A t \in Tokens' \ Tokens : issued'[t].version = version
<1> DEFINE a == [kind |-> "access", version |-> version, live |-> TRUE]
           b == [kind |-> "refresh", version |-> version, live |-> TRUE]
<1>1. issued' = issued \o <<a, b>>
  BY DEF CreateTokens
<1>2. a \in Token /\ b \in Token
  BY DEF Token
<1>3. <<a, b>> \in Seq(Token) /\ Len(<<a, b>>) = 2
  BY <1>2
<1> HIDE DEF a, b
<1>4. /\ issued \o <<a, b>> \in Seq(Token)
      /\ Len(issued \o <<a, b>>) = Len(issued) + 2
      /\ \A i \in 1 .. Len(issued) + 2 : (issued \o <<a, b>>)[i] =
            IF i <= Len(issued) THEN issued[i] ELSE <<a, b>>[i - Len(issued)]
  BY <1>3, ConcatProperties
<1>5. /\ DOMAIN issued = 1 .. Len(issued)
      /\ DOMAIN issued' = 1 .. Len(issued) + 2
      /\ Len(issued) \in Nat
  BY <1>1, <1>4, LenProperties
<1>6. \A t \in Tokens' \ Tokens : issued'[t] \in {a, b}
  <2> SUFFICES ASSUME NEW t \in Tokens', t \notin Tokens
               PROVE  issued'[t] \in {a, b}
    OBVIOUS
  <2>1. t = Len(issued) + 1 \/ t = Len(issued) + 2
    BY <1>5 DEF Tokens
  <2>2. issued'[t] = <<a, b>>[t - Len(issued)]
    BY <1>1, <1>4, <1>5, <2>1
  <2> QED
    BY <2>1, <2>2, <1>5
<1>7. a.version = version /\ b.version = version
  BY DEF a, b
<1> QED
  BY <1>1, <1>4, <1>5, <1>6, <1>7 DEF Tokens

\* A request that takes up x, whose tokens are issued ones.
LEMMA DoesOK ==
  ASSUME AdminTyped, NEW r \in AdminRequests, NEW x \in Request, AdminDoes(r, x),
         {x.token, x.other} \subseteq Tokens \union {0}, Tokens \subseteq Tokens'
  PROVE  /\ doing' \in [AdminRequests -> Request]
         /\ \A q \in AdminRequests :
               {doing'[q].token, doing'[q].other} \subseteq Tokens' \union {0}
  BY DEF AdminTyped, AdminDoes

\* The record of no request.
LEMMA AnswerOK == NoAdminRequest \in Request /\ NoAdminRequest.token = 0
                  /\ NoAdminRequest.other = 0
  BY DEF NoAdminRequest, Request, NoUser

\* Nobody is logged in at first.
LEMMA AdminInitOK == AdminInit => LogoutInv
  BY DEF AdminInit, LogoutInv, AdminTyped, OutInv, NoUser, Tokens, NoAdminRequest, Request, Token

\* Every step of a request keeps the invariant.
LEMMA RequestOK ==
  ASSUME LogoutInv, NEW r \in AdminRequests, RequestStep(r)
  PROVE  LogoutInv'
<1> USE DEF LogoutInv, OutInv
<1>1. CASE SetupChecks(r) \/ LoginReads(r)
  <2> DEFINE x == IF SetupChecks(r)
                  THEN [NoAdminRequest EXCEPT !.op = "setup", !.step = "insert"]
                  ELSE [NoAdminRequest EXCEPT !.op = "login", !.step = "verify", !.version = user]
  <2>1. /\ AdminDoes(r, x)
        /\ UNCHANGED <<user, issued, blacklist, memory, out, outHere, cut>>
    BY <1>1 DEF SetupChecks, LoginReads
  <2>2. x \in Request /\ x.token = 0 /\ x.other = 0
    BY DEF NoAdminRequest, Request, NoUser, AdminTyped
  <2> HIDE DEF x
  <2>3. Tokens' = Tokens
    BY <2>1 DEF Tokens
  <2> QED
    BY <2>1, <2>2, <2>3, DoesOK DEF AdminTyped
<1>2. CASE LoginSucceeds(r) \/ Refresh(r)
  <2>1. doing[r].version \in Nat /\ CreateTokens(doing[r].version)
    BY <1>2 DEF LoginSucceeds, Refresh, IssueTokens, AdminTyped, Request
  <2>2. /\ issued' \in Seq(Token)
        /\ Tokens \subseteq Tokens'
        /\ \A t \in Tokens : issued'[t] = issued[t]
    BY <2>1, CreateTokensOK DEF AdminTyped
  <2>3. /\ UNCHANGED <<user, blacklist, memory, out, outHere>>
        /\ AdminDoes(r, NoAdminRequest)
        /\ cut' \subseteq cut \union Tokens'
    BY <1>2 DEF LoginSucceeds, Refresh, IssueTokens, AdminAnswer
  <2> QED
    BY <2>2, <2>3, DoesOK, AnswerOK DEF AdminTyped
<1>3. ASSUME NEW op \in {"refresh", "logout", "change"}, NEW t \in Tokens,
             NEW u \in Tokens \union {0}, PassBlacklist(r, op, t, u)
      PROVE  LogoutInv'
  <2> DEFINE x == [op |-> op, step |-> "user", token |-> t, other |-> u, version |-> NoUser]
  <2>1. /\ AdminDoes(r, x)
        /\ UNCHANGED <<user, issued, blacklist, memory, out, outHere, cut>>
    BY <1>3 DEF PassBlacklist
  <2>2. t \in Nat /\ u \in Nat
    BY DEF Tokens, AdminTyped
  <2>3. x \in Request /\ x.token = t /\ x.other = u
    BY <2>2 DEF Request, NoUser
  <2> HIDE DEF x
  <2>4. Tokens' = Tokens
    BY <2>1 DEF Tokens
  <2> QED
    BY <2>1, <2>3, <2>4, DoesOK DEF AdminTyped
<1>4. CASE PassUser(r)
  <2> DEFINE x == [doing[r] EXCEPT !.step = "go", !.version = user]
  <2>1. /\ AdminDoes(r, x)
        /\ UNCHANGED <<user, issued, blacklist, memory, out, outHere, cut>>
    BY <1>4 DEF PassUser
  <2>2. x \in Request /\ x.token = doing[r].token /\ x.other = doing[r].other
    BY DEF Request, AdminTyped
  <2> HIDE DEF x
  <2>3. Tokens' = Tokens
    BY <2>1 DEF Tokens
  <2> QED
    BY <2>1, <2>2, <2>3, DoesOK DEF AdminTyped
<1>5. ASSUME NEW p \in WorkerProcesses, Logout(r, p) \/ LogoutFails(r, p)
      PROVE  LogoutInv'
  <2>1. /\ Shown(r) \subseteq Tokens /\ Shown(r) \subseteq Nat
        /\ doing[r].token \in Nat
    BY DEF Shown, Tokens, AdminTyped, Request
  <2>2. /\ UNCHANGED <<user, issued, cut>>
        /\ AdminDoes(r, NoAdminRequest)
        /\ Tokens' = Tokens
    BY <1>5 DEF Logout, LogoutFails, AdminAnswer, Tokens
  <2>3. /\ doing' \in [AdminRequests -> Request]
        /\ \A q \in AdminRequests :
               {doing'[q].token, doing'[q].other} \subseteq Tokens' \union {0}
    BY <2>2, DoesOK, AnswerOK
  <2>4. CASE Logout(r, p)
    BY <2>1, <2>2, <2>3, <2>4 DEF Logout, AdminTyped
  <2>5. CASE LogoutFails(r, p)
    BY <2>1, <2>2, <2>3, <2>5 DEF LogoutFails, AdminTyped
  <2> QED
    BY <1>5, <2>4, <2>5
<1>6. CASE \/ SetupInserts(r) \/ LoginFails(r) \/ FailUser(r)
           \/ ChangePassword(r) \/ ChangeRefused(r)
  <2>1. /\ UNCHANGED <<issued, blacklist, memory, out, outHere>>
        /\ user' \in {user, 1, doing[r].version + 1}
        /\ cut' = cut \/ cut' = Tokens \ Outlived
        /\ AdminDoes(r, NoAdminRequest)
        /\ Tokens' = Tokens
    BY <1>6 DEF SetupInserts, LoginFails, FailUser, ChangePassword, ChangeAnswered,
       ChangeRefused, AdminAnswer, Tokens
  <2>2. user' \in Nat
    BY <2>1 DEF AdminTyped, Request
  <2> QED
    BY <2>1, <2>2, DoesOK, AnswerOK DEF AdminTyped
<1> QED
  BY <1>1, <1>2, <1>3, <1>4, <1>5, <1>6 DEF RequestStep

\* Every step of the specification keeps the invariant.
LEMMA AdminStepOK ==
  ASSUME LogoutInv, [AdminNext]_adminVars
  PROVE  LogoutInv'
<1> USE DEF LogoutInv, AdminTyped, OutInv
<1>1. ASSUME NEW t \in Tokens, ExpireToken(t)
      PROVE  LogoutInv'
  <2>1. issued' = [issued EXCEPT ![t].live = FALSE]
    BY <1>1 DEF ExpireToken
  <2>2. /\ issued \in [1 .. Len(issued) -> Token] /\ Len(issued) \in Nat
        /\ Tokens = 1 .. Len(issued)
    BY DEF Tokens
  <2>3. issued' \in [1 .. Len(issued) -> Token]
    BY <2>1, <2>2 DEF Token
  <2>4. \A s \in Tokens : issued'[s].live => issued[s].live
    BY <2>1, <2>2 DEF Token
  <2>5. issued' \in Seq(Token) /\ Tokens' = Tokens
    BY <2>2, <2>3 DEF Tokens
  <2> QED
    BY <1>1, <2>4, <2>5 DEF ExpireToken
<1>2. CASE CleanUp
  <2>1. \A t \in out : issued[t].live => t \notin Outlived
    BY DEF Outlived
  <2> QED
    BY <1>2, <2>1 DEF CleanUp, Tokens
<1>3. CASE Restart
  BY <1>3, AnswerOK DEF Restart, Tokens
<1>4. CASE UNCHANGED adminVars
  BY <1>4 DEF adminVars, Tokens
<1> QED
  BY <1>1, <1>2, <1>3, <1>4, RequestOK DEF AdminNext

\* A token whose logout was answered is not let in again, whatever overlaps,
\* expires, is cleaned up or restarts.
THEOREM LoggedOutCorrect == AdminSpec => []LoggedOutStaysOut
<1>1. LogoutInv => LoggedOutStaysOut
  BY DEF LogoutInv, AdminTyped, OutInv, LoggedOutStaysOut, Decodes, Blacklisted, Admitted
<1> QED
  BY <1>1, AdminInitOK, AdminStepOK, PTL DEF AdminSpec

-----------------------------------------------------------------------------
(* The bounds of the tokens, the versions and the restarts.                *)

VersionsInv ==
    /\ user <= MaxPasswords /\ Len(issued) <= MaxTokens
    /\ \A t \in Tokens : issued[t].version \in 1 .. MaxPasswords
    /\ \A r \in AdminRequests :
          /\ doing[r].version <= MaxPasswords
          /\ doing[r].step = "go" => doing[r].version # NoUser
          /\ doing[r].step \in {"user", "go"} => doing[r].token # 0

ListedInv ==
    /\ blacklist \subseteq Tokens /\ restarts \in 0 .. MaxRestarts
    /\ \A p \in WorkerProcesses : memory[p] \subseteq Tokens /\ outHere[p] \subseteq out

\* A request has read the user while it verifies or goes on, and late ones have.
ReadInv ==
    /\ overwritten \in BOOLEAN /\ late \subseteq AdminRequests
    /\ \A r \in AdminRequests :
          doing[r].version # NoUser \/ r \in late => doing[r].step \in {"verify", "go"}

LEMMA BoundsInit == AdminInit => VersionsInv /\ ListedInv /\ ReadInv
<1>1. AdminInit => VersionsInv /\ ListedInv
  BY AdminConstantsOK, AnswerOK
     DEF AdminInit, VersionsInv, ListedInv, Tokens, NoUser, NoAdminRequest
<1>2. AdminInit => ReadInv
  <2> SUFFICES ASSUME AdminInit PROVE ReadInv
    OBVIOUS
  <2>1. \A r \in AdminRequests : doing[r] = NoAdminRequest
    BY DEF AdminInit
  <2>2. NoAdminRequest.version = NoUser /\ NoAdminRequest.step = "none"
        /\ NoAdminRequest.token = 0
    BY DEF NoAdminRequest
  <2> QED
    BY <2>1, <2>2 DEF AdminInit, ReadInv
<1> QED
  BY <1>1, <1>2

\* A step of r that issues nothing.
LEMMA VersionsBy ==
  ASSUME AdminTyped, VersionsInv, NEW r \in AdminRequests, UNCHANGED issued,
         NEW x \in Request, AdminDoes(r, x), user' <= MaxPasswords, x.version <= MaxPasswords,
         x.step = "go" => x.version # NoUser, x.step \in {"user", "go"} => x.token # 0
  PROVE  VersionsInv'
  BY DEF AdminTyped, VersionsInv, AdminDoes, Tokens

\* A request that issues two tokens of the version it read.
LEMMA VersionsIssued ==
  ASSUME AdminTyped, VersionsInv, NEW r \in AdminRequests, CreateTokens(doing[r].version),
         doing[r].version # NoUser, AdminDoes(r, NoAdminRequest), UNCHANGED user
  PROVE  VersionsInv'
<1>1. doing[r].version \in 1 .. MaxPasswords
  BY AdminConstantsOK DEF AdminTyped, Request, VersionsInv, NoUser
<1>2. /\ issued' \in Seq(Token) /\ Tokens \subseteq Tokens'
      /\ \A t \in Tokens : issued'[t] = issued[t]
      /\ \A t \in Tokens' \ Tokens : issued'[t].version = doing[r].version
  BY <1>1, CreateTokensOK DEF AdminTyped
<1>3. Len(issued') <= MaxTokens
  <2> DEFINE a == [kind |-> "access", version |-> doing[r].version, live |-> TRUE]
             b == [kind |-> "refresh", version |-> doing[r].version, live |-> TRUE]
  <2>1. Len(issued) + 2 <= MaxTokens /\ issued' = issued \o <<a, b>>
    BY DEF CreateTokens
  <2>2. <<a, b>> \in Seq(Token) /\ Len(<<a, b>>) = 2
    BY <1>1 DEF Token
  <2> HIDE DEF a, b
  <2> QED
    BY <2>1, <2>2, ConcatProperties DEF AdminTyped
<1>4. \A t \in Tokens' : issued'[t].version \in 1 .. MaxPasswords
  BY <1>1, <1>2 DEF VersionsInv
<1>5. \A q \in AdminRequests : doing'[q] = doing[q] \/ doing'[q] = NoAdminRequest
  BY DEF AdminTyped, AdminDoes
<1>6. NoAdminRequest.version = NoUser /\ NoAdminRequest.step = "none"
  BY DEF NoAdminRequest
<1> QED
  BY <1>3, <1>4, <1>5, <1>6, AdminConstantsOK DEF VersionsInv, NoUser

LEMMA VersionsRequest ==
  ASSUME LogoutInv, VersionsInv, NEW r \in AdminRequests, RequestStep(r)
  PROVE  VersionsInv'
<1> USE AdminConstantsOK DEF LogoutInv
<1>0. /\ user \in Nat /\ user <= MaxPasswords /\ doing[r] \in Request
      /\ doing[r].version <= MaxPasswords
      /\ doing[r].step = "go" => doing[r].version # NoUser
      /\ doing[r].step \in {"user", "go"} => doing[r].token # 0
  BY DEF AdminTyped, VersionsInv
<1>n. /\ NoAdminRequest \in Request /\ NoAdminRequest.version = NoUser
      /\ NoAdminRequest.step = "none" /\ NoUser <= MaxPasswords
  BY AnswerOK DEF NoAdminRequest, NoUser
<1>1. CASE SetupChecks(r) \/ LoginReads(r)
  <2> DEFINE x == IF SetupChecks(r)
                  THEN [NoAdminRequest EXCEPT !.op = "setup", !.step = "insert"]
                  ELSE [NoAdminRequest EXCEPT !.op = "login", !.step = "verify", !.version = user]
  <2>1. AdminDoes(r, x) /\ UNCHANGED <<user, issued>>
    BY <1>1 DEF SetupChecks, LoginReads
  <2>2. CASE SetupChecks(r)
    <3>1. x \in Request /\ x.version = 0 /\ x.step = "insert"
      BY <2>2 DEF NoAdminRequest, Request, NoUser
    <3> HIDE DEF x
    <3> QED
      BY <1>0, <2>1, <3>1, VersionsBy
  <2>3. CASE ~SetupChecks(r)
    <3>1. x \in Request /\ x.version = user /\ x.step = "verify"
      BY <1>0, <2>3 DEF NoAdminRequest, Request, NoUser
    <3> HIDE DEF x
    <3> QED
      BY <1>0, <2>1, <3>1, VersionsBy
  <2> QED
    BY <2>2, <2>3
<1>2. CASE LoginSucceeds(r) \/ Refresh(r)
  <2>1. /\ CreateTokens(doing[r].version) /\ AdminDoes(r, NoAdminRequest) /\ UNCHANGED user
        /\ doing[r].version # NoUser
    BY <1>0, <1>2 DEF LoginSucceeds, Refresh, IssueTokens, AdminAnswer, At
  <2> QED
    BY <2>1, VersionsIssued
<1>3. ASSUME NEW op \in {"refresh", "logout", "change"}, NEW t \in Tokens,
             NEW u \in Tokens \union {0}, PassBlacklist(r, op, t, u)
      PROVE  VersionsInv'
  <2> DEFINE x == [op |-> op, step |-> "user", token |-> t, other |-> u, version |-> NoUser]
  <2>1. AdminDoes(r, x) /\ UNCHANGED <<user, issued>>
    BY <1>3 DEF PassBlacklist
  <2>2. t \in Nat \ {0} /\ u \in Nat
    BY DEF Tokens, AdminTyped
  <2>3. x \in Request /\ x.version = NoUser /\ x.step = "user" /\ x.token = t
    BY <2>2 DEF Request, NoUser
  <2> HIDE DEF x
  <2> QED
    BY <1>0, <1>n, <2>1, <2>2, <2>3, VersionsBy
<1>4. CASE PassUser(r)
  <2> DEFINE x == [doing[r] EXCEPT !.step = "go", !.version = user]
  <2>1. /\ AdminDoes(r, x) /\ UNCHANGED <<user, issued>> /\ user # NoUser
        /\ doing[r].step = "user"
    BY <1>4 DEF PassUser, CurrentVersion
  <2>2. x \in Request /\ x.version = user /\ x.token = doing[r].token
    BY <1>0 DEF Request
  <2> HIDE DEF x
  <2> QED
    BY <1>0, <2>1, <2>2, VersionsBy
<1>5. ASSUME UNCHANGED issued, AdminDoes(r, NoAdminRequest), user' <= MaxPasswords
      PROVE  VersionsInv'
  BY <1>5, <1>n, VersionsBy
<1>6. CASE SetupInserts(r) \/ ChangePassword(r)
  <2>1. UNCHANGED issued /\ AdminDoes(r, NoAdminRequest)
    BY <1>6 DEF SetupInserts, ChangePassword, ChangeAnswered, AdminAnswer
  <2>2. user' <= MaxPasswords
    BY <1>0, <1>6 DEF SetupInserts, ChangePassword, Request
  <2> QED
    BY <1>5, <2>1, <2>2
<1>7. CASE \/ LoginFails(r) \/ FailUser(r) \/ ChangeRefused(r)
           \/ \E p \in WorkerProcesses : Logout(r, p) \/ LogoutFails(r, p)
  <2>1. UNCHANGED <<user, issued>> /\ AdminDoes(r, NoAdminRequest)
    BY <1>7 DEF LoginFails, FailUser, ChangeRefused, Logout, LogoutFails, AdminAnswer
  <2> QED
    BY <1>0, <1>5, <2>1
<1> QED
  BY <1>1, <1>2, <1>3, <1>4, <1>6, <1>7 DEF RequestStep

LEMMA VersionsStep ==
  ASSUME LogoutInv, VersionsInv, [AdminNext]_adminVars
  PROVE  VersionsInv'
<1> USE DEF LogoutInv
<1>1. ASSUME NEW t \in Tokens, ExpireToken(t) PROVE VersionsInv'
  <2>1. issued' = [issued EXCEPT ![t].live = FALSE] /\ UNCHANGED <<user, doing>>
    BY <1>1 DEF ExpireToken
  <2>2. /\ issued \in [1 .. Len(issued) -> Token] /\ Len(issued) \in Nat
        /\ Tokens = 1 .. Len(issued)
    BY DEF Tokens, AdminTyped
  <2>3. issued' \in [1 .. Len(issued) -> Token]
    BY <2>1, <2>2 DEF Token
  <2>4. \A s \in Tokens : issued'[s].version = issued[s].version
    BY <2>1, <2>2 DEF Token
  <2>5. Tokens' = Tokens /\ Len(issued') = Len(issued)
    BY <2>2, <2>3 DEF Tokens
  <2> QED
    BY <2>1, <2>4, <2>5 DEF VersionsInv
<1>2. CASE CleanUp \/ UNCHANGED adminVars
  BY <1>2 DEF CleanUp, adminVars, VersionsInv, Tokens
<1>3. CASE Restart
  <2>1. NoAdminRequest.version = NoUser /\ NoAdminRequest.step = "none"
    BY DEF NoAdminRequest
  <2>2. UNCHANGED <<user, issued>> /\ \A r \in AdminRequests : doing'[r] = NoAdminRequest
    BY <1>3 DEF Restart
  <2> QED
    BY <2>1, <2>2, AdminConstantsOK DEF VersionsInv, Tokens, NoUser
<1> QED
  BY <1>1, <1>2, <1>3, VersionsRequest DEF AdminNext

LEMMA ListedStep ==
  ASSUME LogoutInv, VersionsInv, ListedInv, [AdminNext]_adminVars
  PROVE  ListedInv'
<1> USE DEF LogoutInv, ListedInv
<1>1. ASSUME Tokens \subseteq Tokens', UNCHANGED <<blacklist, memory, out, outHere, restarts>>
      PROVE  ListedInv'
  BY <1>1
<1>2. ASSUME NEW r \in AdminRequests, LoginSucceeds(r) \/ Refresh(r) PROVE ListedInv'
  <2>1. doing[r].version \in Nat /\ CreateTokens(doing[r].version)
    BY <1>2 DEF LoginSucceeds, Refresh, IssueTokens, AdminTyped, Request
  <2>2. Tokens \subseteq Tokens'
    BY <2>1, CreateTokensOK DEF AdminTyped
  <2> QED
    BY <1>1, <1>2, <2>2 DEF LoginSucceeds, Refresh, IssueTokens
<1>3. ASSUME NEW r \in AdminRequests, NEW p \in WorkerProcesses, Logout(r, p) \/ LogoutFails(r, p)
      PROVE  ListedInv'
  <2>1. /\ Shown(r) \subseteq Tokens /\ Tokens' = Tokens /\ restarts' = restarts
        /\ doing[r].token \in Tokens \union {0}
    BY <1>3 DEF Shown, Tokens, AdminTyped, Logout, LogoutFails
  <2>2. CASE Logout(r, p)
    BY <2>1, <2>2 DEF Logout, AdminTyped
  <2>3. CASE LogoutFails(r, p)
    <3>1. CASE doing[r].token \in blacklist
      BY <1>1, <2>1, <2>3, <3>1 DEF LogoutFails
    <3>2. CASE doing[r].token \notin blacklist
      <4>1. /\ memory' = [memory EXCEPT ![p] = @ \union {doing[r].token}]
            /\ UNCHANGED <<blacklist, out, outHere>>
        BY <2>3, <3>2 DEF LogoutFails
      <4>2. doing[r].token \in Tokens
        BY <2>1, <2>3 DEF LogoutFails, At, VersionsInv
      <4>3. \A q \in WorkerProcesses : memory'[q] \subseteq memory[q] \union {doing[r].token}
        BY <4>1 DEF AdminTyped
      <4> QED
        BY <2>1, <4>1, <4>2, <4>3
    <3> QED
      BY <3>1, <3>2
  <2> QED
    BY <1>3, <2>2, <2>3
<1>4. ASSUME NEW t \in Tokens, ExpireToken(t) PROVE ListedInv'
  <2>1. Tokens' = Tokens
    BY <1>4 DEF ExpireToken, Tokens, AdminTyped
  <2> QED
    BY <1>4, <2>1 DEF ExpireToken
<1>5. CASE CleanUp
  BY <1>5 DEF CleanUp, Tokens
<1>6. CASE Restart
  BY <1>6, AdminConstantsOK DEF Restart, Tokens
<1>7. ASSUME NEW r \in AdminRequests, RequestStep(r) PROVE ListedInv'
  <2>1. CASE \/ SetupChecks(r) \/ SetupInserts(r) \/ LoginReads(r) \/ LoginFails(r)
             \/ PassUser(r) \/ FailUser(r) \/ ChangePassword(r) \/ ChangeRefused(r)
             \/ \E op \in {"refresh", "logout", "change"}, t \in Tokens, u \in Tokens \union {0} :
                   PassBlacklist(r, op, t, u)
    BY <1>1, <2>1 DEF SetupChecks, SetupInserts, LoginReads, LoginFails, PassUser, FailUser,
       ChangePassword, ChangeAnswered, ChangeRefused, PassBlacklist, Tokens
  <2> QED
    BY <1>2, <1>3, <1>7, <2>1 DEF RequestStep
<1>8. CASE UNCHANGED adminVars
  BY <1>1, <1>8 DEF adminVars, Tokens
<1> QED
  BY <1>4, <1>5, <1>6, <1>7, <1>8 DEF AdminNext

\* A step of r that leaves it with x, and keeps the late requests or answers r.
LEMMA ReadBy ==
  ASSUME AdminTyped, ReadInv, NEW r \in AdminRequests, NEW x, AdminDoes(r, x),
         UNCHANGED overwritten,
         x.version # NoUser => x.step \in {"verify", "go"},
         late' = late \ {r} \/ (late' = late /\ (r \in late => x.step \in {"verify", "go"}))
  PROVE  ReadInv'
<1>1. doing'[r] = x /\ \A q \in AdminRequests : q # r => doing'[q] = doing[q]
  BY DEF AdminDoes, AdminTyped
<1> QED
  BY <1>1 DEF ReadInv

LEMMA ReadStep ==
  ASSUME LogoutInv, ReadInv, [AdminNext]_adminVars
  PROVE  ReadInv'
<1> USE DEF LogoutInv
<1>a. NoAdminRequest.version = NoUser /\ NoAdminRequest.step = "none"
  BY DEF NoAdminRequest
<1>1. ASSUME NEW r \in AdminRequests, UNCHANGED overwritten, AdminAnswer(r) PROVE ReadInv'
  BY <1>1, <1>a, ReadBy DEF AdminAnswer
<1>2. ASSUME NEW r \in AdminRequests, NEW op, NEW t, NEW u,
             SetupChecks(r) \/ LoginReads(r) \/ PassBlacklist(r, op, t, u)
      PROVE  ReadInv'
  <2>1. r \notin late /\ UNCHANGED <<overwritten, late>>
    BY <1>2, <1>a DEF SetupChecks, LoginReads, PassBlacklist, Free, ReadInv
  <2>2. CASE SetupChecks(r)
    <3> DEFINE x == [NoAdminRequest EXCEPT !.op = "setup", !.step = "insert"]
    <3>1. AdminDoes(r, x) /\ x.version = NoUser
      BY <2>2 DEF SetupChecks, NoAdminRequest
    <3> HIDE DEF x
    <3> QED
      BY <2>1, <3>1, ReadBy
  <2>3. CASE LoginReads(r)
    <3> DEFINE x == [NoAdminRequest EXCEPT !.op = "login", !.step = "verify", !.version = user]
    <3>1. AdminDoes(r, x) /\ x.step = "verify"
      BY <2>3 DEF LoginReads, NoAdminRequest
    <3> HIDE DEF x
    <3> QED
      BY <2>1, <3>1, ReadBy
  <2>4. CASE PassBlacklist(r, op, t, u)
    <3> DEFINE x == [op |-> op, step |-> "user", token |-> t, other |-> u, version |-> NoUser]
    <3>1. AdminDoes(r, x) /\ x.version = NoUser
      BY <2>4 DEF PassBlacklist
    <3> HIDE DEF x
    <3> QED
      BY <2>1, <3>1, ReadBy
  <2> QED
    BY <1>2, <2>2, <2>3, <2>4
<1>3. ASSUME NEW r \in AdminRequests, PassUser(r) PROVE ReadInv'
  <2> DEFINE x == [doing[r] EXCEPT !.step = "go", !.version = user]
  <2>1. AdminDoes(r, x) /\ UNCHANGED <<overwritten, late>>
    BY <1>3 DEF PassUser
  <2>2. x.step = "go"
    BY DEF AdminTyped, Request
  <2> HIDE DEF x
  <2> QED
    BY <2>1, <2>2, ReadBy
<1>4. ASSUME NEW r \in AdminRequests, ChangePassword(r) PROVE ReadInv'
  <2>1. /\ AdminDoes(r, NoAdminRequest) /\ overwritten' \in BOOLEAN
        /\ late' = {q \in AdminRequests \ {r} : doing[q].version # NoUser}
    BY <1>4 DEF ChangePassword, ChangeAnswered, ReadInv
  <2>2. doing'[r] = NoAdminRequest /\ \A q \in AdminRequests : q # r => doing'[q] = doing[q]
    BY <2>1 DEF AdminDoes, AdminTyped
  <2> QED
    BY <1>a, <2>1, <2>2 DEF ReadInv
<1>5. ASSUME NEW r \in AdminRequests, RequestStep(r) PROVE ReadInv'
  <2>1. CASE \/ SetupInserts(r) \/ LoginSucceeds(r) \/ LoginFails(r) \/ FailUser(r) \/ Refresh(r)
             \/ ChangeRefused(r) \/ \E p \in WorkerProcesses : Logout(r, p) \/ LogoutFails(r, p)
    BY <1>1, <2>1 DEF SetupInserts, LoginSucceeds, LoginFails, FailUser, Refresh, IssueTokens,
       ChangeRefused, Logout, LogoutFails
  <2> QED
    BY <1>2, <1>3, <1>4, <1>5, <2>1 DEF RequestStep
<1>6. CASE Restart
  BY <1>6, <1>a DEF Restart, ReadInv
<1>7. CASE CleanUp \/ UNCHANGED adminVars \/ \E t \in Tokens : ExpireToken(t)
  BY <1>7 DEF CleanUp, ExpireToken, adminVars, ReadInv
<1> QED
  BY <1>5, <1>6, <1>7 DEF AdminNext

\* The user, the tokens, the blacklists and the requests have their types: what is
\* listed was issued, and what a process answered for is still out.
THEOREM AdminTypeCorrect == AdminSpec => []AdminTypeOK
<1> DEFINE Inv == LogoutInv /\ VersionsInv /\ ListedInv /\ ReadInv
<1>1. AdminInit => Inv
  BY AdminInitOK, BoundsInit
<1>2. Inv /\ [AdminNext]_adminVars => Inv'
  BY AdminStepOK, VersionsStep, ListedStep, ReadStep
<1>3. Inv => AdminTypeOK
  <2> SUFFICES ASSUME Inv PROVE AdminTypeOK
    OBVIOUS
  <2> USE AdminConstantsOK DEF LogoutInv, AdminTyped
  <2>1. user \in 0 .. MaxPasswords /\ Len(issued) <= MaxTokens
    BY DEF VersionsInv
  <2> DEFINE S == [kind : {"access", "refresh"}, version : 1..MaxPasswords, live : BOOLEAN]
  <2>2. issued \in Seq(S)
    <3>1. issued \in [1 .. Len(issued) -> Token] /\ Len(issued) \in Nat /\ Tokens = 1 .. Len(issued)
      BY DEF Tokens
    <3>2. \A t \in 1 .. Len(issued) : issued[t] \in S
      BY <3>1 DEF VersionsInv, Token
    <3>3. issued \in [1 .. Len(issued) -> S]
      BY <3>1, <3>2
    <3> HIDE DEF S
    <3> QED
      BY <3>1, <3>3
  <2>3. memory \in [WorkerProcesses -> SUBSET Tokens] /\ outHere \in [WorkerProcesses -> SUBSET out]
    BY DEF ListedInv
  <2>4. doing \in [AdminRequests ->
            [op : {"none", "setup", "login", "refresh", "logout", "change"},
             step : {"none", "insert", "verify", "user", "go"},
             token : {0} \union Tokens, other : {0} \union Tokens, version : 0..MaxPasswords]]
    <3>1. ASSUME NEW r \in AdminRequests
          PROVE  doing[r] \in [op : {"none", "setup", "login", "refresh", "logout", "change"},
                    step : {"none", "insert", "verify", "user", "go"},
                    token : {0} \union Tokens, other : {0} \union Tokens, version : 0..MaxPasswords]
      <4>1. doing[r] \in Request /\ {doing[r].token, doing[r].other} \subseteq Tokens \union {0}
            /\ doing[r].version \in 0 .. MaxPasswords
        BY DEF VersionsInv, Request
      <4> QED
        BY <4>1 DEF Request
    <3> QED
      BY <3>1
  <2> QED
    BY <2>1, <2>2, <2>3, <2>4 DEF AdminTypeOK, ListedInv, ReadInv
<1> QED
  BY <1>1, <1>2, <1>3, PTL DEF AdminSpec

-----------------------------------------------------------------------------
(* A change of password: as long as none has written over another it had   *)
(* not read, the version it writes is above that of every token there is,  *)
(* and of every token a request that has read the user can still be given. *)

ChangeInv ==
    ~overwritten =>
        /\ \A t \in Tokens : issued[t].version <= user
        /\ \A t \in cut : issued[t].version < user
        /\ \A r \in AdminRequests : doing[r].version <= user
        /\ \A r \in late : doing[r].version < user

LEMMA VersionsOK ==
  ASSUME AdminTyped
  PROVE  \A t \in Tokens : issued[t].version \in Nat
<1>1. issued \in [1 .. Len(issued) -> Token] /\ Tokens = 1 .. Len(issued)
  BY DEF AdminTyped, Tokens
<1> QED
  BY <1>1 DEF Token

\* A request that takes up x, and neither tokens nor the user change.
LEMMA ChangeDoesOK ==
  ASSUME AdminTyped, ReadInv, ChangeInv, NEW r \in AdminRequests, NEW x, AdminDoes(r, x),
         UNCHANGED <<user, issued, cut, overwritten>>, ~overwritten => x.version <= user,
         late' = late \ {r} \/ (late' = late /\ r \notin late)
  PROVE  ChangeInv'
<1>1. doing'[r] = x /\ \A q \in AdminRequests : q # r => doing'[q] = doing[q]
  BY DEF AdminDoes, AdminTyped
<1>2. Tokens' = Tokens /\ late' \subseteq late \ {r}
  BY DEF Tokens
<1> QED
  BY <1>1, <1>2 DEF ChangeInv, ReadInv

\* Tokens are issued with a version that is not above the user's, and below it
\* when the request is late.
LEMMA ChangeIssues ==
  ASSUME LogoutInv, ReadInv, ChangeInv, NEW r \in AdminRequests, IssueTokens(r)
  PROVE  ChangeInv'
<1> SUFFICES ASSUME ~overwritten'
             PROVE  ChangeInv'
  BY DEF ChangeInv
<1>0. AdminTyped /\ ~overwritten /\ user \in Nat /\ doing[r].version \in Nat
  BY DEF LogoutInv, AdminTyped, Request, IssueTokens
<1>1. /\ CreateTokens(doing[r].version) /\ user' = user
      /\ cut' = IF r \in late THEN cut \union (Tokens' \ Tokens) ELSE cut
      /\ late' = late \ {r} /\ AdminDoes(r, NoAdminRequest)
  BY DEF IssueTokens, AdminAnswer
<1>2. /\ Tokens \subseteq Tokens'
      /\ \A t \in Tokens : issued'[t] = issued[t]
      /\ \A t \in Tokens' \ Tokens : issued'[t].version = doing[r].version
  BY <1>0, <1>1, CreateTokensOK DEF AdminTyped
<1>3. doing'[r] = NoAdminRequest /\ \A q \in AdminRequests : q # r => doing'[q] = doing[q]
  BY <1>0, <1>1 DEF AdminDoes, AdminTyped
<1>4. \A t \in Tokens' : issued'[t].version <= user'
  BY <1>0, <1>1, <1>2 DEF ChangeInv
<1>5. \A t \in cut' : issued'[t].version < user'
  BY <1>0, <1>1, <1>2 DEF ChangeInv, AdminTyped
<1>6. NoAdminRequest.version = 0
  BY DEF NoAdminRequest, NoUser
<1>7. /\ \A q \in AdminRequests : doing'[q].version <= user'
      /\ \A q \in late' : doing'[q].version < user'
  BY <1>0, <1>1, <1>3, <1>6 DEF ChangeInv, ReadInv
<1> QED
  BY <1>4, <1>5, <1>7 DEF ChangeInv

LEMMA ChangeRequestOK ==
  ASSUME LogoutInv, ReadInv, ChangeInv, NEW r \in AdminRequests, RequestStep(r)
  PROVE  ChangeInv'
<1>0. doing[r] \in Request /\ user \in Nat /\ AdminTyped
  BY DEF LogoutInv, AdminTyped
<1>a. NoAdminRequest.version = 0 /\ NoAdminRequest.step = "none" /\ NoUser = 0
  BY DEF NoAdminRequest, NoUser
<1>1. CASE SetupChecks(r) \/ LoginReads(r)
  <2> DEFINE x == IF SetupChecks(r)
                  THEN [NoAdminRequest EXCEPT !.op = "setup", !.step = "insert"]
                  ELSE [NoAdminRequest EXCEPT !.op = "login", !.step = "verify", !.version = user]
  <2>1. AdminDoes(r, x) /\ UNCHANGED <<user, issued, cut, overwritten, late>> /\ Free(r)
    BY <1>1 DEF SetupChecks, LoginReads
  <2>2. x.version \in {0, user}
    BY DEF NoAdminRequest, NoUser
  <2>3. r \notin late
    BY <1>a, <2>1 DEF Free, ReadInv
  <2> HIDE DEF x
  <2> QED
    BY <1>0, <2>1, <2>2, <2>3, ChangeDoesOK
<1>2. CASE LoginSucceeds(r) \/ Refresh(r)
  BY <1>2, ChangeIssues DEF LoginSucceeds, Refresh
<1>3. ASSUME NEW op \in {"refresh", "logout", "change"}, NEW t \in Tokens,
             NEW u \in Tokens \union {0}, PassBlacklist(r, op, t, u)
      PROVE  ChangeInv'
  <2> DEFINE x == [op |-> op, step |-> "user", token |-> t, other |-> u, version |-> NoUser]
  <2>1. AdminDoes(r, x) /\ UNCHANGED <<user, issued, cut, overwritten, late>> /\ Free(r)
    BY <1>3 DEF PassBlacklist
  <2>2. x.version = 0
    BY DEF NoUser
  <2>3. r \notin late
    BY <1>a, <2>1 DEF Free, ReadInv
  <2> HIDE DEF x
  <2> QED
    BY <1>0, <2>1, <2>2, <2>3, ChangeDoesOK
<1>4. CASE PassUser(r)
  <2> DEFINE x == [doing[r] EXCEPT !.step = "go", !.version = user]
  <2>1. AdminDoes(r, x) /\ UNCHANGED <<user, issued, cut, overwritten, late>>
    BY <1>4 DEF PassUser
  <2>2. x.version = user
    BY <1>0 DEF Request
  <2>3. r \notin late
    BY <1>4 DEF PassUser, ReadInv
  <2> HIDE DEF x
  <2> QED
    BY <1>0, <2>1, <2>2, <2>3, ChangeDoesOK
<1>5. ASSUME AdminAnswer(r), UNCHANGED <<user, issued, cut, overwritten>>
      PROVE  ChangeInv'
  BY <1>0, <1>a, <1>5, ChangeDoesOK DEF AdminAnswer
<1>6. CASE \/ \E p \in WorkerProcesses : Logout(r, p) \/ LogoutFails(r, p)
           \/ LoginFails(r) \/ FailUser(r) \/ ChangeRefused(r)
  BY <1>5, <1>6 DEF Logout, LogoutFails, LoginFails, FailUser, ChangeRefused
<1>7. CASE SetupInserts(r)
  <2>1. CASE user # NoUser
    BY <1>5, <1>7, <2>1 DEF SetupInserts
  <2>2. CASE user = NoUser
    <3>1. /\ user' = 1 /\ UNCHANGED <<issued, cut, overwritten>> /\ late' = late \ {r}
          /\ AdminDoes(r, NoAdminRequest) /\ Tokens' = Tokens
      BY <1>7, <2>2 DEF SetupInserts, AdminAnswer, Tokens
    <3>2. doing'[r] = NoAdminRequest /\ \A q \in AdminRequests : q # r => doing'[q] = doing[q]
      BY <1>0, <3>1 DEF AdminDoes, AdminTyped
    <3>3. \A q \in AdminRequests : doing[q].version \in Nat
      BY <1>0 DEF AdminTyped, Request
    <3>4. \A t \in Tokens : issued[t].version \in Nat
      BY <1>0, VersionsOK
    <3> QED
      BY <1>0, <1>a, <2>2, <3>1, <3>2, <3>3, <3>4 DEF ChangeInv, ReadInv, AdminTyped
  <2> QED
    BY <2>1, <2>2
<1>8. CASE ChangePassword(r)
  <2> SUFFICES ASSUME ~overwritten'
               PROVE  ChangeInv'
    BY DEF ChangeInv
  <2>1. /\ user' = user + 1 /\ UNCHANGED issued /\ cut' \subseteq Tokens /\ ~overwritten
        /\ late' \subseteq AdminRequests \ {r} /\ AdminDoes(r, NoAdminRequest)
    BY <1>8 DEF ChangePassword, ChangeAnswered
  <2>2. doing'[r] = NoAdminRequest /\ \A q \in AdminRequests : q # r => doing'[q] = doing[q]
    BY <1>0, <2>1 DEF AdminDoes, AdminTyped
  <2>3. \A q \in AdminRequests : doing[q].version \in Nat
    BY <1>0 DEF AdminTyped, Request
  <2>4. \A t \in Tokens : issued[t].version \in Nat
    BY <1>0, VersionsOK
  <2>5. Tokens' = Tokens
    BY <2>1 DEF Tokens
  <2> QED
    BY <1>0, <1>a, <2>1, <2>2, <2>3, <2>4, <2>5 DEF ChangeInv
<1> QED
  BY <1>1, <1>2, <1>3, <1>4, <1>6, <1>7, <1>8 DEF RequestStep

LEMMA ChangeStepOK ==
  ASSUME LogoutInv, ReadInv, ChangeInv, [AdminNext]_adminVars
  PROVE  ChangeInv'
<1>1. ASSUME NEW t \in Tokens, ExpireToken(t)
      PROVE  ChangeInv'
  <2>1. /\ issued' = [issued EXCEPT ![t].live = FALSE]
        /\ cut' \subseteq cut /\ UNCHANGED <<user, doing, late, overwritten>>
    BY <1>1 DEF ExpireToken
  <2>2. Tokens' = Tokens
    BY <2>1 DEF Tokens
  <2>3. \A s \in Tokens : issued'[s].version = issued[s].version
    <3>1. \A s \in Tokens : issued[s] \in Token
      BY DEF LogoutInv, AdminTyped, Tokens
    <3> QED
      BY <2>1, <3>1 DEF Token, Tokens
  <2> QED
    BY <2>1, <2>2, <2>3 DEF ChangeInv, LogoutInv, AdminTyped
<1>2. CASE CleanUp \/ UNCHANGED adminVars
  BY <1>2 DEF CleanUp, adminVars, ChangeInv, Tokens
<1>3. CASE Restart
  <2>1. /\ UNCHANGED <<user, issued, cut, overwritten>> /\ user \in Nat /\ late' = {}
        /\ \A r \in AdminRequests : doing'[r].version = 0
    BY <1>3 DEF Restart, NoAdminRequest, NoUser, LogoutInv, AdminTyped
  <2> QED
    BY <2>1 DEF ChangeInv, Tokens
<1> QED
  BY <1>1, <1>2, <1>3, ChangeRequestOK DEF AdminNext

\* Until a change of password writes over one it had not read: no token of before
\* the last change carries the user's version again, those that overlapping logins
\* and refreshes issue later included.
THEOREM ChangeCorrect == AdminSpec => []ChangeCutsOff
<1> DEFINE Inv == LogoutInv /\ ReadInv /\ ChangeInv
<1>1. AdminInit => Inv
  BY AdminInitOK, BoundsInit DEF AdminInit, ChangeInv, Tokens, NoAdminRequest, NoUser
<1>2. Inv => ChangeCutsOff
  <2> SUFFICES ASSUME Inv, ~overwritten, NEW t \in cut
               PROVE  ~CurrentVersion(t)
    BY DEF ChangeCutsOff
  <2>1. issued[t].version \in Nat /\ issued[t].version < user /\ user \in Nat
    BY VersionsOK DEF LogoutInv, AdminTyped, ChangeInv
  <2> QED
    BY <2>1 DEF CurrentVersion
<1>3. Inv /\ [AdminNext]_adminVars => Inv'
  BY AdminStepOK, ReadStep, ChangeStepOK
<1> QED
  BY <1>1, <1>2, <1>3, PTL DEF AdminSpec

-----------------------------------------------------------------------------
(* The tunnel and its configurations: Tunnel.                              *)

\* The steps at which a request holds the lock of the service.
Critical == {"spawn", "wait", "clean", "terminate"}

Rows == Configurations \union {NotAsked.k}

Asked == [op : {"none", "start", "stop", "activate", "delete", "wizard"},
          step : Critical \union {"none", "lock", "flush", "blocked", "commit"},
          k : Rows, seen : SUBSET Rows]

TunnelTyped ==
    /\ tunnel \in [status : {"disconnected", "connecting", "connected", "error"}, process : Nat]
    /\ started \in Nat
    /\ live \subseteq Nat \ {NoChild}
    /\ asked \in [TunnelRequests -> Asked]

\* The lock is with the one request that is past taking it.
ServiceLockInv == \A r \in TunnelRequests : asked[r].step \in Critical <=> holder = r

\* What each holder of the lock, and whoever takes it next, finds.
ChildInv ==
    /\ NoOrphan
    /\ holder = NoRequester /\ tunnel.status # "connected" => tunnel.process = NoChild
    /\ \A r \in TunnelRequests :
        /\ asked[r].step = "spawn" => tunnel.status = "connecting" /\ tunnel.process = NoChild
        /\ asked[r].step = "wait" => tunnel.status = "connecting" /\ tunnel.process # NoChild
        /\ asked[r].step = "clean" => tunnel.status = "error"

ServiceInv == TunnelTyped /\ ServiceLockInv /\ ChildInv

\* The record of a request that is over.
LEMMA NotAskedOK == NotAsked \in Asked /\ NotAsked.step = "none"
  BY DEF NotAsked, Asked, Critical, Rows

\* There is no child at the beginning, and nobody holds the lock.
LEMMA ServiceInitOK == TunnelInit => ServiceInv
<1> SUFFICES ASSUME TunnelInit PROVE ServiceInv
  OBVIOUS
<1>1. \A r \in TunnelRequests : asked[r] = NotAsked /\ holder # r
  BY TunnelConstantsOK DEF TunnelInit
<1>2. TunnelTyped
  BY NotAskedOK DEF TunnelInit, TunnelTyped, NoChild
<1> QED
  BY <1>1, <1>2, NotAskedOK DEF TunnelInit, ServiceInv, ServiceLockInv, ChildInv, NoOrphan, Critical, NoChild

\* Steps that leave the service alone and take nobody in or out of its lock.
LEMMA ServiceLeftAlone ==
  ASSUME ServiceInv, UNCHANGED serviceVars, asked' \in [TunnelRequests -> Asked],
         \A r \in TunnelRequests : \/ asked'[r].step = asked[r].step
                                   \/ {asked[r].step, asked'[r].step} \intersect Critical = {}
  PROVE  ServiceInv'
<1>1. TunnelTyped' /\ ServiceLockInv'
  BY DEF serviceVars, ServiceInv, TunnelTyped, ServiceLockInv
<1>2. ChildInv'
  BY DEF serviceVars, ServiceInv, ChildInv, NoOrphan, Critical
<1> QED
  BY <1>1, <1>2 DEF ServiceInv

\* A statement waits for the rows, or has them.
LEMMA SendOK ==
  ASSUME ServiceInv, NEW r \in TunnelRequests, NEW S \in SUBSET Rows,
         asked[r].step = "flush", Send(r, S), UNCHANGED serviceVars
  PROVE  ServiceInv'
<1>1. PICK step \in {"commit", "blocked"} :
        asked' = [asked EXCEPT ![r].step = step, ![r].seen = S]
  BY DEF Send
<1> DEFINE x == [asked[r] EXCEPT !.step = step, !.seen = S]
<1>2. x \in Asked /\ x.step = step
  BY DEF ServiceInv, TunnelTyped, Asked
<1>3. asked' = [asked EXCEPT ![r] = x]
  BY <1>1
<1> HIDE DEF x
<1>4. /\ asked' \in [TunnelRequests -> Asked]
      /\ asked'[r].step \in {"commit", "blocked"}
      /\ \A q \in TunnelRequests : q # r => asked'[q] = asked[q]
  BY <1>2, <1>3 DEF ServiceInv, TunnelTyped
<1> QED
  BY <1>4, ServiceLeftAlone DEF Critical

\* The end of a transaction, and of the wait of another.
LEMMA EndsRequestOK ==
  ASSUME ServiceInv, NEW r \in TunnelRequests, asked[r].step = "commit", EndsRequest(r),
         UNCHANGED serviceVars
  PROVE  ServiceInv'
<1>1. \/ asked' = [asked EXCEPT ![r] = NotAsked]
      \/ \E q \in TunnelRequests : /\ asked[q].step = "blocked"
                                   /\ asked' = [asked EXCEPT ![r] = NotAsked, ![q].step = "commit"]
  BY DEF EndsRequest, Replied
<1>2. CASE asked' = [asked EXCEPT ![r] = NotAsked]
  BY <1>2, NotAskedOK, ServiceLeftAlone DEF ServiceInv, TunnelTyped, Critical
<1>3. ASSUME NEW q \in TunnelRequests, asked[q].step = "blocked",
             asked' = [asked EXCEPT ![r] = NotAsked, ![q].step = "commit"]
      PROVE  ServiceInv'
  <2>1. q # r
    BY <1>3
  <2>2. /\ asked' \in [TunnelRequests -> Asked]
        /\ asked'[r] = NotAsked /\ asked'[q].step = "commit"
        /\ \A p \in TunnelRequests \ {q, r} : asked'[p] = asked[p]
    BY <1>3, <2>1, NotAskedOK DEF ServiceInv, TunnelTyped, Asked
  <2> QED
    BY <1>3, <2>2, NotAskedOK, ServiceLeftAlone DEF Critical
<1> QED
  BY <1>1, <1>2, <1>3

\* A request that begins.
LEMMA AskOK ==
  ASSUME ServiceInv, NEW r \in TunnelRequests, NEW op, NEW step, NEW k, NEW seen,
         op \in {"start", "stop", "activate", "delete", "wizard"}, step \in {"lock", "flush"},
         k \in Rows, seen \subseteq Rows,
         Ask(r, op, step, k, seen), UNCHANGED serviceVars
  PROVE  ServiceInv'
<1> DEFINE x == [op |-> op, step |-> step, k |-> k, seen |-> seen]
<1>1. x \in Asked /\ x.step \in {"lock", "flush"}
  BY DEF Asked
<1>2. asked[r] = NotAsked /\ asked' = [asked EXCEPT ![r] = x]
  BY DEF Ask
<1> HIDE DEF x
<1> QED
  BY <1>1, <1>2, NotAskedOK, ServiceLeftAlone DEF ServiceInv, TunnelTyped, Critical

\* A step of r, which has the lock of the service or takes it, gives its record
\* the step x: the lock is still its own, or it is free.
LEMMA LockOK ==
  ASSUME ServiceInv, NEW r \in TunnelRequests, holder \in {r, NoRequester}, NEW x \in Asked,
         asked' = [asked EXCEPT ![r] = x],
         \/ x.step \in Critical /\ holder' = r
         \/ x.step \notin Critical /\ holder' = NoRequester
  PROVE  /\ ServiceLockInv' /\ asked' \in [TunnelRequests -> Asked] /\ asked'[r] = x
         /\ \A q \in TunnelRequests : q # r => asked'[q].step \notin Critical
<1>1. asked' \in [TunnelRequests -> Asked] /\ asked'[r] = x
      /\ \A q \in TunnelRequests : q # r => asked'[q] = asked[q]
  BY DEF ServiceInv, TunnelTyped
<1>2. \A q \in TunnelRequests : q # r => asked[q].step \notin Critical
  BY TunnelConstantsOK DEF ServiceInv, ServiceLockInv
<1> QED
  BY <1>1, <1>2, TunnelConstantsOK DEF ServiceLockInv

\* Steps of a request under the lock, or about to have it.
LEMMA ServiceOK ==
  ASSUME ServiceInv, NEW r \in TunnelRequests, ServiceStep(r)
  PROVE  ServiceInv'
<1> USE DEF ServiceInv
<1>1. CASE ReadActive(r) \/ AskStop(r)
  <2>1. ASSUME NEW k \in InUse, Ask(r, "start", "lock", k, {}), UNCHANGED serviceVars PROVE ServiceInv'
    BY <2>1, AskOK DEF InUse, Rows
  <2>2. ASSUME Ask(r, "stop", "lock", NotAsked.k, {}), UNCHANGED serviceVars PROVE ServiceInv'
    BY <2>2, AskOK DEF Rows
  <2> QED
    BY <1>1, <2>1, <2>2 DEF ReadActive, AskStop
<1>2. CASE RefuseStart(r)
  <2>1. asked' = [asked EXCEPT ![r] = NotAsked] /\ asked[r].step = "lock" /\ UNCHANGED serviceVars
    BY <1>2 DEF RefuseStart, Asks, Replied
  <2> QED
    BY <2>1, NotAskedOK, ServiceLeftAlone DEF TunnelTyped, Critical
<1> DEFINE Step(s) == [asked[r] EXCEPT !.step = s]
<1>s. /\ \A s \in Critical : Step(s) \in Asked /\ Step(s).step = s
      /\ \A s \in Critical : StepTo(r, s) => asked' = [asked EXCEPT ![r] = Step(s)]
  BY DEF TunnelTyped, Asked, StepTo
<1>h. asked[r].step \in Critical => holder = r
  BY DEF ServiceLockInv
<1> HIDE DEF Step
<1>3. CASE LockStart(r)
  <2>1. tunnel.process = NoChild
    BY <1>3 DEF LockStart, RefusesStart, ChildInv, NoOrphan
  <2>2. /\ ServiceLockInv' /\ asked' \in [TunnelRequests -> Asked] /\ asked'[r] = Step("spawn")
        /\ \A q \in TunnelRequests : q # r => asked'[q].step \notin Critical
    BY <1>3, <1>s, LockOK DEF LockStart, Critical
  <2>3. TunnelTyped' /\ tunnel'.status = "connecting" /\ tunnel'.process = NoChild /\ live' = live
    BY <1>3, <2>1, <2>2 DEF LockStart, TunnelTyped
  <2>4. ChildInv'
    BY <1>3, <1>s, <2>1, <2>2, <2>3, TunnelConstantsOK DEF LockStart, ChildInv, NoOrphan, Critical
  <2> QED
    BY <2>2, <2>3, <2>4
<1>4. CASE Spawn(r)
  <2>0. holder = r /\ tunnel.process = NoChild /\ tunnel.status = "connecting" /\ live = {}
    BY <1>4, <1>h DEF Spawn, Asks, ChildInv, NoOrphan, Critical, TunnelTyped
  <2>2. /\ ServiceLockInv' /\ asked' \in [TunnelRequests -> Asked] /\ asked'[r] = Step("wait")
        /\ \A q \in TunnelRequests : q # r => asked'[q].step \notin Critical
    BY <1>4, <1>s, <2>0, LockOK DEF Spawn, Critical
  <2>3. TunnelTyped' /\ tunnel'.status = "connecting" /\ tunnel'.process = started' /\ started' # NoChild
    BY <1>4, <2>0, <2>2 DEF Spawn, TunnelTyped, NoChild
  <2>4. ChildInv'
    BY <1>4, <1>s, <2>0, <2>2, <2>3, TunnelConstantsOK DEF Spawn, ChildInv, NoOrphan, Critical
  <2> QED
    BY <2>2, <2>3, <2>4
<1>5. CASE GivesUp(r)
  <2>0. holder = r
    BY <1>5, <1>h DEF GivesUp, Asks, Critical
  <2>2. /\ ServiceLockInv' /\ asked' \in [TunnelRequests -> Asked] /\ asked'[r] = Step("clean")
        /\ \A q \in TunnelRequests : q # r => asked'[q].step \notin Critical
    BY <1>5, <1>s, <2>0, LockOK DEF GivesUp, Critical
  <2>3. /\ TunnelTyped' /\ tunnel'.status = "error" /\ tunnel'.process = tunnel.process /\ live' = live
        /\ holder' = r
    BY <1>5, <2>0, <2>2 DEF GivesUp, TunnelTyped
  <2>4. ChildInv'
    BY <1>s, <2>2, <2>3, TunnelConstantsOK DEF ChildInv, NoOrphan, Critical
  <2> QED
    BY <2>2, <2>3, <2>4
<1>6. CASE LockStop(r)
  <2>2. /\ ServiceLockInv' /\ asked' \in [TunnelRequests -> Asked] /\ asked'[r] = Step("terminate")
        /\ \A q \in TunnelRequests : q # r => asked'[q].step \notin Critical
    BY <1>6, <1>s, LockOK DEF LockStop, Critical
  <2>3. TunnelTyped' /\ tunnel' = tunnel /\ live' = live /\ holder' = r
    BY <1>6, <2>2 DEF LockStop, TunnelTyped
  <2>4. ChildInv'
    BY <1>s, <2>2, <2>3, TunnelConstantsOK DEF ChildInv, NoOrphan, Critical
  <2> QED
    BY <2>2, <2>3, <2>4
<1>7. CASE SpawnFails(r) \/ ReadsConnected(r) \/ CleansUp(r) \/ Stopped(r)
  <2>0. holder = r /\ holder' = NoRequester /\ asked' = [asked EXCEPT ![r] = NotAsked]
    BY <1>7, <1>h DEF SpawnFails, ReadsConnected, CleansUp, Stopped, Asks, Critical, Replied
  <2>2. /\ ServiceLockInv' /\ asked' \in [TunnelRequests -> Asked] /\ asked'[r] = NotAsked
        /\ \A q \in TunnelRequests : q # r => asked'[q].step \notin Critical
    BY <2>0, NotAskedOK, LockOK DEF Critical
  <2>3. /\ TunnelTyped' /\ live' \subseteq {tunnel'.process}
        /\ \/ tunnel'.process = NoChild /\ tunnel'.status # "connected"
           \/ tunnel'.process # NoChild /\ tunnel'.status = "connected"
    <3>1. CASE SpawnFails(r)
      BY <3>1, <2>2 DEF SpawnFails, Asks, ChildInv, NoOrphan, TunnelTyped, NoChild
    <3>2. CASE ReadsConnected(r)
      BY <3>2, <2>2 DEF ReadsConnected, Asks, ChildInv, NoOrphan, TunnelTyped
    <3>3. CASE CleansUp(r)
      BY <3>3, <2>2 DEF CleansUp, Asks, ChildInv, NoOrphan, TunnelTyped, NoChild
    <3>4. CASE Stopped(r)
      BY <3>4, <2>2 DEF Stopped, Asks, ChildInv, NoOrphan, TunnelTyped, NoChild
    <3> QED
      BY <1>7, <3>1, <3>2, <3>3, <3>4
  <2>4. ChildInv'
    BY <2>2, <2>3, NotAskedOK DEF ChildInv, NoOrphan, Critical
  <2> QED
    BY <2>2, <2>3, <2>4
<1> QED
  BY <1>1, <1>2, <1>3, <1>4, <1>5, <1>6, <1>7 DEF ServiceStep

\* Configurations are written without the lock of the service.
LEMMA ConfigurationOK ==
  ASSUME ServiceInv, NEW r \in TunnelRequests, ConfigurationStep(r)
  PROVE  ServiceInv'
<1>1. ASSUME NEW k \in Configurations, AskActivate(r, k) \/ AskDelete(r, k) \/ WizardLoads(r, k)
      PROVE  ServiceInv'
  <2>1. /\ UNCHANGED serviceVars
        /\ \E op \in {"activate", "delete", "wizard"}, seen \in SUBSET Rows :
              Ask(r, op, "flush", k, seen)
    BY <1>1 DEF AskActivate, AskDelete, WizardLoads, rowVars, InUse, Rows
  <2> QED
    BY <2>1, AskOK DEF Rows
<1>2. CASE SendActivate(r) \/ SendDelete(r) \/ WizardSends(r)
  <2>1. /\ UNCHANGED serviceVars /\ asked[r].step = "flush"
        /\ \E S \in {Existing, {asked[r].k}, asked[r].seen} : Send(r, S)
    BY <1>2 DEF SendActivate, SendDelete, WizardSends, Asks, Cleared
  <2>2. Existing \subseteq Rows /\ asked[r].k \in Rows /\ asked[r].seen \subseteq Rows
    BY DEF ServiceInv, TunnelTyped, Asked, Existing, Rows
  <2> QED
    BY <2>1, <2>2, SendOK
<1>3. CASE CommitActivate(r) \/ CommitDelete(r) \/ WizardCommits(r) \/ RollsBack(r)
  BY <1>3, EndsRequestOK DEF CommitActivate, CommitDelete, WizardCommits, RollsBack, Asks
<1> QED
  BY <1>1, <1>2, <1>3 DEF ConfigurationStep

\* Every step keeps the invariant.
LEMMA ServiceStepOK ==
  ASSUME ServiceInv, [TunnelNext]_tunnelVars
  PROVE  ServiceInv'
<1> USE DEF ServiceInv
<1>1. CASE HealthCheck
  <2>1. TunnelTyped' /\ ServiceLockInv' /\ tunnel'.process = NoChild /\ tunnel'.status = "disconnected"
        /\ live' = {}
    BY <1>1 DEF HealthCheck, TunnelTyped, ServiceLockInv, ChildInv, NoOrphan, NoChild
  <2>2. ChildInv'
    BY <1>1, <2>1 DEF HealthCheck, ChildInv, NoOrphan
  <2> QED
    BY <2>1, <2>2
<1>2. ASSUME NEW p \in live, ChildDies(p) PROVE ServiceInv'
  BY <1>2 DEF ChildDies, TunnelTyped, ServiceLockInv, ChildInv, NoOrphan
<1>3. ASSUME NEW k \in Configurations, CreateConfiguration(k) PROVE ServiceInv'
  BY <1>3, ServiceLeftAlone DEF CreateConfiguration, TunnelTyped
<1>4. CASE UNCHANGED tunnelVars
  BY <1>4, ServiceLeftAlone DEF tunnelVars, serviceVars, TunnelTyped
<1> QED
  BY <1>1, <1>2, <1>3, <1>4, ServiceOK, ConfigurationOK DEF TunnelNext

\* However starts, stops, health checks and the death of the child overlap, a
\* child that runs is the one the service knows.
THEOREM NoOrphanCorrect == TunnelSpec => []NoOrphan
<1>1. ServiceInv => NoOrphan
  BY DEF ServiceInv, ChildInv
<1>2. ServiceInv /\ [TunnelNext]_tunnelVars => ServiceInv'
  BY ServiceStepOK
<1> QED
  BY <1>1, <1>2, ServiceInitOK, PTL DEF TunnelSpec

-----------------------------------------------------------------------------
(* Which configurations are active.                                        *)

RowOps == {"activate", "delete", "wizard"}
RowSteps == {"flush", "blocked", "commit"}

\* The statement of r on its rows has been sent.
Sent(r) == asked[r].step \in {"blocked", "commit"}
Activating(r) == asked[r].op = "activate"

\* A transaction that has what it asked for holds every one of its rows.
HoldInv ==
    /\ config \in [Configurations -> {"none", "off", "on", "gone"}]
    /\ configLock \in [Configurations -> TunnelRequests \union {NoRequester}]
    /\ \A r \in TunnelRequests :
        /\ asked[r].step \in RowSteps => asked[r].op \in RowOps
        /\ asked[r].op \in RowOps =>
              asked[r].k \in Configurations /\ asked[r].seen \subseteq Configurations
        /\ asked[r].step = "commit" => \A k \in asked[r].seen : configLock[k] = r

\* The rows an activation has cleared, or waits to clear, are its own and every
\* active one; one that waits has seen all there are.
SeenInv ==
    \A r \in TunnelRequests : Activating(r) =>
        /\ config[asked[r].k] # "none"
        /\ Sent(r) /\ asked[r].k \in Existing =>
              asked[r].k \in asked[r].seen /\ (crossed \/ InUse \subseteq asked[r].seen)
        /\ asked[r].step = "blocked" => crossed \/ Existing \subseteq asked[r].seen

\* Of two activations the later statement has seen the row of the earlier one.
OrderInv ==
    \A q, r \in TunnelRequests :
        (/\ q # r /\ Activating(q) /\ Activating(r) /\ Sent(q) /\ Sent(r)
         /\ asked[q].k \in Existing /\ asked[r].k \in Existing)
        => asked[q].k \in asked[r].seen \/ asked[r].k \in asked[q].seen

\* The wizard has loaded every active row, and is alone.
WizardInv ==
    crossed \/ \A r \in TunnelRequests : asked[r].op = "wizard" =>
        /\ InUse \subseteq asked[r].seen
        /\ \A q \in TunnelRequests : q # r => asked[q].op \notin {"activate", "wizard"}

OneInv == crossed \/ \A k, l \in InUse : k = l

RowInv == HoldInv /\ SeenInv /\ OrderInv /\ WizardInv /\ OneInv

\* Requests that are not about rows, and whatever else leaves the rows alone.
LEMMA RowsLeftAlone ==
  ASSUME RowInv, UNCHANGED rowVars,
         \A q \in TunnelRequests :
            \/ asked'[q] = asked[q]
            \/ asked'[q].op \notin RowOps /\ asked'[q].step \notin RowSteps
  PROVE  RowInv'
<1>1. Existing' = Existing /\ InUse' = InUse
  BY DEF rowVars, Existing, InUse
<1>2. HoldInv' /\ OneInv'
  BY <1>1 DEF RowInv, HoldInv, OneInv, rowVars, RowSteps
<1>3. \A q \in TunnelRequests : Activating(q)' => Activating(q) /\ asked'[q] = asked[q]
  BY DEF Activating, RowOps
<1>4. SeenInv'
  BY <1>1, <1>3 DEF RowInv, SeenInv, Sent, rowVars
<1>5. OrderInv'
  BY <1>1, <1>3 DEF RowInv, OrderInv, Sent
<1>6. WizardInv'
  BY <1>1 DEF RowInv, WizardInv, rowVars, RowOps
<1> QED
  BY <1>2, <1>4, <1>5, <1>6 DEF RowInv

\* A request about a row begins.
LEMMA RowAskOK ==
  ASSUME ServiceInv, RowInv, NEW r \in TunnelRequests, NEW k \in Configurations,
         AskActivate(r, k) \/ AskDelete(r, k) \/ WizardLoads(r, k)
  PROVE  RowInv'
<1>1. PICK op \in RowOps, seen \in SUBSET Configurations : Ask(r, op, "flush", k, seen)
  BY DEF AskActivate, AskDelete, WizardLoads, RowOps, InUse
<1> DEFINE x == [op |-> op, step |-> "flush", k |-> k, seen |-> seen]
<1>2. asked' = [asked EXCEPT ![r] = x] /\ asked[r] = NotAsked
  BY <1>1 DEF Ask
<1>3. x.op = op /\ x.step = "flush" /\ x.k = k /\ x.seen = seen
  OBVIOUS
<1> HIDE DEF x
<1>4. asked'[r] = x /\ \A q \in TunnelRequests : q # r => asked'[q] = asked[q]
  BY <1>2 DEF ServiceInv, TunnelTyped
<1>5. UNCHANGED <<config, configLock>>
  BY DEF AskActivate, AskDelete, WizardLoads, rowVars
<1>6. Existing' = Existing /\ InUse' = InUse
  BY <1>5 DEF Existing, InUse
<1>7. \/ op = "activate" /\ k \in Existing /\ crossed' = (crossed \/ Open("wizard"))
      \/ op = "delete" /\ crossed' = crossed
      \/ op = "wizard" /\ seen = InUse /\ crossed' = (crossed \/ Open("wizard") \/ Open("activate"))
  <2>1. CASE AskActivate(r, k)
    <3>1. Ask(r, "activate", "flush", k, {})
      BY <2>1 DEF AskActivate
    <3>2. x.op = "activate"
      BY <1>2, <1>4, <3>1 DEF Ask, ServiceInv, TunnelTyped
    <3> QED
      BY <1>3, <2>1, <3>2 DEF AskActivate
  <2>2. CASE AskDelete(r, k)
    <3>1. Ask(r, "delete", "flush", k, {})
      BY <2>2 DEF AskDelete
    <3>2. x.op = "delete"
      BY <1>2, <1>4, <3>1 DEF Ask, ServiceInv, TunnelTyped
    <3> QED
      BY <1>3, <2>2, <3>2 DEF AskDelete, rowVars
  <2>3. CASE WizardLoads(r, k)
    <3>1. Ask(r, "wizard", "flush", k, InUse)
      BY <2>3 DEF WizardLoads
    <3>2. x.op = "wizard" /\ x.seen = InUse
      BY <1>2, <1>4, <3>1 DEF Ask, ServiceInv, TunnelTyped
    <3> QED
      BY <1>3, <2>3, <3>2 DEF WizardLoads
  <2> QED
    BY <2>1, <2>2, <2>3
<1>8. crossed => crossed'
  BY <1>7
<1>9. HoldInv'
  BY <1>3, <1>4, <1>5 DEF RowInv, HoldInv, RowSteps
<1>10. \A q \in TunnelRequests : Sent(q)' => q # r /\ Sent(q)
  BY <1>3, <1>4 DEF Sent
<1>11. SeenInv'
  <2>1. Activating(r)' => config'[k] # "none"
    BY <1>3, <1>4, <1>5, <1>7 DEF Activating, Existing
  <2> QED
    BY <1>3, <1>4, <1>5, <1>6, <1>8, <1>10, <2>1 DEF RowInv, SeenInv, Activating, Sent
<1>12. OrderInv'
  BY <1>4, <1>6, <1>10 DEF RowInv, OrderInv, Activating
<1>13. WizardInv'
  <2>1. ASSUME ~crossed', NEW q \in TunnelRequests, asked'[q].op = "wizard"
        PROVE  /\ InUse' \subseteq asked'[q].seen
               /\ \A p \in TunnelRequests : p # q => asked'[p].op \notin {"activate", "wizard"}
    BY <1>3, <1>4, <1>6, <1>7, <2>1 DEF RowInv, WizardInv, Open
  <2> QED
    BY <2>1 DEF WizardInv
<1>14. OneInv'
  BY <1>6, <1>8 DEF RowInv, OneInv
<1> QED
  BY <1>9, <1>11, <1>12, <1>13, <1>14 DEF RowInv

\* A statement takes its rows, or waits for them; an activation's are all there are.
LEMMA RowSendOK ==
  ASSUME ServiceInv, RowInv, NEW r \in TunnelRequests,
         SendActivate(r) \/ SendDelete(r) \/ WizardSends(r)
  PROVE  RowInv'
<1>0. asked[r] \in Asked
  BY DEF ServiceInv, TunnelTyped
<1>1. /\ asked[r].step = "flush" /\ asked[r].op \in RowOps
      /\ asked[r].k \in Configurations /\ asked[r].seen \subseteq Configurations
  BY DEF SendActivate, SendDelete, WizardSends, Asks, RowInv, HoldInv, RowOps
<1>2. PICK S \in SUBSET Configurations :
        /\ Send(r, S)
        /\ asked[r].op = "activate" => S = Existing
        /\ asked[r].op = "wizard" => S = asked[r].seen
  <2>1. CASE SendActivate(r)
    BY <2>1 DEF SendActivate, Asks, Cleared, Existing
  <2>2. CASE SendDelete(r)
    BY <1>1, <2>2 DEF SendDelete, Asks
  <2>3. CASE WizardSends(r)
    BY <1>1, <2>3 DEF WizardSends, Asks
  <2> QED
    BY <2>1, <2>2, <2>3
<1>3. UNCHANGED <<config, crossed>>
  BY DEF SendActivate, SendDelete, WizardSends
<1>4. Existing' = Existing /\ InUse' = InUse
  BY <1>3 DEF Existing, InUse
<1>5. PICK step \in {"commit", "blocked"} :
        /\ asked' = [asked EXCEPT ![r].step = step, ![r].seen = S]
        /\ step = "commit" => Untaken(S) /\ Locked(r, S)
        /\ step = "blocked" => configLock' = configLock
  BY <1>2 DEF Send
<1> DEFINE x == [asked[r] EXCEPT !.step = step, !.seen = S]
<1>6. x.op = asked[r].op /\ x.step = step /\ x.k = asked[r].k /\ x.seen = S
  BY <1>0 DEF Asked
<1>7. asked' = [asked EXCEPT ![r] = x]
  BY <1>5
<1> HIDE DEF x
<1>8. asked'[r] = x /\ \A q \in TunnelRequests : q # r => asked'[q] = asked[q]
  BY <1>7 DEF ServiceInv, TunnelTyped
<1>9. HoldInv'
  <2>1. configLock' \in [Configurations -> TunnelRequests \union {NoRequester}]
    BY <1>5 DEF Locked, RowInv, HoldInv
  <2>2. \A q \in TunnelRequests : asked'[q].step = "commit" =>
           \A k \in asked'[q].seen : configLock'[k] = q
    <3>1. CASE step = "blocked"
      BY <1>5, <1>6, <1>8, <3>1 DEF RowInv, HoldInv
    <3>2. CASE step = "commit"
      <4>1. \A k \in S : configLock'[k] = r /\ configLock[k] = NoRequester
        BY <1>5, <3>2 DEF Locked, Untaken
      <4>2. ASSUME NEW q \in TunnelRequests, q # r, asked[q].step = "commit",
                   NEW k \in asked[q].seen
            PROVE  configLock'[k] = q
        <5>1. configLock[k] = q /\ k \in Configurations /\ k \notin S
          BY <4>1, <4>2, TunnelConstantsOK DEF RowInv, HoldInv, RowSteps
        <5> QED
          BY <1>5, <3>2, <5>1 DEF Locked
      <4> QED
        BY <1>6, <1>8, <4>1, <4>2
    <3> QED
      BY <3>1, <3>2
  <2> QED
    BY <1>1, <1>3, <1>6, <1>8, <2>1, <2>2 DEF RowInv, HoldInv, RowSteps
<1>10. InUse \subseteq Existing
  BY DEF InUse, Existing
<1>11. SeenInv'
  BY <1>2, <1>3, <1>4, <1>6, <1>8, <1>10 DEF RowInv, SeenInv, Activating, Sent
<1>12. OrderInv'
  BY <1>2, <1>4, <1>6, <1>8, <1>10 DEF RowInv, OrderInv, Activating, Sent
<1>13. WizardInv'
  BY <1>2, <1>3, <1>4, <1>6, <1>8 DEF RowInv, WizardInv
<1>14. OneInv'
  BY <1>3, <1>4 DEF RowInv, OneInv
<1> QED
  BY <1>9, <1>11, <1>12, <1>13, <1>14 DEF RowInv

\* The end of a transaction: r is over, and one that waited may have its rows.
Ended(r) ==
    /\ asked'[r] = NotAsked
    /\ \A q \in TunnelRequests : q # r =>
          /\ asked'[q].op = asked[q].op /\ asked'[q].k = asked[q].k
          /\ asked'[q].seen = asked[q].seen
          /\ \/ asked'[q].step = asked[q].step
             \/ asked[q].step = "blocked" /\ asked'[q].step = "commit"
    /\ \A q \in TunnelRequests : asked'[q].step = "commit" =>
          \A k \in asked'[q].seen : configLock'[k] = q
    /\ configLock' \in [Configurations -> TunnelRequests \union {NoRequester}]

LEMMA EndFacts ==
  ASSUME ServiceInv, HoldInv, NEW r \in TunnelRequests, asked[r].step = "commit", EndsRequest(r)
  PROVE  Ended(r)
<1> DEFINE released == [k \in Configurations |->
                          IF configLock[k] = r THEN NoRequester ELSE configLock[k]]
<1>1. \A q \in TunnelRequests : q # r /\ asked[q].step = "commit" =>
         \A k \in asked[q].seen : k \in Configurations /\ released[k] = q
  BY DEF HoldInv, RowSteps
<1>2. released \in [Configurations -> TunnelRequests \union {NoRequester}]
  BY DEF HoldInv
<1>n. NotAsked.step = "none"
  BY DEF NotAsked
<1>3. CASE configLock' = released /\ asked' = [asked EXCEPT ![r] = NotAsked]
  <2>1. asked'[r] = NotAsked /\ \A q \in TunnelRequests : q # r => asked'[q] = asked[q]
    BY <1>3 DEF ServiceInv, TunnelTyped
  <2> QED
    BY <1>1, <1>2, <1>3, <1>n, <2>1 DEF Ended
<1>4. ASSUME NEW q \in TunnelRequests, asked[q].step = "blocked",
             \A k \in asked[q].seen : released[k] = NoRequester,
             configLock' = [k \in Configurations |-> IF k \in asked[q].seen THEN q ELSE released[k]],
             asked' = [asked EXCEPT ![r] = NotAsked, ![q].step = "commit"]
      PROVE  Ended(r)
  <2>1. q # r
    BY <1>4
  <2>2. /\ asked'[r] = NotAsked
        /\ asked'[q].op = asked[q].op /\ asked'[q].k = asked[q].k
        /\ asked'[q].seen = asked[q].seen /\ asked'[q].step = "commit"
        /\ \A p \in TunnelRequests \ {q, r} : asked'[p] = asked[p]
    BY <1>4, <2>1 DEF ServiceInv, TunnelTyped, Asked
  <2>3. asked[q].seen \subseteq Configurations
    BY <1>4 DEF HoldInv, RowSteps
  <2>4. \A k \in asked[q].seen : configLock'[k] = q
    BY <1>4, <2>3
  <2>5. ASSUME NEW p \in TunnelRequests \ {q, r}, asked[p].step = "commit",
               NEW k \in asked[p].seen
        PROVE  configLock'[k] = p
    <3>1. k \in Configurations /\ released[k] = p /\ p # NoRequester
      BY <1>1, <2>5, TunnelConstantsOK
    <3>2. k \notin asked[q].seen
      BY <1>4, <3>1
    <3> QED
      BY <1>4, <3>1, <3>2
  <2>6. configLock' \in [Configurations -> TunnelRequests \union {NoRequester}]
    BY <1>2, <1>4
  <2>7. ASSUME NEW p \in TunnelRequests, asked'[p].step = "commit", NEW k \in asked'[p].seen
        PROVE  configLock'[k] = p
    <3>1. p # r
      BY <1>n, <2>2, <2>7
    <3>2. CASE p = q
      BY <2>2, <2>4, <2>7, <3>2
    <3>3. CASE p # q
      BY <2>2, <2>5, <2>7, <3>1, <3>3
    <3> QED
      BY <3>2, <3>3
  <2>8. ASSUME NEW p \in TunnelRequests, p # r
        PROVE  /\ asked'[p].op = asked[p].op /\ asked'[p].k = asked[p].k
               /\ asked'[p].seen = asked[p].seen
               /\ \/ asked'[p].step = asked[p].step
                  \/ asked[p].step = "blocked" /\ asked'[p].step = "commit"
    BY <1>4, <2>2, <2>8
  <2> QED
    BY <2>2, <2>6, <2>7, <2>8 DEF Ended
<1> QED
  BY <1>3, <1>4 DEF EndsRequest, Replied

\* What the transaction of r may write for the others to keep what they rely on.
LEMMA RowEndOK ==
  ASSUME ServiceInv, RowInv, NEW r \in TunnelRequests, asked[r].step = "commit", EndsRequest(r),
         UNCHANGED crossed,
         config' \in [Configurations -> {"none", "off", "on", "gone"}],
         \A k \in Configurations : config'[k] = "none" => config[k] = "none",
         \A q \in TunnelRequests : q # r /\ Activating(q) /\ asked[q].k \in Existing' =>
            asked[q].k \in Existing,
         crossed \/ \A q \in TunnelRequests : q # r =>
            /\ Activating(q) /\ Sent(q) /\ asked[q].k \in Existing => InUse' \subseteq asked[q].seen
            /\ Activating(q) /\ asked[q].step = "blocked" => Existing' \subseteq asked[q].seen
            /\ asked[q].op = "wizard" => InUse' \subseteq asked[q].seen,
         crossed \/ \A k, l \in InUse' : k = l
  PROVE  RowInv'
<1>e. Ended(r)
  BY EndFacts DEF RowInv
<1>1. /\ asked'[r].op = "none" /\ asked'[r].step = "none"
      /\ \A q \in TunnelRequests : q # r =>
               /\ asked'[q].op = asked[q].op /\ asked'[q].k = asked[q].k
               /\ asked'[q].seen = asked[q].seen
               /\ \/ asked'[q].step = asked[q].step
                  \/ asked[q].step = "blocked" /\ asked'[q].step = "commit"
  BY <1>e DEF NotAsked, Ended
<1>2. HoldInv'
  <2>1. ASSUME NEW q \in TunnelRequests
        PROVE  /\ asked'[q].step \in RowSteps => asked'[q].op \in RowOps
               /\ asked'[q].op \in RowOps =>
                     asked'[q].k \in Configurations /\ asked'[q].seen \subseteq Configurations
    BY <1>1 DEF RowInv, HoldInv, RowSteps, RowOps
  <2> QED
    BY <1>e, <2>1 DEF HoldInv, Ended
<1>3. \A q \in TunnelRequests :
        /\ Activating(q)' => q # r /\ Activating(q) /\ asked[q].k \in Configurations
        /\ q # r => (Sent(q)' <=> Sent(q))
  BY <1>1 DEF Activating, Sent, RowInv, HoldInv, RowOps
<1>4. SeenInv'
  BY <1>1, <1>3 DEF RowInv, SeenInv
<1>5. OrderInv'
  BY <1>1, <1>3 DEF RowInv, OrderInv
<1>6. WizardInv'
  BY <1>1 DEF RowInv, WizardInv
<1>7. OneInv'
  BY DEF OneInv
<1> QED
  BY <1>2, <1>4, <1>5, <1>6, <1>7 DEF RowInv

\* A transaction that writes nothing.
LEMMA NothingWritten ==
  ASSUME ServiceInv, RowInv, NEW r \in TunnelRequests, asked[r].step = "commit", EndsRequest(r),
         UNCHANGED <<config, crossed>>
  PROVE  RowInv'
<1>1. Existing' = Existing /\ InUse' = InUse
  BY DEF Existing, InUse
<1> QED
  BY <1>1, RowEndOK DEF RowInv, HoldInv, SeenInv, WizardInv, OneInv

\* An activation: it has cleared every active row, and another that has its rows
\* as well has a row that is gone.
LEMMA CommitActivateOK ==
  ASSUME ServiceInv, RowInv, NEW r \in TunnelRequests, CommitActivate(r)
  PROVE  RowInv'
<1> DEFINE k == asked[r].k
<1>1. /\ asked[r].step = "commit" /\ Activating(r) /\ Sent(r) /\ EndsRequest(r)
      /\ crossed' = crossed
      /\ k \in Configurations
  BY DEF CommitActivate, Asks, RowInv, HoldInv, RowOps, Activating, Sent
<1>2. CASE k \notin Existing
  BY <1>1, <1>2, NothingWritten DEF CommitActivate
<1>3. CASE k \in Existing
  <2>1. config' = [j \in Configurations |->
                     CASE j = k -> "on"
                       [] j \in (asked[r].seen \intersect Existing) \ {k} -> "off"
                       [] OTHER -> config[j]]
    BY <1>3 DEF CommitActivate
  <2>2. \A j \in Configurations : config'[j] =
           IF j = k THEN "on" ELSE IF j \in asked[r].seen \intersect Existing THEN "off" ELSE config[j]
    BY <2>1
  <2>3. config' \in [Configurations -> {"none", "off", "on", "gone"}]
    BY <2>1, <2>2 DEF RowInv, HoldInv
  <2>4. Existing' = Existing
    BY <1>3, <2>2 DEF Existing
  <2>5. \A j \in Configurations : config'[j] = "none" => config[j] = "none"
    BY <2>2
  <2>6. crossed \/ InUse' = {k}
    <3> SUFFICES ASSUME ~crossed PROVE InUse' = {k}
      OBVIOUS
    <3>1. InUse \subseteq asked[r].seen
      BY <1>1, <1>3 DEF RowInv, SeenInv
    <3> QED
      BY <1>1, <2>2, <3>1 DEF InUse, Existing
  <2>7. ASSUME NEW q \in TunnelRequests, q # r, ~crossed
        PROVE  /\ Activating(q) /\ Sent(q) /\ asked[q].k \in Existing => k \in asked[q].seen
               /\ Activating(q) /\ asked[q].step = "blocked" => Existing \subseteq asked[q].seen
               /\ asked[q].op # "wizard"
    <3>1. asked[q].op # "wizard"
      BY <1>1, <2>7 DEF RowInv, WizardInv, Activating
    <3>2. Activating(q) /\ asked[q].step = "blocked" => Existing \subseteq asked[q].seen
      BY <2>7 DEF RowInv, SeenInv
    <3>3. ASSUME Activating(q), asked[q].step = "commit", asked[q].k \in Existing
          PROVE  k \in asked[q].seen
      <4>1. asked[q].k \in asked[q].seen /\ Sent(q)
        BY <3>3 DEF RowInv, SeenInv, Sent
      <4>2. configLock[asked[q].k] = q
        BY <3>3, <4>1 DEF RowInv, HoldInv
      <4>3. asked[q].k \notin asked[r].seen
        BY <1>1, <2>7, <4>2 DEF RowInv, HoldInv
      <4> QED
        BY <1>1, <1>3, <2>7, <3>3, <4>1, <4>3 DEF RowInv, OrderInv
    <3> QED
      BY <1>3, <3>1, <3>2, <3>3 DEF Sent
  <2> HIDE DEF k
  <2> QED
    BY <1>1, <2>3, <2>4, <2>5, <2>6, <2>7, RowEndOK
<1> QED
  BY <1>2, <1>3

LEMMA CommitDeleteOK ==
  ASSUME ServiceInv, RowInv, NEW r \in TunnelRequests, CommitDelete(r)
  PROVE  RowInv'
<1> DEFINE k == asked[r].k
<1>1. /\ asked[r].step = "commit" /\ EndsRequest(r)
      /\ crossed' = crossed /\ config' = [config EXCEPT ![k] = "gone"]
      /\ k \in Configurations
  BY DEF CommitDelete, Asks, RowInv, HoldInv, RowOps
<1> HIDE DEF k
<1>2. config' \in [Configurations -> {"none", "off", "on", "gone"}]
  BY <1>1 DEF RowInv, HoldInv
<1>3. \A j \in Configurations : config'[j] = IF j = k THEN "gone" ELSE config[j]
  BY <1>1 DEF RowInv, HoldInv
<1>4. Existing' \subseteq Existing /\ InUse' \subseteq InUse
  BY <1>3 DEF Existing, InUse
<1>5. crossed \/ \A q \in TunnelRequests : q # r =>
        /\ Activating(q) /\ Sent(q) /\ asked[q].k \in Existing => InUse' \subseteq asked[q].seen
        /\ Activating(q) /\ asked[q].step = "blocked" => Existing' \subseteq asked[q].seen
        /\ asked[q].op = "wizard" => InUse' \subseteq asked[q].seen
  BY <1>4 DEF RowInv, SeenInv, WizardInv
<1>6. crossed \/ \A i, l \in InUse' : i = l
  BY <1>4 DEF RowInv, OneInv
<1> QED
  BY <1>1, <1>2, <1>3, <1>4, <1>5, <1>6, RowEndOK

\* The wizard has cleared every row that was active, and nobody activates one.
LEMMA WizardCommitsOK ==
  ASSUME ServiceInv, RowInv, NEW r \in TunnelRequests, WizardCommits(r)
  PROVE  RowInv'
<1> DEFINE k == asked[r].k
<1>1. /\ asked[r].step = "commit" /\ asked[r].op = "wizard" /\ EndsRequest(r)
      /\ crossed' = crossed
      /\ k \in Configurations
  BY DEF WizardCommits, Asks, RowInv, HoldInv, RowOps
<1>2. CASE ~(asked[r].seen \subseteq Existing /\ config[k] = "none")
  BY <1>1, <1>2, NothingWritten DEF WizardCommits
<1>3. CASE asked[r].seen \subseteq Existing /\ config[k] = "none"
  <2>1. config' = [j \in Configurations |->
                     CASE j = k -> "on"
                       [] j \in asked[r].seen -> "off"
                       [] OTHER -> config[j]]
    BY <1>3 DEF WizardCommits
  <2>2. \A j \in Configurations : config'[j] =
           IF j = k THEN "on" ELSE IF j \in asked[r].seen THEN "off" ELSE config[j]
    <3>1. k \notin asked[r].seen
      BY <1>3 DEF Existing
    <3> QED
      BY <2>1, <3>1
  <2>3. config' \in [Configurations -> {"none", "off", "on", "gone"}]
    BY <2>1, <2>2 DEF RowInv, HoldInv
  <2>4. Existing' = Existing \union {k}
    BY <1>1, <1>3, <2>2 DEF Existing
  <2>5. \A j \in Configurations : config'[j] = "none" => config[j] = "none"
    BY <2>2
  <2>6. \A q \in TunnelRequests : q # r /\ Activating(q) /\ asked[q].k \in Existing' =>
            asked[q].k \in Existing
    BY <1>3, <2>4 DEF RowInv, SeenInv
  <2>7. crossed \/ \A q \in TunnelRequests : q # r => ~Activating(q) /\ asked[q].op # "wizard"
    BY <1>1 DEF RowInv, WizardInv, Activating
  <2>8. crossed \/ InUse' = {k}
    <3> SUFFICES ASSUME ~crossed PROVE InUse' = {k}
      OBVIOUS
    <3>1. InUse \subseteq asked[r].seen
      BY <1>1 DEF RowInv, WizardInv
    <3> QED
      BY <1>1, <2>2, <3>1 DEF InUse
  <2> HIDE DEF k
  <2> QED
    BY <1>1, <2>3, <2>5, <2>6, <2>7, <2>8, RowEndOK
<1> QED
  BY <1>2, <1>3

\* A row that is added while no activation waits.
LEMMA CreateOK ==
  ASSUME ServiceInv, RowInv, NEW k \in Configurations, CreateConfiguration(k)
  PROVE  RowInv'
<1>1. /\ config[k] = "none" /\ config' = [config EXCEPT ![k] = "off"]
      /\ crossed' = (crossed \/ \E r \in TunnelRequests : Asks(r, "activate", "blocked"))
      /\ configLock' = configLock /\ asked' = asked
  BY DEF CreateConfiguration
<1>2. /\ config' \in [Configurations -> {"none", "off", "on", "gone"}]
      /\ \A j \in Configurations : config'[j] = IF j = k THEN "off" ELSE config[j]
  BY <1>1 DEF RowInv, HoldInv
<1>3. Existing' = Existing \union {k} /\ InUse' = InUse
  BY <1>1, <1>2 DEF Existing, InUse
<1>4. HoldInv'
  BY <1>1, <1>2 DEF RowInv, HoldInv
<1>5. \A r \in TunnelRequests :
         /\ Sent(r)' <=> Sent(r)
         /\ Activating(r)' <=> Activating(r)
         /\ Activating(r) => (asked[r].k \in Existing' <=> asked[r].k \in Existing)
  BY <1>1, <1>3 DEF RowInv, SeenInv, Sent, Activating
<1>6. SeenInv'
  <2>1. ASSUME NEW r \in TunnelRequests, Activating(r)
        PROVE  config'[asked[r].k] # "none"
    <3>1. asked[r].k \in Configurations
      BY <2>1 DEF RowInv, HoldInv, Activating, RowOps
    <3> QED
      BY <1>2, <2>1, <3>1 DEF RowInv, SeenInv
  <2>2. ASSUME NEW r \in TunnelRequests, Activating(r), asked[r].step = "blocked"
        PROVE  crossed'
    BY <1>1, <2>2 DEF Activating, Asks
  <2> QED
    BY <1>1, <1>3, <1>5, <2>1, <2>2 DEF RowInv, SeenInv
<1>7. OrderInv'
  BY <1>1, <1>5 DEF RowInv, OrderInv
<1>8. WizardInv' /\ OneInv'
  BY <1>1, <1>3 DEF RowInv, WizardInv, OneInv
<1> QED
  BY <1>4, <1>6, <1>7, <1>8 DEF RowInv

\* No configuration is there at first.
LEMMA RowsInit == TunnelInit => RowInv
<1> SUFFICES ASSUME TunnelInit PROVE RowInv
  OBVIOUS
<1>1. /\ \A r \in TunnelRequests : asked[r].op = "none" /\ asked[r].step = "none"
      /\ InUse = {} /\ \A k \in Configurations : config[k] = "none"
  BY DEF TunnelInit, NotAsked, InUse
<1>2. HoldInv
  BY <1>1 DEF TunnelInit, HoldInv, RowSteps, RowOps
<1> QED
  BY <1>1, <1>2 DEF RowInv, SeenInv, OrderInv, WizardInv, OneInv, Activating

\* The requests that start and stop the child write no row.
LEMMA RowsServiceOK ==
  ASSUME ServiceInv, RowInv, NEW r \in TunnelRequests, ServiceStep(r)
  PROVE  RowInv'
<1>1. UNCHANGED rowVars
  BY DEF ServiceStep, ReadActive, RefuseStart, LockStart, Spawn, SpawnFails, ReadsConnected,
     GivesUp, CleansUp, AskStop, LockStop, Stopped
<1>2. CASE ReadActive(r) \/ AskStop(r)
  <2>1. PICK op, k, seen : op \in {"start", "stop"} /\ Ask(r, op, "lock", k, seen)
    BY <1>2 DEF ReadActive, AskStop
  <2> DEFINE x == [op |-> op, step |-> "lock", k |-> k, seen |-> seen]
  <2>2. /\ x.op \in {"start", "stop"} /\ x.step = "lock"
        /\ asked' = [asked EXCEPT ![r] = x]
    BY <2>1 DEF Ask
  <2> HIDE DEF x
  <2> QED
    BY <1>1, <2>2, RowsLeftAlone DEF ServiceInv, TunnelTyped, RowOps, RowSteps
<1>3. CASE RefuseStart(r) \/ SpawnFails(r) \/ ReadsConnected(r) \/ CleansUp(r) \/ Stopped(r)
  <2>1. asked' = [asked EXCEPT ![r] = NotAsked]
    BY <1>3 DEF RefuseStart, SpawnFails, ReadsConnected, CleansUp, Stopped, Replied
  <2>2. NotAsked.op = "none" /\ NotAsked.step = "none"
    BY DEF NotAsked
  <2> QED
    BY <1>1, <2>1, <2>2, RowsLeftAlone DEF ServiceInv, TunnelTyped, RowOps, RowSteps
<1>4. CASE LockStart(r) \/ Spawn(r) \/ GivesUp(r) \/ LockStop(r)
  <2>1. PICK step \in Critical : asked' = [asked EXCEPT ![r].step = step]
    BY <1>4 DEF LockStart, Spawn, GivesUp, LockStop, StepTo, Critical
  <2>2. asked[r].op \in {"start", "stop"}
    BY <1>4 DEF LockStart, Spawn, GivesUp, LockStop, Asks
  <2> DEFINE x == [asked[r] EXCEPT !.step = step]
  <2>3. x.op = asked[r].op /\ x.step = step /\ asked' = [asked EXCEPT ![r] = x]
    BY <2>1 DEF ServiceInv, TunnelTyped, Asked
  <2> HIDE DEF x
  <2> QED
    BY <1>1, <2>2, <2>3, RowsLeftAlone DEF ServiceInv, TunnelTyped, RowOps, RowSteps, Critical
<1> QED
  BY <1>2, <1>3, <1>4 DEF ServiceStep

LEMMA RowsStep ==
  ASSUME ServiceInv, RowInv, [TunnelNext]_tunnelVars
  PROVE  RowInv'
<1>1. ASSUME NEW r \in TunnelRequests, ConfigurationStep(r)
      PROVE  RowInv'
  <2>1. CASE RollsBack(r)
    BY <2>1, NothingWritten DEF RollsBack
  <2> QED
    BY <1>1, <2>1, RowAskOK, RowSendOK, CommitActivateOK, CommitDeleteOK, WizardCommitsOK
       DEF ConfigurationStep
<1>2. CASE HealthCheck \/ (\E p \in live : ChildDies(p)) \/ UNCHANGED tunnelVars
  <2>1. UNCHANGED rowVars /\ asked' = asked
    BY <1>2 DEF HealthCheck, ChildDies, tunnelVars, rowVars
  <2> QED
    BY <2>1, RowsLeftAlone
<1> QED
  BY <1>1, <1>2, RowsServiceOK, CreateOK DEF TunnelNext

\* However activations and deletions overlap and fail, one configuration at most
\* is active: each clears every row there is, and waits for whoever has one.
\* (OneActive says when not: the wizard, and rows a waiting activation cannot see.)
THEOREM OneActiveCorrect == TunnelSpec => []OneActive
<1>1. RowInv => OneActive
  <2> SUFFICES ASSUME RowInv, ~crossed PROVE Cardinality(InUse) <= 1
    BY DEF OneActive
  <2>1. CASE InUse = {}
    BY <2>1, FS_EmptySet
  <2>2. ASSUME NEW k \in InUse
        PROVE  Cardinality(InUse) <= 1
    <3>1. InUse = {k}
      BY DEF RowInv, OneInv
    <3> QED
      BY <3>1, FS_Singleton
  <2> QED
    BY <2>1, <2>2
<1>2. TunnelInit => ServiceInv /\ RowInv
  BY ServiceInitOK, RowsInit
<1>3. ServiceInv /\ RowInv /\ [TunnelNext]_tunnelVars => (ServiceInv /\ RowInv)'
  BY ServiceStepOK, RowsStep
<1> QED
  BY <1>1, <1>2, <1>3, PTL DEF TunnelSpec

-----------------------------------------------------------------------------
(* The types of the tunnel's state, and who holds what.                    *)

\* Only starts and stops take the lock of the service.
PairInv == \A r \in TunnelRequests :
    asked[r].op \in {"start", "stop"} <=> asked[r].step \in Critical \union {"lock"}

\* Whoever has a row is about to end its transaction.
LocksInv == \A k \in Configurations :
    configLock[k] # NoRequester => asked[configLock[k]].step = "commit"

ChildrenInv ==
    /\ holder \in TunnelRequests \union {NoRequester}
    /\ started <= MaxStarts /\ live \subseteq 1 .. started /\ tunnel.process <= started

LEMMA HeldInit == TunnelInit => PairInv /\ LocksInv /\ ChildrenInv
<1> SUFFICES ASSUME TunnelInit PROVE PairInv /\ LocksInv /\ ChildrenInv
  OBVIOUS
<1>1. \A r \in TunnelRequests : asked[r].op = "none" /\ asked[r].step = "none"
  BY DEF TunnelInit, NotAsked
<1> QED
  BY <1>1, TunnelConstantsOK
     DEF TunnelInit, PairInv, LocksInv, ChildrenInv, NoChild, Critical

\* A start or a stop changes its own record only, and ends no transaction.
LEMMA ServiceAsks ==
  ASSUME ServiceInv, NEW r \in TunnelRequests, ServiceStep(r)
  PROVE  /\ UNCHANGED rowVars /\ asked[r].step # "commit"
         /\ \A q \in TunnelRequests : q # r => asked'[q] = asked[q]
         /\ asked'[r].op \in {"start", "stop"} <=> asked'[r].step \in Critical \union {"lock"}
<1>1. UNCHANGED rowVars
  BY DEF ServiceStep, ReadActive, RefuseStart, LockStart, Spawn, SpawnFails, ReadsConnected,
     GivesUp, CleansUp, AskStop, LockStop, Stopped
<1>n. NotAsked.op = "none" /\ NotAsked.step = "none"
  BY DEF NotAsked
<1>2. CASE ReadActive(r) \/ AskStop(r)
  <2>1. PICK op, k, seen : op \in {"start", "stop"} /\ Ask(r, op, "lock", k, seen)
    BY <1>2 DEF ReadActive, AskStop
  <2> DEFINE x == [op |-> op, step |-> "lock", k |-> k, seen |-> seen]
  <2>2. /\ x.op \in {"start", "stop"} /\ x.step = "lock"
        /\ asked' = [asked EXCEPT ![r] = x] /\ asked[r] = NotAsked
    BY <2>1 DEF Ask
  <2> HIDE DEF x
  <2> QED
    BY <1>1, <1>n, <2>2 DEF ServiceInv, TunnelTyped
<1>3. CASE RefuseStart(r) \/ SpawnFails(r) \/ ReadsConnected(r) \/ CleansUp(r) \/ Stopped(r)
  <2>1. asked' = [asked EXCEPT ![r] = NotAsked] /\ asked[r].step # "commit"
    BY <1>3 DEF RefuseStart, SpawnFails, ReadsConnected, CleansUp, Stopped, Replied, Asks
  <2> QED
    BY <1>1, <1>n, <2>1 DEF ServiceInv, TunnelTyped, Critical
<1>4. CASE LockStart(r) \/ Spawn(r) \/ GivesUp(r) \/ LockStop(r)
  <2>1. PICK step \in Critical : asked' = [asked EXCEPT ![r].step = step]
    BY <1>4 DEF LockStart, Spawn, GivesUp, LockStop, StepTo, Critical
  <2>2. asked[r].op \in {"start", "stop"} /\ asked[r].step # "commit"
    BY <1>4 DEF LockStart, Spawn, GivesUp, LockStop, Asks
  <2> DEFINE x == [asked[r] EXCEPT !.step = step]
  <2>3. x.op = asked[r].op /\ x.step = step /\ asked' = [asked EXCEPT ![r] = x]
    BY <2>1 DEF ServiceInv, TunnelTyped, Asked
  <2> HIDE DEF x
  <2> QED
    BY <1>1, <2>2, <2>3 DEF ServiceInv, TunnelTyped
<1> QED
  BY <1>2, <1>3, <1>4 DEF ServiceStep

\* A request about rows begins.
LEMMA RowAsks ==
  ASSUME ServiceInv, NEW r \in TunnelRequests, NEW k \in Configurations,
         AskActivate(r, k) \/ AskDelete(r, k) \/ WizardLoads(r, k)
  PROVE  /\ configLock' = configLock /\ asked[r].step = "none"
         /\ asked'[r].step = "flush" /\ asked'[r].op \in RowOps
         /\ \A q \in TunnelRequests : q # r => asked'[q] = asked[q]
<1>1. PICK op \in RowOps, seen \in SUBSET Configurations : Ask(r, op, "flush", k, seen)
  BY DEF AskActivate, AskDelete, WizardLoads, RowOps, InUse
<1> DEFINE x == [op |-> op, step |-> "flush", k |-> k, seen |-> seen]
<1>2. /\ x.op \in RowOps /\ x.step = "flush"
      /\ asked' = [asked EXCEPT ![r] = x] /\ asked[r] = NotAsked
  BY <1>1 DEF Ask
<1> HIDE DEF x
<1> QED
  BY <1>2 DEF ServiceInv, TunnelTyped, AskActivate, AskDelete, WizardLoads, rowVars, NotAsked

\* A statement on rows takes them, or waits.
LEMMA RowSends ==
  ASSUME ServiceInv, NEW r \in TunnelRequests, NEW S, Send(r, S), asked[r].step = "flush",
         asked[r].op \in RowOps
  PROVE  /\ asked'[r].op = asked[r].op
         /\ \A q \in TunnelRequests : q # r => asked'[q] = asked[q]
         /\ \/ asked'[r].step = "blocked" /\ configLock' = configLock
            \/ asked'[r].step = "commit" /\ Locked(r, S)
<1>1. PICK step \in {"commit", "blocked"} :
        /\ asked' = [asked EXCEPT ![r].step = step, ![r].seen = S]
        /\ step = "commit" => Locked(r, S)
        /\ step = "blocked" => configLock' = configLock
  BY DEF Send
<1> DEFINE x == [asked[r] EXCEPT !.step = step, !.seen = S]
<1>2. x.op = asked[r].op /\ x.step = step
  BY DEF ServiceInv, TunnelTyped, Asked
<1>3. asked' = [asked EXCEPT ![r] = x]
  BY <1>1
<1> HIDE DEF x
<1>4. asked'[r] = x /\ \A q \in TunnelRequests : q # r => asked'[q] = asked[q]
  BY <1>3 DEF ServiceInv, TunnelTyped
<1> QED
  BY <1>1, <1>2, <1>4

\* The end of a transaction hands the rows on to one that waited for them, or frees
\* them.
LEMMA LocksEnd ==
  ASSUME ServiceInv, HoldInv, LocksInv, NEW r \in TunnelRequests, asked[r].step = "commit",
         EndsRequest(r)
  PROVE  LocksInv'
<1> DEFINE released == [k \in Configurations |->
                          IF configLock[k] = r THEN NoRequester ELSE configLock[k]]
<1>1. ASSUME NEW k \in Configurations, released[k] # NoRequester
      PROVE  /\ released[k] \in TunnelRequests /\ released[k] # r
             /\ asked[released[k]].step = "commit"
  BY <1>1, TunnelConstantsOK DEF HoldInv, LocksInv
<1>2. CASE configLock' = released /\ asked' = [asked EXCEPT ![r] = NotAsked]
  <2>1. \A q \in TunnelRequests : q # r => asked'[q] = asked[q]
    BY <1>2 DEF ServiceInv, TunnelTyped
  <2> QED
    BY <1>1, <1>2, <2>1 DEF LocksInv
<1>3. ASSUME NEW q \in TunnelRequests, asked[q].step = "blocked",
             configLock' = [k \in Configurations |-> IF k \in asked[q].seen THEN q ELSE released[k]],
             asked' = [asked EXCEPT ![r] = NotAsked, ![q].step = "commit"]
      PROVE  LocksInv'
  <2>1. q # r
    BY <1>3
  <2>2. /\ asked'[q].step = "commit"
        /\ \A p \in TunnelRequests \ {q, r} : asked'[p] = asked[p]
    BY <1>3, <2>1 DEF ServiceInv, TunnelTyped, Asked
  <2>3. ASSUME NEW k \in Configurations, configLock'[k] # NoRequester
        PROVE  asked'[configLock'[k]].step = "commit"
    BY <1>1, <1>3, <2>2, <2>3
  <2> QED
    BY <2>3 DEF LocksInv
<1> QED
  BY <1>2, <1>3 DEF EndsRequest, Replied

LEMMA HeldStep ==
  ASSUME ServiceInv, RowInv, PairInv, LocksInv, [TunnelNext]_tunnelVars
  PROVE  PairInv' /\ LocksInv'
<1> USE DEF RowInv
\* Nobody who has a row changes its step.
<1>g. ASSUME configLock' = configLock,
             \A q \in TunnelRequests : asked[q].step = "commit" => asked'[q].step = "commit"
      PROVE  LocksInv'
  BY <1>g, TunnelConstantsOK DEF HoldInv, LocksInv
<1>1. ASSUME NEW r \in TunnelRequests, ServiceStep(r) PROVE PairInv' /\ LocksInv'
  BY <1>1, <1>g, ServiceAsks DEF PairInv, rowVars
<1>2. ASSUME NEW r \in TunnelRequests, NEW k \in Configurations,
             AskActivate(r, k) \/ AskDelete(r, k) \/ WizardLoads(r, k)
      PROVE  PairInv' /\ LocksInv'
  <2>1. /\ configLock' = configLock /\ asked[r].step = "none"
        /\ asked'[r].step = "flush" /\ asked'[r].op \in RowOps
        /\ \A q \in TunnelRequests : q # r => asked'[q] = asked[q]
    BY <1>2, RowAsks
  <2> QED
    BY <1>g, <2>1 DEF PairInv, Critical, RowOps
<1>3. ASSUME NEW r \in TunnelRequests, SendActivate(r) \/ SendDelete(r) \/ WizardSends(r)
      PROVE  PairInv' /\ LocksInv'
  <2>1. /\ \E S : Send(r, S)
        /\ asked[r].step = "flush" /\ asked[r].op \in RowOps
    BY <1>3 DEF SendActivate, SendDelete, WizardSends, Asks, RowOps
  <2>2. PICK S :
          /\ asked'[r].op = asked[r].op
          /\ \A q \in TunnelRequests : q # r => asked'[q] = asked[q]
          /\ \/ asked'[r].step = "blocked" /\ configLock' = configLock
             \/ asked'[r].step = "commit" /\ Locked(r, S)
    BY <2>1, RowSends
  <2>3. PairInv'
    BY <2>1, <2>2 DEF PairInv, Critical, RowOps
  <2>4. ASSUME NEW k \in Configurations, configLock'[k] # NoRequester
        PROVE  asked'[configLock'[k]].step = "commit"
    <3>1. configLock'[k] = configLock[k] \/ (configLock'[k] = r /\ asked'[r].step = "commit")
      BY <2>2 DEF Locked
    <3>2. configLock'[k] = configLock[k] =>
             /\ configLock[k] \in TunnelRequests /\ configLock[k] # r
             /\ asked[configLock[k]].step = "commit"
      BY <2>1, <2>4 DEF HoldInv, LocksInv
    <3> QED
      BY <2>2, <3>1, <3>2
  <2> QED
    BY <2>3, <2>4 DEF LocksInv
<1>4. ASSUME NEW r \in TunnelRequests,
             CommitActivate(r) \/ CommitDelete(r) \/ WizardCommits(r) \/ RollsBack(r)
      PROVE  PairInv' /\ LocksInv'
  <2>1. asked[r].step = "commit" /\ EndsRequest(r)
    BY <1>4 DEF CommitActivate, CommitDelete, WizardCommits, RollsBack, Asks
  <2>2. Ended(r)
    BY <2>1, EndFacts
  <2>3. PairInv'
    BY <2>2 DEF Ended, PairInv, NotAsked, Critical
  <2> QED
    BY <2>1, <2>3, LocksEnd
<1>5. CASE \/ HealthCheck \/ (\E p \in live : ChildDies(p)) \/ UNCHANGED tunnelVars
           \/ \E k \in Configurations : CreateConfiguration(k)
  <2>1. configLock' = configLock /\ asked' = asked
    BY <1>5 DEF HealthCheck, ChildDies, tunnelVars, rowVars, CreateConfiguration
  <2> QED
    BY <1>g, <2>1 DEF PairInv
<1> QED
  BY <1>1, <1>2, <1>3, <1>4, <1>5 DEF TunnelNext, ConfigurationStep

LEMMA ChildrenStep ==
  ASSUME ServiceInv, ChildrenInv, [TunnelNext]_tunnelVars
  PROVE  ChildrenInv'
<1> USE TunnelConstantsOK DEF ServiceInv, TunnelTyped, ChildrenInv
<1>1. ASSUME NEW r \in TunnelRequests, Spawn(r) PROVE ChildrenInv'
  <2>1. started' = started + 1 /\ started < MaxStarts /\ live' = live \union {started'} /\ holder' = holder
    BY <1>1 DEF Spawn
  <2>2. tunnel'.process = started'
    BY <1>1 DEF Spawn
  <2> QED
    BY <2>1, <2>2
<1>2. ASSUME started' = started, live' \subseteq live, tunnel'.process \in {tunnel.process, NoChild},
             holder' \in TunnelRequests \union {NoRequester}
      PROVE  ChildrenInv'
  BY <1>2 DEF NoChild
<1>3. ASSUME NEW r \in TunnelRequests, ServiceStep(r), ~Spawn(r) PROVE ChildrenInv'
  <2>1. started' = started /\ live' \subseteq live
    BY <1>3 DEF ServiceStep, ReadActive, RefuseStart, LockStart, SpawnFails, ReadsConnected,
       GivesUp, CleansUp, AskStop, LockStop, Stopped, serviceVars
  <2>2. holder' \in TunnelRequests \union {NoRequester}
    BY <1>3 DEF ServiceStep, ReadActive, RefuseStart, LockStart, SpawnFails, ReadsConnected,
       GivesUp, CleansUp, AskStop, LockStop, Stopped, serviceVars
  <2>3. tunnel'.process \in {tunnel.process, NoChild}
    BY <1>3 DEF ServiceStep, ReadActive, RefuseStart, LockStart, SpawnFails, ReadsConnected,
       GivesUp, CleansUp, AskStop, LockStop, Stopped, serviceVars
  <2> QED
    BY <1>2, <2>1, <2>2, <2>3
<1>4. ASSUME NEW r \in TunnelRequests, ConfigurationStep(r) PROVE ChildrenInv'
  <2>1. UNCHANGED serviceVars
    BY <1>4 DEF ConfigurationStep, AskActivate, AskDelete, WizardLoads, SendActivate, SendDelete,
       WizardSends, CommitActivate, CommitDelete, WizardCommits, RollsBack
  <2> QED
    BY <1>2, <2>1 DEF serviceVars
<1>5. CASE \/ HealthCheck \/ (\E p \in live : ChildDies(p)) \/ UNCHANGED tunnelVars
           \/ \E k \in Configurations : CreateConfiguration(k)
  <2>1. started' = started /\ live' \subseteq live /\ holder' = holder
    BY <1>5 DEF HealthCheck, ChildDies, tunnelVars, serviceVars, CreateConfiguration
  <2>2. tunnel' = tunnel \/ tunnel' = [status |-> "disconnected", process |-> NoChild]
    BY <1>5 DEF HealthCheck, ChildDies, tunnelVars, serviceVars, CreateConfiguration
  <2>3. tunnel'.process \in {tunnel.process, NoChild}
    BY <2>2
  <2> QED
    BY <1>2, <2>1, <2>3
<1> QED
  BY <1>1, <1>3, <1>4, <1>5 DEF TunnelNext

\* The service, its child and the rows have their types, the lock of the service is
\* with one request that starts or stops, and a row is held by a transaction only.
THEOREM TunnelTypeCorrect == TunnelSpec => []TunnelTypeOK
<1> DEFINE Inv == ServiceInv /\ RowInv /\ PairInv /\ LocksInv /\ ChildrenInv
<1>1. TunnelInit => Inv
  BY ServiceInitOK, RowsInit, HeldInit
<1>2. Inv /\ [TunnelNext]_tunnelVars => Inv'
  BY ServiceStepOK, RowsStep, HeldStep, ChildrenStep
<1>3. Inv => TunnelTypeOK
  <2> SUFFICES ASSUME Inv PROVE TunnelTypeOK
    OBVIOUS
  <2>1. tunnel \in [status : {"disconnected", "connecting", "connected", "error"},
                    process : 0 .. MaxStarts]
    BY TunnelConstantsOK DEF ServiceInv, TunnelTyped, ChildrenInv
  <2>2. started \in 0 .. MaxStarts
    BY TunnelConstantsOK DEF ServiceInv, TunnelTyped, ChildrenInv
  <2>3. ASSUME NEW r \in TunnelRequests
        PROVE  asked[r].op \in {"start", "stop"} /\ asked[r].step # "lock" <=> holder = r
    BY DEF ServiceInv, ServiceLockInv, PairInv, Critical
  <2> QED
    BY <2>1, <2>2, <2>3 DEF TunnelTypeOK, RowInv, HoldInv, LocksInv, ChildrenInv
<1> QED
  BY <1>1, <1>2, <1>3, PTL DEF TunnelSpec

-----------------------------------------------------------------------------
(* The grants of external sources: ExternalSources.                        *)

Use == [op : {"none", "flow", "exchange"} \union Purposes,
        step : {"none", "discover", "post", "store", "refresh", "flush", "call"},
        source : Sources \union {Nobody}, read : 0..MaxIssued, new : 0..MaxIssued]

\* What a request has in hand: a new token that nobody has stored or read yet.
UseInv == \A u \in Users :
    /\ using[u].step \in {"store", "flush"} => using[u].new # 0
    /\ using[u].step # "none" => using[u].source \in Sources
    /\ using[u].step \in {"refresh", "flush", "call"} => using[u].op \in Purposes
    /\ using[u].step \in {"none", "discover", "post", "refresh"} => using[u].new = 0
    /\ using[u].step = "none" => using[u] = NotUsing
    /\ using[u].read <= issuedTokens
    /\ using[u].new # 0 => /\ using[u].new \in honoured
                           /\ \A v \in Users : using[v].read # using[u].new
                           /\ \A v \in Users : v # u => using[v].new # using[u].new

\* A token is stored on one source, and read from it only.
TokenInv ==
    /\ \A s \in Sources : tokens[s] <= issuedTokens \/ tokens[s] = Gone
    /\ \A s, t \in Sources : tokens[s] = tokens[t] /\ tokens[s] \notin {0, Gone} => s = t
    /\ \A s \in Sources, u \in Users :
          /\ using[u].new # 0 => tokens[s] # using[u].new
          /\ using[u].read # 0 /\ using[u].read = tokens[s] => using[u].source = s

\* Who has written the row of a source has a new token for it.
HolderInv == \A s \in Sources : sourceLock[s] # Nobody =>
    /\ using[sourceLock[s]].step = "call" /\ using[sourceLock[s]].source = s
    /\ using[sourceLock[s]].new # 0

\* A flow is pending only before its state was accepted.
FlowInv == \A f \in Flows : /\ exchanged[f] \in {0, 1}
                            /\ openFlows[f] # Nobody => exchanged[f] = 0

\* The request u is going to store a new token on s.
Holds(u, s) ==
    /\ using[u].source = s /\ using[u].new # 0 /\ Keeps(using[u].op)
    /\ \/ using[u].step = "flush"
       \/ using[u].step = "call" /\ sourceLock[s] = u

\* A source whose token was spent is about to get its successor, or is stranded.
SuccessorInv == losses = 0 => \A s \in Sources :
    tokens[s] \notin {0, Gone} /\ tokens[s] \notin honoured
        => s \in stranded \/ \E u \in Users : Holds(u, s)

Safe == SourcesTypeOK /\ UseInv /\ TokenInv /\ HolderInv

\* Every handler that uses a source commits also when the call fails.
AlwaysKept == Purposes \subseteq {"discover", "health"}

LEMMA NotUsingOK ==
    /\ NotUsing \in Use /\ NotUsing.op = "none" /\ NotUsing.step = "none"
    /\ NotUsing.source = Nobody /\ NotUsing.read = 0 /\ NotUsing.new = 0
  BY SourceConstantsOK DEF NotUsing, Use

LEMMA ConstantsOK ==
    /\ MaxIssued \in Nat /\ MaxUses \in Nat /\ MaxLosses \in Nat /\ Gone = MaxIssued + 1
    /\ Nobody \notin Users /\ Nobody \notin Sources
  BY SourceConstantsOK DEF Gone

LEMMA SourcesInitOK == SourcesInit => Safe /\ FlowInv /\ SuccessorInv
<1> SUFFICES ASSUME SourcesInit PROVE Safe /\ FlowInv /\ SuccessorInv
  OBVIOUS
<1>1. SourcesTypeOK
  BY NotUsingOK, ConstantsOK DEF SourcesInit, SourcesTypeOK, Use
<1>2. UseInv /\ TokenInv /\ HolderInv /\ FlowInv /\ SuccessorInv
  BY NotUsingOK, ConstantsOK
     DEF SourcesInit, UseInv, TokenInv, HolderInv, FlowInv, SuccessorInv
<1> QED
  BY <1>1, <1>2 DEF Safe

-----------------------------------------------------------------------------
(* The steps of a request, by what they do to the tokens.                  *)

\* The facts about the state that every step needs.
LEMMA SafeFacts ==
  ASSUME Safe
  PROVE  /\ tokens \in [Sources -> 0..Gone] /\ issuedTokens \in 0..MaxIssued
         /\ honoured \subseteq 1..issuedTokens /\ using \in [Users -> Use]
         /\ sourceLock \in [Sources -> Users \union {Nobody}]
         /\ \A u \in Users : /\ using[u] \in Use /\ using[u].new \in 0..MaxIssued
                             /\ using[u].read \in 0..MaxIssued
                             /\ using[u].new # 0 => using[u].new <= issuedTokens
  BY ConstantsOK DEF Safe, SourcesTypeOK, UseInv, Use

\* What a step keeps of the types when it says what it does to these variables.
KeptTypes ==
    /\ tokens' \in [Sources -> 0..Gone] /\ honoured' \subseteq 1..issuedTokens'
    /\ issuedTokens' \in 0..MaxIssued /\ using' \in [Users -> Use]
    /\ sourceLock' \in [Sources -> Users \union {Nobody}]
    /\ UseInv' /\ TokenInv' /\ HolderInv'

\* A request that is taken up or goes on without a token of its own: what it has in
\* hand afterwards.
OpenedAs(u, x) ==
    /\ using' = [using EXCEPT ![u] = x] /\ using[u].new = 0 /\ x.new = 0
    /\ x.step \notin {"none", "store", "flush"} /\ x.source \in Sources
    /\ x.step \in {"refresh", "call"} => x.op \in Purposes
    /\ \/ x.read = 0
       \/ x.read = tokens[x.source] /\ x.read # Gone
       \/ x.read = using[u].read /\ x.source = using[u].source
    /\ UNCHANGED <<tokens, issuedTokens, sourceLock, stranded>>
    /\ \/ honoured' = honoured /\ losses' = losses
       \/ x.step = "call" /\ honoured' = honoured \ {using[u].read} /\ losses' # 0

Opened(u) == \E x \in Use : OpenedAs(u, x)

LEMMA OpenOK ==
  ASSUME Safe, NEW u \in Users, NEW x \in Use, OpenedAs(u, x)
  PROVE  KeptTypes
<1> USE DEF OpenedAs
<1>1. using'[u] = x /\ \A v \in Users : v # u => using'[v] = using[v]
  BY SafeFacts
<1>2. using' \in [Users -> Use]
  BY SafeFacts
<1>3. UseInv'
  BY <1>1, SafeFacts, ConstantsOK DEF Safe, UseInv, TokenInv
<1>4. TokenInv'
  BY <1>1, SafeFacts, ConstantsOK DEF Safe, TokenInv, UseInv
<1>5. HolderInv'
  BY <1>1, SafeFacts, ConstantsOK DEF Safe, HolderInv
<1> QED
  BY <1>2, <1>3, <1>4, <1>5, SafeFacts DEF KeptTypes

\* A request ends, with its new token stored on its source or without.
LEMMA EndOK ==
  ASSUME Safe, NEW u \in Users, EndUse(u), UNCHANGED <<honoured, issuedTokens>>,
         \/ tokens' = tokens
         \/ /\ using[u].source \in Sources /\ using[u].new # 0
            /\ sourceLock[using[u].source] \in {Nobody, u}
            /\ tokens' = [tokens EXCEPT ![using[u].source] = using[u].new]
  PROVE  KeptTypes
<1>1. using'[u] = NotUsing /\ \A v \in Users : v # u => using'[v] = using[v]
  BY SafeFacts DEF EndUse
<1>2. using' \in [Users -> Use]
  BY SafeFacts, NotUsingOK DEF EndUse
<1>3. /\ sourceLock' \in [Sources -> Users \union {Nobody}]
      /\ \A s \in Sources : sourceLock'[s] # Nobody => sourceLock'[s] = sourceLock[s] /\ sourceLock'[s] # u
  BY SafeFacts, ConstantsOK DEF EndUse
<1>4. UseInv'
  BY <1>1, SafeFacts, NotUsingOK, ConstantsOK DEF Safe, UseInv
<1>5. HolderInv'
  BY <1>1, <1>3, SafeFacts, ConstantsOK DEF Safe, HolderInv
<1>6. CASE tokens' = tokens
  <2>1. TokenInv'
    BY <1>1, <1>6, NotUsingOK DEF Safe, TokenInv
  <2> QED
    BY <1>2, <1>3, <1>4, <1>5, <1>6, <2>1, SafeFacts DEF KeptTypes
<1>7. CASE /\ using[u].source \in Sources /\ using[u].new # 0
           /\ tokens' = [tokens EXCEPT ![using[u].source] = using[u].new]
  <2>1. PICK s \in Sources, n \in 1..issuedTokens : s = using[u].source /\ n = using[u].new
    BY <1>7, SafeFacts, ConstantsOK
  <2>2. tokens'[s] = n /\ \A t \in Sources : t # s => tokens'[t] = tokens[t]
    BY <1>7, <2>1, SafeFacts
  <2>3. tokens' \in [Sources -> 0..Gone]
    BY <1>7, <2>1, SafeFacts, ConstantsOK
  <2>4. (\A t \in Sources : tokens[t] # n) /\ (\A v \in Users : using[v].read # n)
        /\ (\A v \in Users : v # u => using[v].new # n)
    BY <1>7, <2>1 DEF Safe, TokenInv, UseInv
  <2>5. TokenInv'
    <3>1. \A t \in Sources : tokens'[t] <= issuedTokens' \/ tokens'[t] = Gone
      BY <2>1, <2>2 DEF Safe, TokenInv
    <3>2. \A t, r \in Sources : tokens'[t] = tokens'[r] /\ tokens'[t] \notin {0, Gone} => t = r
      BY <2>2, <2>4 DEF Safe, TokenInv
    <3>3. \A t \in Sources, v \in Users :
            /\ using'[v].new # 0 => tokens'[t] # using'[v].new
            /\ using'[v].read # 0 /\ using'[v].read = tokens'[t] => using'[v].source = t
      BY <1>1, <2>2, <2>4, NotUsingOK DEF Safe, TokenInv
    <3> QED
      BY <3>1, <3>2, <3>3 DEF TokenInv
  <2> QED
    BY <1>2, <1>3, <1>4, <1>5, <2>3, <2>5, SafeFacts DEF KeptTypes
<1> QED
  BY <1>6, <1>7

\* The authorization server issues a token to the request u, which spends the one
\* it has read or none.
LEMMA IssueOK ==
  ASSUME Safe, NEW u \in Users, NEW spent, spent \subseteq {using[u].read},
         NEW step \in {"store", "flush"}, Issue(u, spent, step), using[u].new = 0,
         using[u].step # "none", step = "flush" => using[u].op \in Purposes,
         using[u].step # "call", UNCHANGED <<tokens, sourceLock>>
  PROVE  /\ KeptTypes /\ using'[u].step = step /\ using'[u].op = using[u].op
         /\ using'[u].source = using[u].source /\ using'[u].new # 0
         /\ \A v \in Users : v # u => using'[v] = using[v]
         /\ honoured \ spent \subseteq honoured'
<1> DEFINE n == issuedTokens + 1
           x == [using[u] EXCEPT !.new = n, !.step = step]
<1>a. issuedTokens' = n /\ honoured' = (honoured \ spent) \union {n} /\ issuedTokens < MaxIssued
  BY DEF Issue
<1>b. using' = [using EXCEPT ![u] = x]
  BY <1>a DEF Issue
<1>c. n \in 1..MaxIssued
  BY <1>a, SafeFacts, ConstantsOK
<1>1. /\ n \in 1..MaxIssued /\ issuedTokens' = n /\ honoured' = (honoured \ spent) \union {n}
      /\ using' = [using EXCEPT ![u] = x]
  BY <1>a, <1>b, <1>c
<1>n. issuedTokens < n
  BY SafeFacts, ConstantsOK
<1>d. n \in 0..MaxIssued
  BY <1>c, ConstantsOK
<1> HIDE DEF n
<1>2. /\ x \in Use /\ x.new = n /\ x.step = step /\ x.op = using[u].op
      /\ x.source = using[u].source /\ x.read = using[u].read
  BY <1>d, SafeFacts DEF Use
<1> HIDE DEF x
<1>3. /\ using' \in [Users -> Use] /\ using'[u] = x
      /\ \A v \in Users : v # u => using'[v] = using[v]
  BY <1>1, <1>2, SafeFacts
<1>o. \A v \in Users : using[v].new # n /\ using[v].read # n
  BY <1>1, <1>n, SafeFacts, ConstantsOK DEF Safe, UseInv
<1>t. \A s \in Sources : tokens[s] # n
  BY <1>1, <1>n, SafeFacts, ConstantsOK DEF Safe, TokenInv
<1>4. UseInv'
  <2>1. \A v \in Users : using[v].new # 0 => using[v].new \in honoured'
    BY <1>1 DEF Safe, UseInv
  <2>2. \A v \in Users : using'[v].read <= issuedTokens'
    BY <1>1, <1>2, <1>3, <1>n, SafeFacts, ConstantsOK DEF Safe, UseInv
  <2>3. ASSUME NEW v \in Users, using'[v].new # 0
        PROVE  /\ using'[v].new \in honoured'
               /\ \A w \in Users : using'[w].read # using'[v].new
               /\ \A w \in Users : w # v => using'[w].new # using'[v].new
    <3>1. \A w \in Users : using'[w].read = using[w].read
      BY <1>2, <1>3
    <3>2. CASE v = u
      BY <1>1, <1>2, <1>3, <1>o, <3>1, <3>2
    <3>3. CASE v # u
      BY <1>2, <1>3, <1>o, <2>1, <2>3, <3>1, <3>3 DEF Safe, UseInv
    <3> QED
      BY <3>2, <3>3
  <2>4. \A v \in Users :
          /\ using'[v].step \in {"store", "flush"} => using'[v].new # 0
          /\ using'[v].step # "none" => using'[v].source \in Sources
          /\ using'[v].step \in {"refresh", "flush", "call"} => using'[v].op \in Purposes
          /\ using'[v].step \in {"none", "discover", "post", "refresh"} => using'[v].new = 0
          /\ using'[v].step = "none" => using'[v] = NotUsing
    BY <1>1, <1>2, <1>3 DEF Safe, UseInv
  <2> QED
    BY <2>2, <2>3, <2>4 DEF UseInv
<1>5. TokenInv'
  <2>1. \A s \in Sources : tokens'[s] <= issuedTokens' \/ tokens'[s] = Gone
    BY <1>1, <1>n, SafeFacts, ConstantsOK DEF Safe, TokenInv
  <2> QED
    BY <1>2, <1>3, <1>t, <2>1 DEF Safe, TokenInv
<1>6. HolderInv'
  BY <1>3, SafeFacts, ConstantsOK DEF Safe, HolderInv
<1>7. honoured' \subseteq 1..issuedTokens'
  <2>1. \A i \in 1..issuedTokens : i \in 1..n
    BY <1>n, <1>c, SafeFacts, ConstantsOK
  <2>2. n \in 1..n
    BY <1>c, ConstantsOK
  <2> QED
    BY <1>1, <2>1, <2>2, SafeFacts
<1> QED
  BY <1>1, <1>2, <1>3, <1>4, <1>5, <1>6, <1>7, SafeFacts, ConstantsOK DEF KeptTypes

\* The request u writes the row of its source, and locks it.
LEMMA FlushOK ==
  ASSUME Safe, NEW u \in Users, FlushTokens(u)
  PROVE  /\ KeptTypes /\ \A v \in Users : v # u => using'[v] = using[v]
         /\ \A s \in Sources : Holds(u, s) => Holds(u, s)'
<1> DEFINE x == [using[u] EXCEPT !.step = "call"]
<1>0. using[u].step = "flush" /\ using[u].new # 0 /\ using[u].op \in Purposes
  BY DEF FlushTokens, Safe, UseInv
<1>1. PICK s \in Sources : s = using[u].source
  BY <1>0 DEF Safe, UseInv
<1>2. /\ sourceLock[s] = Nobody /\ tokens[s] # Gone
      /\ sourceLock' = [sourceLock EXCEPT ![s] = u] /\ using' = [using EXCEPT ![u] = x]
      /\ UNCHANGED <<tokens, honoured, issuedTokens>>
  BY <1>1 DEF FlushTokens, GoOn
<1>3. /\ x \in Use /\ x.new = using[u].new /\ x.step = "call" /\ x.op = using[u].op
      /\ x.source = s /\ x.read = using[u].read
  BY <1>1, SafeFacts DEF Use
<1> HIDE DEF x
<1>4. /\ using' \in [Users -> Use] /\ using'[u] = x
      /\ \A v \in Users : v # u => using'[v] = using[v]
  BY <1>2, <1>3, SafeFacts
<1>5. /\ sourceLock' \in [Sources -> Users \union {Nobody}] /\ sourceLock'[s] = u
      /\ \A t \in Sources : t # s => sourceLock'[t] = sourceLock[t]
  BY <1>2, SafeFacts
<1>6. UseInv'
  BY <1>0, <1>1, <1>2, <1>3, <1>4 DEF Safe, UseInv
<1>7. TokenInv'
  BY <1>1, <1>2, <1>3, <1>4 DEF Safe, TokenInv
<1>8. HolderInv'
  BY <1>0, <1>3, <1>4, <1>5, SafeFacts DEF Safe, HolderInv
<1>9. \A t \in Sources : Holds(u, t) => Holds(u, t)'
  BY <1>0, <1>1, <1>3, <1>4, <1>5 DEF Holds
<1> QED
  BY <1>2, <1>4, <1>5, <1>6, <1>7, <1>8, <1>9, SafeFacts DEF KeptTypes

\* Steps of u that take a token from no source without leaving it another.
LEMMA SuccessorOK ==
  ASSUME Safe, SuccessorInv, NEW u \in Users, losses' = losses,
         \A v \in Users : v # u => using'[v] = using[v],
         \A s \in Sources : sourceLock'[s] = sourceLock[s] \/ sourceLock[s] \in {u, Nobody},
         \A s \in stranded : s \in stranded' \/ tokens'[s] \in {0, Gone} \union honoured',
         \A s \in Sources :
            \/ tokens'[s] \in {0, Gone} \union honoured' \/ s \in stranded'
            \/ /\ tokens'[s] = tokens[s]
               /\ tokens[s] \in honoured => tokens[s] \in honoured' \/ Holds(u, s)'
               /\ Holds(u, s) => Holds(u, s)'
  PROVE  SuccessorInv'
<1> SUFFICES ASSUME losses = 0, NEW s \in Sources, tokens'[s] \notin {0, Gone},
                    tokens'[s] \notin honoured', s \notin stranded'
             PROVE  \E v \in Users : Holds(v, s)'
  BY DEF SuccessorInv, Gone
<1>1. /\ tokens'[s] = tokens[s] /\ (Holds(u, s) => Holds(u, s)') /\ s \notin stranded
      /\ tokens[s] \in honoured => Holds(u, s)'
  OBVIOUS
<1>2. CASE tokens[s] \in honoured
  BY <1>1, <1>2
<1>3. CASE tokens[s] \notin honoured
  <2>1. PICK v \in Users : Holds(v, s)
    BY <1>1, <1>3 DEF SuccessorInv
  <2>2. CASE v = u
    BY <1>1, <2>1, <2>2
  <2>3. CASE v # u
    BY <2>1, <2>3, ConstantsOK DEF Holds
  <2> QED
    BY <2>2, <2>3
<1> QED
  BY <1>2, <1>3

-----------------------------------------------------------------------------
(* Every step.                                                             *)

\* The variables whose types no other part of the invariant needs.
Rest ==
    /\ expired \subseteq Sources /\ openFlows \in [Flows -> Sources \union {Nobody}]
    /\ uses \in 0..MaxUses /\ losses \in 0..MaxLosses /\ stranded \subseteq Sources

LEMMA SafeBy ==
  ASSUME KeptTypes, Rest'
  PROVE  Safe'
<1>1. \A s \in Sources : sourceLock'[s] # Nobody => using'[sourceLock'[s]].source = s
  BY DEF KeptTypes, HolderInv
<1>2. SourcesTypeOK'
  BY <1>1, ConstantsOK DEF KeptTypes, Rest, SourcesTypeOK, Use
<1> QED
  BY <1>2 DEF KeptTypes, Safe

LEMMA RestFacts == Safe => Rest
  BY DEF Safe, SourcesTypeOK, Rest

LEMMA FlowOpenedOK ==
  ASSUME Safe, NEW u \in Users, Opened(u)
  PROVE  KeptTypes /\ (SuccessorInv => SuccessorInv')
<1>0. PICK x \in Use : OpenedAs(u, x)
  BY DEF Opened
<1>1. /\ using' = [using EXCEPT ![u] = x] /\ using[u].new = 0
      /\ UNCHANGED <<tokens, issuedTokens, sourceLock, stranded>>
      /\ (honoured' = honoured /\ losses' = losses) \/ losses' # 0
  BY <1>0 DEF OpenedAs
<1>2. KeptTypes
  BY <1>0, OpenOK
<1>3. CASE losses' # 0
  BY <1>2, <1>3 DEF SuccessorInv
<1>4. CASE honoured' = honoured /\ losses' = losses
  <2>1. \A v \in Users : v # u => using'[v] = using[v]
    BY <1>1, SafeFacts
  <2>2. \A s \in Sources : ~Holds(u, s)
    BY <1>1 DEF Holds
  <2> QED
    BY <1>1, <1>2, <1>4, <2>1, <2>2, SuccessorOK
<1> QED
  BY <1>1, <1>2, <1>3, <1>4

\* A request that ends.
LEMMA EndedOK ==
  ASSUME Safe, NEW u \in Users, EndUse(u), UNCHANGED <<honoured, issuedTokens>>,
         \/ tokens' = tokens
         \/ /\ using[u].source \in Sources /\ using[u].new # 0
            /\ sourceLock[using[u].source] \in {Nobody, u}
            /\ tokens' = [tokens EXCEPT ![using[u].source] = using[u].new],
         \/ losses' # 0
         \/ losses' = losses /\ \A s \in Sources :
                Holds(u, s) => \/ tokens[s] = Gone \/ s \in stranded'
                               \/ tokens'[s] = using[u].new,
         \A s \in stranded : \/ s \in stranded'
                             \/ using[u].new # 0 /\ tokens'[s] = using[u].new
  PROVE  KeptTypes /\ (SuccessorInv => SuccessorInv')
<1>1. KeptTypes
  BY EndOK
<1>2. CASE losses' # 0
  BY <1>1, <1>2 DEF SuccessorInv
<1>3. CASE losses' = losses /\ \A s \in Sources :
             Holds(u, s) => tokens[s] = Gone \/ s \in stranded' \/ tokens'[s] = using[u].new
  <2>1. \A v \in Users : v # u => using'[v] = using[v]
    BY SafeFacts DEF EndUse
  <2>2. \A s \in Sources : sourceLock'[s] = sourceLock[s] \/ sourceLock[s] \in {u, Nobody}
    BY DEF EndUse
  <2>3. using[u].new # 0 => using[u].new \in honoured'
    BY DEF Safe, UseInv
  <2>4. ASSUME NEW s \in Sources
        PROVE  \/ tokens'[s] \in {0, Gone} \union honoured' \/ s \in stranded'
               \/ /\ tokens'[s] = tokens[s]
                  /\ tokens[s] \in honoured => tokens[s] \in honoured' \/ Holds(u, s)'
                  /\ Holds(u, s) => Holds(u, s)'
    <3>1. CASE tokens'[s] = tokens[s]
      <4>1. Holds(u, s) => tokens'[s] \in {Gone} \union honoured' \/ s \in stranded'
        BY <1>3, <2>3, <3>1 DEF Holds
      <4> QED
        BY <3>1, <4>1
    <3>2. CASE tokens'[s] # tokens[s]
      <4>1. tokens'[s] = using[u].new /\ using[u].new # 0
        BY <3>2, SafeFacts
      <4> QED
        BY <2>3, <4>1
    <3> QED
      BY <3>1, <3>2
  <2>5. \A s \in stranded : s \in stranded' \/ tokens'[s] \in {0, Gone} \union honoured'
    BY <2>3
  <2> QED
    BY <1>1, <1>3, <2>1, <2>2, <2>4, <2>5, SuccessorOK
<1> QED
  BY <1>1, <1>2, <1>3

\* A handler commits: the row of its source gets the new token, or nothing was
\* written.
LEMMA CommitOK ==
  ASSUME Safe, NEW u \in Users, using[u].step = "call", CommitTokens(u)
  PROVE  /\ expired' \subseteq Sources /\ stranded' \subseteq Sources
         /\ \A s \in stranded : \/ s \in stranded'
                                \/ using[u].new # 0 /\ tokens'[s] = using[u].new
         /\ \/ tokens' = tokens
            \/ /\ using[u].source \in Sources /\ using[u].new # 0
               /\ sourceLock[using[u].source] \in {Nobody, u}
               /\ tokens' = [tokens EXCEPT ![using[u].source] = using[u].new]
         /\ \A s \in Sources : Holds(u, s) => tokens'[s] = using[u].new
<1>1. using[u].source \in Sources
  BY DEF Safe, UseInv
<1>2. CASE sourceLock[using[u].source] = u
  <2>1. tokens' = [tokens EXCEPT ![using[u].source] = using[u].new]
        /\ expired' = expired \ {using[u].source} /\ stranded' = stranded \ {using[u].source}
    BY <1>2 DEF CommitTokens
  <2>2. using[u].new # 0
    BY <1>1, <1>2, ConstantsOK DEF Safe, HolderInv
  <2> QED
    BY <1>1, <1>2, <2>1, <2>2, SafeFacts, RestFacts DEF Rest, Holds
<1>3. CASE sourceLock[using[u].source] # u
  <2>1. tokens' = tokens /\ expired' = expired /\ stranded' = stranded
    BY <1>3 DEF CommitTokens
  <2> QED
    BY <1>1, <1>3, <2>1, RestFacts DEF Rest, Holds
<1> QED
  BY <1>2, <1>3

-----------------------------------------------------------------------------
(* The steps of a request.                                                 *)

LEMMA UsesOK ==
  ASSUME Safe, NEW u, NEW rec, BeginUse(u, rec)
  PROVE  uses' \in 0..MaxUses
  BY RestFacts, ConstantsOK DEF Rest, BeginUse

LEMMA OpenStep ==
  ASSUME Safe, NEW u \in Users,
         \/ \E s \in Sources : OauthStart(u, s)
         \/ \E f \in Flows : ExchangeCode(u, f)
         \/ \E s \in Sources, purpose \in Purposes : UseSource(u, s, purpose)
         \/ RefreshRefused(u) \/ RefreshLost(u)
  PROVE  Opened(u) /\ Rest'
<1>1. ASSUME NEW s \in Sources, OauthStart(u, s)
      PROVE  Opened(u) /\ Rest'
  <2> DEFINE x == [NotUsing EXCEPT !.op = "flow", !.step = "discover", !.source = s]
  <2>1. x \in Use /\ x.new = 0 /\ x.step = "discover" /\ x.source = s /\ x.read = 0
    BY NotUsingOK DEF Use
  <2>2. using' = [using EXCEPT ![u] = x] /\ using[u] = NotUsing
    BY <1>1 DEF OauthStart, BeginUse
  <2> HIDE DEF x
  <2>3. Opened(u)
    BY <1>1, <2>1, <2>2, NotUsingOK DEF Opened, OpenedAs, OauthStart
  <2> QED
    BY <1>1, <2>3, UsesOK, RestFacts DEF Rest, OauthStart
<1>2. ASSUME NEW f \in Flows, ExchangeCode(u, f)
      PROVE  Opened(u) /\ Rest'
  <2>1. PICK s \in Sources : s = openFlows[f]
    BY <1>2, RestFacts DEF Rest, ExchangeCode
  <2> DEFINE x == [NotUsing EXCEPT !.op = "exchange", !.step = "post", !.source = s]
  <2>2. x \in Use /\ x.new = 0 /\ x.step = "post" /\ x.source = s /\ x.read = 0
    BY NotUsingOK DEF Use
  <2>3. using' = [using EXCEPT ![u] = x] /\ using[u] = NotUsing
    BY <1>2, <2>1 DEF ExchangeCode, BeginUse
  <2> HIDE DEF x
  <2>4. Opened(u)
    BY <1>2, <2>2, <2>3, NotUsingOK DEF Opened, OpenedAs, ExchangeCode
  <2> QED
    BY <1>2, <2>4, UsesOK, RestFacts DEF Rest, ExchangeCode
<1>3. ASSUME NEW s \in Sources, NEW purpose \in Purposes, UseSource(u, s, purpose)
      PROVE  Opened(u) /\ Rest'
  <2> DEFINE x == [op |-> purpose, source |-> s, read |-> tokens[s], new |-> 0,
                   step |-> IF tokens[s] # 0 /\ s \in expired THEN "refresh" ELSE "call"]
  <2>1. tokens[s] \in 0..MaxIssued /\ tokens[s] # Gone
    BY <1>3, SafeFacts, ConstantsOK DEF UseSource
  <2>2. /\ x \in Use /\ x.new = 0 /\ x.step \in {"refresh", "call"} /\ x.source = s
        /\ x.op = purpose /\ x.read = tokens[s]
    BY <2>1, ConstantsOK DEF Use
  <2>3. using' = [using EXCEPT ![u] = x] /\ using[u] = NotUsing
    BY <1>3 DEF UseSource, BeginUse
  <2> HIDE DEF x
  <2>4. Opened(u)
    BY <1>3, <2>1, <2>2, <2>3, NotUsingOK DEF Opened, OpenedAs, UseSource
  <2> QED
    BY <1>3, <2>4, UsesOK, RestFacts DEF Rest, UseSource
<1>4. ASSUME RefreshRefused(u) \/ RefreshLost(u)
      PROVE  Opened(u) /\ Rest'
  <2> DEFINE x == [using[u] EXCEPT !.step = "call"]
  <2>1. /\ x \in Use /\ x.new = using[u].new /\ x.step = "call" /\ x.op = using[u].op
        /\ x.source = using[u].source /\ x.read = using[u].read
    BY SafeFacts DEF Use
  <2>2. using' = [using EXCEPT ![u] = x] /\ using[u].step = "refresh"
    BY <1>4 DEF RefreshRefused, RefreshLost, GoOn
  <2> HIDE DEF x
  <2>3. using[u].new = 0 /\ using[u].op \in Purposes /\ using[u].source \in Sources
    BY <2>2 DEF Safe, UseInv
  <2>4. RefreshLost(u) => losses' # 0
    BY RestFacts, ConstantsOK DEF RefreshLost, Rest
  <2>5. Opened(u)
    BY <1>4, <2>1, <2>2, <2>3, <2>4 DEF Opened, OpenedAs, RefreshRefused, RefreshLost
  <2> QED
    BY <1>4, <2>5, RestFacts, ConstantsOK DEF Rest, RefreshRefused, RefreshLost
<1> QED
  BY <1>1, <1>2, <1>3, <1>4

LEMMA IssueStep ==
  ASSUME Safe, NEW u \in Users, CodeAccepted(u) \/ RefreshAnswered(u)
  PROVE  KeptTypes /\ Rest' /\ (AlwaysKept /\ SuccessorInv => SuccessorInv')
<1>1. CASE CodeAccepted(u)
  <2>1. /\ Issue(u, {}, "store") /\ using[u].step = "post"
        /\ UNCHANGED <<tokens, expired, openFlows, sourceLock, uses, losses, exchanged, stranded>>
    BY <1>1 DEF CodeAccepted, On
  <2>2. using[u].new = 0
    BY <2>1 DEF Safe, UseInv
  <2>3. /\ KeptTypes /\ honoured \subseteq honoured'
        /\ \A v \in Users : v # u => using'[v] = using[v]
    BY <2>1, <2>2, IssueOK
  <2>4. \A s \in Sources : ~Holds(u, s)
    BY <2>2 DEF Holds
  <2>5. SuccessorInv => SuccessorInv'
    BY <2>1, <2>3, <2>4, SuccessorOK
  <2> QED
    BY <2>1, <2>3, <2>5, RestFacts DEF Rest
<1>2. CASE RefreshAnswered(u)
  <2>1. /\ Issue(u, {using[u].read}, "flush") /\ using[u].step = "refresh"
        /\ UNCHANGED <<tokens, expired, openFlows, sourceLock, uses, losses, exchanged, stranded>>
        /\ using[u].read \in honoured
    BY <1>2 DEF RefreshAnswered
  <2>2. using[u].new = 0 /\ using[u].op \in Purposes
    BY <2>1 DEF Safe, UseInv
  <2>3. /\ KeptTypes /\ using'[u].step = "flush" /\ using'[u].op = using[u].op
        /\ using'[u].source = using[u].source /\ using'[u].new # 0
        /\ \A v \in Users : v # u => using'[v] = using[v]
        /\ honoured \ {using[u].read} \subseteq honoured'
    BY <2>1, <2>2, IssueOK
  <2>4. \A s \in Sources : ~Holds(u, s)
    BY <2>2 DEF Holds
  <2>5. using[u].read # 0
    BY <2>1, SafeFacts
  <2>6. ASSUME AlwaysKept, NEW s \in Sources, tokens[s] \in honoured
        PROVE  tokens[s] \in honoured' \/ Holds(u, s)'
    <3>1. CASE tokens[s] = using[u].read
      <4>1. using[u].source = s
        BY <2>5, <3>1 DEF Safe, TokenInv
      <4> QED
        BY <2>2, <2>3, <2>6, <4>1 DEF Holds, Keeps, AlwaysKept
    <3>2. CASE tokens[s] # using[u].read
      BY <2>3, <2>6, <3>2
    <3> QED
      BY <3>1, <3>2
  <2>7. AlwaysKept /\ SuccessorInv => SuccessorInv'
    BY <2>1, <2>3, <2>4, <2>6, SuccessorOK
  <2> QED
    BY <2>1, <2>3, <2>7, RestFacts DEF Rest
<1> QED
  BY <1>1, <1>2

LEMMA GrantFlushStep ==
  ASSUME Safe, NEW u \in Users, FlushTokens(u)
  PROVE  KeptTypes /\ Rest' /\ (SuccessorInv => SuccessorInv')
<1>1. /\ KeptTypes /\ \A v \in Users : v # u => using'[v] = using[v]
      /\ \A s \in Sources : Holds(u, s) => Holds(u, s)'
  BY FlushOK
<1>2. UNCHANGED <<tokens, expired, honoured, openFlows, issuedTokens, uses, losses, stranded>>
  BY DEF FlushTokens
<1>3. \A s \in Sources : sourceLock'[s] = sourceLock[s] \/ sourceLock[s] \in {u, Nobody}
  BY SafeFacts DEF FlushTokens
<1>4. SuccessorInv => SuccessorInv'
  BY <1>1, <1>2, <1>3, SuccessorOK
<1> QED
  BY <1>1, <1>2, <1>4, RestFacts DEF Rest

LEMMA EndStep ==
  ASSUME Safe, NEW u \in Users,
         \/ \E f \in Flows : StoreFlow(u, f)
         \/ DiscoveryFails(u) \/ CodeRefused(u) \/ StoreTokens(u) \/ SourceGone(u)
         \/ FlushGone(u) \/ CallWorks(u) \/ AnswerMalformed(u) \/ CallFails(u) \/ RollBack(u)
  PROVE  KeptTypes /\ Rest' /\ (SuccessorInv => SuccessorInv')
<1>0. EndUse(u) /\ honoured' = honoured /\ issuedTokens' = issuedTokens
  BY DEF StoreFlow, DiscoveryFails, CodeRefused, StoreTokens, SourceGone, FlushGone,
         CallWorks, AnswerMalformed, CallFails, RollBack
<1>1. ASSUME NEW f \in Flows, StoreFlow(u, f)
      PROVE  KeptTypes /\ Rest' /\ (SuccessorInv => SuccessorInv')
  <2>1. using[u].step = "discover" /\ UNCHANGED <<tokens, losses, stranded>>
    BY <1>1 DEF StoreFlow, On
  <2>2. \A s \in Sources : ~Holds(u, s)
    BY <2>1 DEF Holds
  <2>3. using[u].source \in Sources
    BY <2>1 DEF Safe, UseInv
  <2>4. Rest'
    BY <1>1, <2>3, RestFacts DEF StoreFlow, Rest
  <2> QED
    BY <1>0, <2>1, <2>2, <2>4, EndedOK
<1>2. ASSUME DiscoveryFails(u) \/ CodeRefused(u)
      PROVE  KeptTypes /\ Rest' /\ (SuccessorInv => SuccessorInv')
  <2>1. using[u].step \in {"discover", "post"} /\ UNCHANGED <<tokens, losses, stranded>>
    BY <1>2 DEF DiscoveryFails, CodeRefused, On
  <2>2. \A s \in Sources : ~Holds(u, s)
    BY <2>1 DEF Holds
  <2>3. Rest'
    BY <1>2, RestFacts DEF DiscoveryFails, CodeRefused, Rest
  <2> QED
    BY <1>0, <2>1, <2>2, <2>3, EndedOK
<1>3. ASSUME StoreTokens(u)
      PROVE  KeptTypes /\ Rest' /\ (SuccessorInv => SuccessorInv')
  <2>1. /\ using[u].step = "store" /\ sourceLock[using[u].source] = Nobody
        /\ tokens' = [tokens EXCEPT ![using[u].source] = using[u].new]
        /\ expired' = expired \ {using[u].source} /\ losses' = losses
        /\ openFlows' = openFlows /\ uses' = uses /\ stranded' = stranded \ {using[u].source}
    BY <1>3 DEF StoreTokens, On
  <2>2. \A s \in Sources : ~Holds(u, s)
    BY <2>1 DEF Holds
  <2>3. using[u].new # 0 /\ using[u].source \in Sources
    BY <2>1 DEF Safe, UseInv
  <2>4. Rest'
    BY <2>1, RestFacts DEF Rest
  <2>5. \A s \in stranded : s \in stranded' \/ tokens'[s] = using[u].new
    BY <2>1, <2>3, SafeFacts
  <2> QED
    BY <1>0, <2>1, <2>2, <2>3, <2>4, <2>5, EndedOK
<1>4. ASSUME SourceGone(u) \/ FlushGone(u)
      PROVE  KeptTypes /\ Rest' /\ (SuccessorInv => SuccessorInv')
  <2>1. tokens[using[u].source] = Gone /\ UNCHANGED <<tokens, losses, stranded>>
    BY <1>4 DEF SourceGone, FlushGone
  <2>2. \A s \in Sources : Holds(u, s) => tokens[s] = Gone
    BY <2>1 DEF Holds
  <2>3. Rest'
    BY <1>4, RestFacts DEF SourceGone, FlushGone, Rest
  <2> QED
    BY <1>0, <2>1, <2>2, <2>3, EndedOK
<1>5. ASSUME CallWorks(u) \/ (CallFails(u) /\ Keeps(using[u].op))
      PROVE  KeptTypes /\ Rest' /\ (SuccessorInv => SuccessorInv')
  <2>1. using[u].step = "call" /\ CommitTokens(u) /\ losses' = losses
        /\ openFlows' = openFlows /\ uses' = uses
    BY <1>5 DEF CallWorks, CallFails
  <2>2. Rest'
    BY <2>1, CommitOK, RestFacts DEF Rest
  <2> QED
    BY <1>0, <2>1, <2>2, CommitOK, EndedOK
<1>6. ASSUME CallFails(u) /\ ~Keeps(using[u].op)
      PROVE  KeptTypes /\ Rest' /\ (SuccessorInv => SuccessorInv')
  <2>1. UNCHANGED <<tokens, losses, stranded>>
    BY <1>6 DEF CallFails
  <2>2. \A s \in Sources : ~Holds(u, s)
    BY <1>6 DEF Holds
  <2>3. Rest'
    BY <1>6, RestFacts DEF CallFails, Rest
  <2> QED
    BY <1>0, <2>1, <2>2, <2>3, EndedOK
<1>7. ASSUME RollBack(u)
      PROVE  KeptTypes /\ Rest' /\ (SuccessorInv => SuccessorInv')
  <2>1. tokens' = tokens /\ losses' # 0 /\ stranded' = stranded
    BY <1>7, RestFacts, ConstantsOK DEF RollBack, Rest
  <2>2. Rest'
    BY <1>7, RestFacts, ConstantsOK DEF RollBack, Rest
  <2> QED
    BY <1>0, <2>1, <2>2, EndedOK
<1>8. ASSUME AnswerMalformed(u)
      PROVE  KeptTypes /\ Rest' /\ (SuccessorInv => SuccessorInv')
  <2>1. /\ using[u].step = "call" /\ UNCHANGED <<tokens, losses>>
        /\ stranded' = stranded \union {s \in Sources : sourceLock[s] = u}
    BY <1>8 DEF AnswerMalformed, On
  <2>2. \A s \in Sources : Holds(u, s) => s \in stranded'
    BY <2>1 DEF Holds
  <2>3. Rest'
    BY <1>8, <2>1, RestFacts DEF AnswerMalformed, Rest
  <2> QED
    BY <1>0, <2>1, <2>2, <2>3, EndedOK
<1> QED
  BY <1>1, <1>2, <1>3, <1>4, <1>5, <1>6, <1>7, <1>8

LEMMA UserStepOK ==
  ASSUME Safe, NEW u \in Users, UserStep(u)
  PROVE  Safe' /\ (AlwaysKept /\ SuccessorInv => SuccessorInv')
<1>1. CASE \/ \E s \in Sources : OauthStart(u, s)
           \/ \E f \in Flows : ExchangeCode(u, f)
           \/ \E s \in Sources, purpose \in Purposes : UseSource(u, s, purpose)
           \/ RefreshRefused(u) \/ RefreshLost(u)
  BY <1>1, OpenStep, FlowOpenedOK, SafeBy
<1>2. CASE CodeAccepted(u) \/ RefreshAnswered(u)
  BY <1>2, IssueStep, SafeBy
<1>3. CASE FlushTokens(u)
  BY <1>3, GrantFlushStep, SafeBy
<1>4. CASE \/ \E f \in Flows : StoreFlow(u, f)
           \/ DiscoveryFails(u) \/ CodeRefused(u) \/ StoreTokens(u) \/ SourceGone(u)
           \/ FlushGone(u) \/ CallWorks(u) \/ AnswerMalformed(u) \/ CallFails(u) \/ RollBack(u)
  BY <1>4, EndStep, SafeBy
<1> QED
  BY <1>1, <1>2, <1>3, <1>4 DEF UserStep

-----------------------------------------------------------------------------
(* The other steps.                                                        *)

LEMMA FlowExpiresOK ==
  ASSUME Safe, NEW f \in Flows, FlowExpires(f)
  PROVE  Safe' /\ (SuccessorInv => SuccessorInv')
<1>1. /\ UNCHANGED <<tokens, expired, honoured, sourceLock, using, issuedTokens, uses, losses,
                     stranded>>
      /\ openFlows' = [openFlows EXCEPT ![f] = Nobody]
  BY DEF FlowExpires
<1>2. SourcesTypeOK' /\ UseInv' /\ TokenInv' /\ HolderInv'
  BY <1>1 DEF Safe, SourcesTypeOK, UseInv, TokenInv, HolderInv
<1> QED
  BY <1>1, <1>2 DEF Safe, SuccessorInv, Holds

LEMMA DeleteSourceOK ==
  ASSUME Safe, NEW s \in Sources, DeleteSource(s)
  PROVE  Safe' /\ (SuccessorInv => SuccessorInv')
<1>1. /\ UNCHANGED <<honoured, openFlows, sourceLock, using, issuedTokens, uses, losses, stranded>>
      /\ tokens' = [tokens EXCEPT ![s] = Gone] /\ expired' = expired \ {s}
  BY DEF DeleteSource
<1>2. tokens'[s] = Gone /\ \A t \in Sources : t # s => tokens'[t] = tokens[t]
  BY <1>1, SafeFacts
<1>3. SourcesTypeOK'
  BY <1>1, ConstantsOK DEF Safe, SourcesTypeOK
<1>4. UseInv' /\ HolderInv'
  BY <1>1 DEF Safe, UseInv, HolderInv
<1>5. TokenInv'
  BY <1>1, <1>2, SafeFacts, ConstantsOK DEF Safe, TokenInv
<1>6. SuccessorInv => SuccessorInv'
  BY <1>1, <1>2 DEF SuccessorInv, Holds, Gone
<1> QED
  BY <1>3, <1>4, <1>5, <1>6 DEF Safe

LEMMA AccessExpiresOK ==
  ASSUME Safe, NEW s \in Sources, AccessExpires(s)
  PROVE  Safe' /\ (SuccessorInv => SuccessorInv')
<1>1. /\ UNCHANGED <<tokens, honoured, openFlows, sourceLock, using, issuedTokens, uses, losses,
                     stranded>>
      /\ expired' = expired \union {s}
  BY DEF AccessExpires
<1>2. SourcesTypeOK' /\ UseInv' /\ TokenInv' /\ HolderInv'
  BY <1>1 DEF Safe, SourcesTypeOK, UseInv, TokenInv, HolderInv
<1> QED
  BY <1>1, <1>2 DEF Safe, SuccessorInv, Holds

LEMMA RestartBackendOK ==
  ASSUME Safe, RestartBackend
  PROVE  Safe' /\ (SuccessorInv => SuccessorInv')
<1>1. /\ losses' = losses + 1 /\ losses < MaxLosses
      /\ openFlows' = [f \in Flows |-> Nobody] /\ using' = [u \in Users |-> NotUsing]
      /\ sourceLock' = [s \in Sources |-> Nobody]
      /\ UNCHANGED <<tokens, expired, honoured, issuedTokens, uses, stranded>>
  BY DEF RestartBackend
<1>2. losses \in 0..MaxLosses /\ losses' \in 0..MaxLosses /\ losses' # 0
  BY <1>1, RestFacts, ConstantsOK DEF Rest
<1>3. SourcesTypeOK'
  BY <1>1, <1>2, NotUsingOK, ConstantsOK DEF Safe, SourcesTypeOK, Use
<1>4. UseInv' /\ HolderInv' /\ TokenInv'
  BY <1>1, NotUsingOK, SafeFacts, ConstantsOK DEF Safe, UseInv, HolderInv, TokenInv
<1> QED
  BY <1>2, <1>3, <1>4 DEF Safe, SuccessorInv

LEMMA SourcesStepOK ==
  ASSUME Safe, [SourcesNext]_sourceVars
  PROVE  Safe' /\ (AlwaysKept /\ SuccessorInv => SuccessorInv')
<1>1. CASE UNCHANGED sourceVars
  <2>1. SourcesTypeOK' /\ UseInv' /\ TokenInv' /\ HolderInv'
    BY <1>1 DEF sourceVars, Safe, SourcesTypeOK, UseInv, TokenInv, HolderInv
  <2> QED
    BY <1>1, <2>1 DEF sourceVars, Safe, SuccessorInv, Holds
<1> QED
  BY <1>1, UserStepOK, FlowExpiresOK, DeleteSourceOK, AccessExpiresOK, RestartBackendOK
     DEF SourcesNext

\* A flow leaves the pending ones when its state is accepted, and does not come back.
LEMMA FlowStepOK ==
  ASSUME Rest, FlowInv, exchanged \in [Flows -> Nat], [SourcesNext]_sourceVars
  PROVE  FlowInv' /\ exchanged' \in [Flows -> Nat]
<1>1. CASE openFlows' = openFlows /\ exchanged' = exchanged
  BY <1>1 DEF FlowInv
<1>2. ASSUME NEW u \in Users, NEW f \in Flows, StoreFlow(u, f)
      PROVE  FlowInv' /\ exchanged' \in [Flows -> Nat]
  BY <1>2 DEF StoreFlow, FlowInv, Rest
<1>3. ASSUME NEW u \in Users, NEW f \in Flows, ExchangeCode(u, f)
      PROVE  FlowInv' /\ exchanged' \in [Flows -> Nat]
  BY <1>3 DEF ExchangeCode, FlowInv, Rest
<1>4. ASSUME NEW f \in Flows, FlowExpires(f)
      PROVE  FlowInv' /\ exchanged' \in [Flows -> Nat]
  BY <1>4 DEF FlowExpires, FlowInv, Rest
<1>5. CASE RestartBackend
  BY <1>5 DEF RestartBackend, FlowInv
<1> QED
  BY <1>1, <1>2, <1>3, <1>4, <1>5
     DEF SourcesNext, UserStep, sourceVars, OauthStart, DiscoveryFails, CodeAccepted,
         CodeRefused, StoreTokens, SourceGone, UseSource, RefreshAnswered, RefreshRefused,
         RefreshLost, FlushTokens, FlushGone, CallWorks, AnswerMalformed, CallFails, RollBack,
         DeleteSource, AccessExpires

\* The rows of the sources, the flows, the requests and the tokens have their
\* types, whoever uses a source.
THEOREM SourcesTypeCorrect == SourcesSpec => []SourcesTypeOK
<1>1. Safe /\ [SourcesNext]_sourceVars => Safe'
  BY SourcesStepOK
<1>2. SourcesInit => Safe
  BY SourcesInitOK
<1>3. Safe => SourcesTypeOK
  BY DEF Safe
<1> QED
  BY <1>1, <1>2, <1>3, PTL DEF SourcesSpec

(* The state of an OAuth flow is accepted at most once and, when every     *)
(* handler that uses a source commits what it refreshed also when the call *)
(* fails, the stored refresh token is one the authorization server honours *)
(* whenever nobody is at work and nothing was lost, but for the sources    *)
(* whose refreshed tokens a badly described tool rolled back: for any      *)
(* number of requests that refresh, exchange and delete at the same time.  *)
THEOREM GrantCorrect ==
  Purposes \subseteq {"discover", "health"} => (SourcesSpec => []GrantKept)
<1> SUFFICES ASSUME Purposes \subseteq {"discover", "health"}
             PROVE  SourcesSpec => []GrantKept
  OBVIOUS
<1> DEFINE Inv == Safe /\ SuccessorInv /\ FlowInv /\ exchanged \in [Flows -> Nat]
<1>1. SourcesInit => Inv
  BY SourcesInitOK DEF SourcesInit
<1>2. Inv /\ [SourcesNext]_sourceVars => Inv'
  BY SourcesStepOK, FlowStepOK, RestFacts DEF AlwaysKept
<1>3. Inv => GrantKept
  <2> SUFFICES ASSUME Inv PROVE GrantKept
    OBVIOUS
  <2>1. \A f \in Flows : exchanged[f] <= 1
    BY DEF FlowInv
  <2>2. ASSUME losses = 0, \A u \in Users : using[u] = NotUsing, NEW s \in Sources \ stranded,
               tokens[s] \notin {0, Gone}
        PROVE  tokens[s] \in honoured
    BY <2>2, NotUsingOK DEF SuccessorInv, Holds
  <2> QED
    BY <2>1, <2>2 DEF GrantKept
<1> QED
  BY <1>1, <1>2, <1>3, PTL DEF SourcesSpec
=============================================================================

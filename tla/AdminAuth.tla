----------------------------- MODULE AdminAuth -----------------------------
(***************************************************************************)
(* The admin's sessions: backend/app/api/auth.py, services/auth.py and the *)
(* middleware of middleware/admin_auth.py.                                 *)
(*                                                                         *)
(* A login or a refresh issues an access and a refresh token that carry    *)
(* the user's password version.  A token is refused once it has expired,   *)
(* once it was logged out (a table of blacklisted tokens, and a copy of it *)
(* in the memory of the middleware), or once the password version has      *)
(* moved on.  Requests overlap: what one read, another may have changed by *)
(* the time it writes.  Tokens are numbered in the order they are issued.  *)
(*                                                                         *)
(* The backend runs several worker processes (backend/Dockerfile), each    *)
(* with a middleware of its own; which of them has a request matters only  *)
(* when it logs out.                                                       *)
(***************************************************************************)
EXTENDS Naturals, Sequences, FiniteSets

CONSTANTS AdminRequests,    \* the HTTP requests that can be open together
          WorkerProcesses,  \* the processes of the backend
          MaxTokens,        \* bound: the tokens ever issued
          MaxPasswords,     \* bound: the password versions reached
          MaxRestarts       \* bound: the restarts of the backend

ASSUME AdminConstantsOK ==
    /\ {MaxTokens, MaxRestarts} \subseteq Nat /\ MaxPasswords \in Nat \ {0}

VARIABLES user,       \* the row of admin_users: NoUser or its password_version
          issued,     \* the tokens issued so far
          blacklist,  \* the rows of token_blacklist
          memory,     \* memory[p]: _blacklisted_jtis of the middleware of p
          doing,      \* what each request is doing
          restarts,   \* the restarts so far
          out,        \* history: the live tokens whose logout was answered
          outHere,    \* history: outHere[p]: those p answered since its last restart
          cut,        \* history: the tokens of before the last answered change
          late,       \* history: the requests that read the user before it
          overwritten  \* history: a change wrote over one it had not read

adminVars == <<user, issued, blacklist, memory, doing, restarts,
               out, outHere, cut, late, overwritten>>

NoUser == 0
Tokens == DOMAIN issued
Outlived == {t \in Tokens : ~issued[t].live}
NoAdminRequest == [op |-> "none", step |-> "none", token |-> 0, other |-> 0, version |-> NoUser]

AdminInit ==
    /\ user = NoUser /\ issued = <<>> /\ blacklist = {}
    /\ memory = [p \in WorkerProcesses |-> {}]
    /\ restarts = 0 /\ out = {} /\ cut = {} /\ late = {} /\ overwritten = FALSE
    /\ outHere = [p \in WorkerProcesses |-> {}]
    /\ doing = [r \in AdminRequests |-> NoAdminRequest]

Free(r) == doing[r] = NoAdminRequest
At(r, op, step) == doing[r].op = op /\ doing[r].step = step
AdminDoes(r, rec) == doing' = [doing EXCEPT ![r] = rec]
AdminAnswer(r) == AdminDoes(r, NoAdminRequest) /\ late' = late \ {r}
Turn(r, step) == AdminDoes(r, [doing[r] EXCEPT !.step = step])

\* create_tokens: both tokens carry the version the request read with the user.
CreateTokens(version) ==
    /\ Len(issued) + 2 <= MaxTokens
    /\ issued' = issued \o <<[kind |-> "access", version |-> version, live |-> TRUE],
                             [kind |-> "refresh", version |-> version, live |-> TRUE]>>

\* The answer of a login or a refresh; what a late one issues is of before the change.
IssueTokens(r) ==
    /\ CreateTokens(doing[r].version)
    /\ cut' = IF r \in late THEN cut \union (Tokens' \ Tokens) ELSE cut
    /\ AdminAnswer(r)
    /\ UNCHANGED <<user, blacklist, memory, restarts, out, outHere, overwritten>>

-----------------------------------------------------------------------------
\* setup_admin: no row was found, and then one is inserted; the name is unique.
SetupChecks(r) ==
    /\ Free(r) /\ user = NoUser
    /\ AdminDoes(r, [NoAdminRequest EXCEPT !.op = "setup", !.step = "insert"])
    /\ UNCHANGED <<user, issued, blacklist, memory, restarts, out, outHere, cut, late, overwritten>>

SetupInserts(r) ==
    /\ At(r, "setup", "insert")
    /\ user' = IF user = NoUser THEN 1 ELSE user
    /\ AdminAnswer(r)
    /\ UNCHANGED <<issued, blacklist, memory, restarts, out, outHere, cut, overwritten>>

\* login: the user row is read (the limit on failed logins is left out).
LoginReads(r) ==
    /\ Free(r)
    /\ AdminDoes(r, [NoAdminRequest EXCEPT !.op = "login", !.step = "verify", !.version = user])
    /\ UNCHANGED <<user, issued, blacklist, memory, restarts, out, outHere, cut, late, overwritten>>

\* The password is right, last_login_at is committed, the tokens are issued.
LoginSucceeds(r) ==
    /\ At(r, "login", "verify") /\ doing[r].version # NoUser
    /\ IssueTokens(r)

\* An unknown user or a wrong password.
LoginFails(r) ==
    /\ At(r, "login", "verify")
    /\ AdminAnswer(r)
    /\ UNCHANGED <<user, issued, blacklist, memory, restarts, out, outHere, cut, overwritten>>

-----------------------------------------------------------------------------
\* get_current_user and refresh_tokens look at the signature, the expiry, the
\* type and the blacklist, and then read the user and compare the versions.
Kind(op) == IF op = "refresh" THEN "refresh" ELSE "access"
Decodes(t, kind) == issued[t].live /\ issued[t].kind = kind
Blacklisted(t) == t \in blacklist

PassBlacklist(r, op, t, u) ==
    /\ Free(r)
    /\ Decodes(t, Kind(op)) /\ ~Blacklisted(t)
    /\ op # "logout" => u = 0
    /\ AdminDoes(r, [op |-> op, step |-> "user", token |-> t, other |-> u, version |-> NoUser])
    /\ UNCHANGED <<user, issued, blacklist, memory, restarts, out, outHere, cut, late, overwritten>>

CurrentVersion(t) == user # NoUser /\ issued[t].version = user

\* validate_token_user: the versions agree, and the handler goes on, ...
PassUser(r) ==
    /\ doing[r].step = "user"
    /\ CurrentVersion(doing[r].token)
    /\ AdminDoes(r, [doing[r] EXCEPT !.step = "go", !.version = user])
    /\ UNCHANGED <<user, issued, blacklist, memory, restarts, out, outHere, cut, late, overwritten>>

\* ... or they do not, and the answer is 401.
FailUser(r) ==
    /\ doing[r].step = "user"
    /\ ~CurrentVersion(doing[r].token)
    /\ AdminAnswer(r)
    /\ UNCHANGED <<user, issued, blacklist, memory, restarts, out, outHere, cut, overwritten>>

\* refresh_tokens: new tokens; the refresh token that was shown stays valid.
Refresh(r) ==
    /\ At(r, "refresh", "go")
    /\ IssueTokens(r)

\* logout puts the token, and the refresh token it was given, in the memory and
\* in the table, and commits.
Shown(r) == {doing[r].token, doing[r].other} \ {0}

Logout(r, p) ==
    /\ At(r, "logout", "go")
    /\ Shown(r) \intersect blacklist = {}
    /\ memory' = [memory EXCEPT ![p] = @ \union Shown(r)]
    /\ blacklist' = blacklist \union Shown(r)
    /\ out' = out \union Shown(r)
    /\ outHere' = [outHere EXCEPT ![p] = @ \union Shown(r)]
    /\ AdminAnswer(r)
    /\ UNCHANGED <<user, issued, restarts, cut, overwritten>>

\* A token that is in the table already violates its key: what is caught leaves
\* the session unusable, the commit fails, and the memory was not written.
LogoutFails(r, p) ==
    /\ At(r, "logout", "go")
    /\ Shown(r) \intersect blacklist # {}
    /\ memory' = IF doing[r].token \in blacklist THEN memory
                 ELSE [memory EXCEPT ![p] = @ \union {doing[r].token}]
    /\ AdminAnswer(r)
    /\ UNCHANGED <<user, issued, blacklist, restarts, out, outHere, cut, overwritten>>

\* The commit of a change: the tokens, and the requests that read the user, are
\* those of before it; overwritten if another change came between.
ChangeAnswered(r) ==
    /\ cut' = Tokens \ Outlived
    /\ late' = {q \in AdminRequests \ {r} : doing[q].version # NoUser}
    /\ overwritten' = (overwritten \/ doing[r].version # user)
    /\ AdminDoes(r, NoAdminRequest)
    /\ UNCHANGED <<issued, blacklist, memory, restarts, out, outHere>>

\* Mutant of ChangePassword: the version is written back as it was read.
ChangeKeepingVersion(r) ==
    /\ At(r, "change", "go") /\ doing[r].version < MaxPasswords
    /\ user' = doing[r].version
    /\ ChangeAnswered(r)

\* change_password: the version the request read, plus one, is written.
ChangePassword(r) ==
    /\ At(r, "change", "go") /\ doing[r].version < MaxPasswords
    /\ user' = doing[r].version + 1
    /\ ChangeAnswered(r)

\* The current password was wrong: 400, and nothing is written.  Handlers that
\* only need to know the user (me, the approvals) are like this one.
ChangeRefused(r) ==
    /\ At(r, "change", "go")
    /\ AdminAnswer(r)
    /\ UNCHANGED <<user, issued, blacklist, memory, restarts, out, outHere, cut, overwritten>>

-----------------------------------------------------------------------------
\* AdminAuthMiddleware.dispatch of p lets a request under /api through.
Admitted(p, t) == Decodes(t, "access") /\ t \notin memory[p]

Remembered == UNION {memory[p] : p \in WorkerProcesses}

\* A token's time comes; the middleware forgets it when it meets it again.  (The
\* expiry of a token nobody logs out is the same as nobody showing it again.)
ExpireToken(t) ==
    /\ issued[t].live /\ t \in Remembered \union blacklist
    /\ issued' = [issued EXCEPT ![t].live = FALSE]
    /\ memory' = [p \in WorkerProcesses |-> memory[p] \ {t}]
    /\ outHere' = [p \in WorkerProcesses |-> outHere[p] \ {t}]
    /\ out' = out \ {t} /\ cut' = cut \ {t}
    /\ UNCHANGED <<user, blacklist, doing, restarts, late, overwritten>>

\* Mutant of CleanUp: the expiry is not looked at.
CleanUpEverything ==
    /\ blacklist # {}
    /\ blacklist' = {}
    /\ UNCHANGED <<user, issued, memory, doing, restarts, out, outHere, cut, late, overwritten>>

\* cleanup_expired_blacklist_entries, every five minutes.
CleanUp ==
    /\ blacklist \intersect Outlived # {}
    /\ blacklist' = blacklist \ Outlived
    /\ UNCHANGED <<user, issued, memory, doing, restarts, out, outHere, cut, late, overwritten>>

\* The database stays; the memory and the open requests do not.
Restart ==
    /\ restarts < MaxRestarts
    /\ restarts' = restarts + 1
    /\ memory' = [p \in WorkerProcesses |-> {}]
    /\ outHere' = [p \in WorkerProcesses |-> {}]
    /\ doing' = [r \in AdminRequests |-> NoAdminRequest] /\ late' = {}
    /\ UNCHANGED <<user, issued, blacklist, out, cut, overwritten>>

RequestStep(r) ==
    \/ SetupChecks(r) \/ SetupInserts(r)
    \/ LoginReads(r) \/ LoginSucceeds(r) \/ LoginFails(r)
    \/ \E op \in {"refresh", "logout", "change"}, t \in Tokens, u \in Tokens \union {0} :
          /\ u # 0 => u = t + 1     \* a client shows the two tokens it was issued together
          /\ PassBlacklist(r, op, t, u)
    \/ PassUser(r) \/ FailUser(r) \/ Refresh(r)
    \/ \E p \in WorkerProcesses : Logout(r, p) \/ LogoutFails(r, p)
    \/ ChangePassword(r) \/ ChangeRefused(r)

AdminNext ==
    \/ \E r \in AdminRequests : RequestStep(r)
    \/ \E t \in Tokens : ExpireToken(t)
    \/ CleanUp \/ Restart

AdminSpec == AdminInit /\ [][AdminNext]_adminVars

-----------------------------------------------------------------------------
(* Every variable has its type. *)
AdminTypeOK ==
    /\ user \in 0..MaxPasswords
    /\ issued \in Seq([kind : {"access", "refresh"}, version : 1..MaxPasswords, live : BOOLEAN])
    /\ Len(issued) <= MaxTokens
    /\ blacklist \subseteq Tokens /\ memory \in [WorkerProcesses -> SUBSET Tokens]
    /\ out \subseteq Tokens /\ outHere \in [WorkerProcesses -> SUBSET out]
    /\ cut \subseteq Tokens /\ late \subseteq AdminRequests /\ overwritten \in BOOLEAN
    /\ restarts \in 0..MaxRestarts
    /\ doing \in [AdminRequests ->
            [op : {"none", "setup", "login", "refresh", "logout", "change"},
             step : {"none", "insert", "verify", "user", "go"},
             token : {0} \union Tokens, other : {0} \union Tokens, version : 0..MaxPasswords]]

(* A token whose logout was answered is never let in again: not by a       *)
(* handler that asks for the user or refreshes, whatever restarts and      *)
(* clean-ups happen since, and not by the middleware of the process that   *)
(* answered until it restarts.                                             *)
LoggedOutStaysOut ==
    /\ \A t \in out : ~(Decodes(t, issued[t].kind) /\ ~Blacklisted(t))
    /\ \A p \in WorkerProcesses : \A t \in outHere[p] : ~Admitted(p, t)

(* A token of before the last change of password that was answered, issued *)
(* by then or by a login or a refresh that had read the user by then, never *)
(* carries the user's version again: no handler that asks for the user lets *)
(* it in, and it is not refreshed.  The middleware alone would let it in    *)
(* (OldTokensRefused).  Changes may overlap; once one of them has written   *)
(* over another it had not read, the version can go back, and nothing is    *)
(* said of it any more.                                                     *)
ChangeCutsOff == ~overwritten => \A t \in cut : ~CurrentVersion(t)

(* "Change a user's password and invalidate all existing tokens"           *)
(* (services/auth.py:225): a token of before the change is not let in by   *)
(* the middleware either, which is all that guards most routes under /api. *)
OldTokensRefused == \A t \in cut, p \in WorkerProcesses : ~Admitted(p, t)
=============================================================================

------------------------------ MODULE Accounts ------------------------------
(***************************************************************************)
(* One account: its user row, the refresh sessions opened for it, its      *)
(* one-time tokens, its second factor and backup codes (app/routes/auth,   *)
(* sessions, mfa and admin, app/services/auth_service.py).                 *)
(*                                                                         *)
(* Handlers run in threads: each loads rows, checks them, and commits the  *)
(* columns it changed.  An UPDATE ... WHERE or DELETE ... WHERE statement  *)
(* runs at some time between the two and sees the rows committed by then.  *)
(***************************************************************************)
EXTENDS Naturals, Sequences, FiniteSets

CONSTANTS
  Threads,      \* threads of the API processes
  Passwords,    \* the passwords the user may choose
  MaxFailures,  \* settings.max_failed_logins
  MaxSessions,  \* bound on the refresh_sessions rows
  MaxTokens,    \* bound on the one_time_tokens rows
  MaxCodes,     \* bound on the backup codes
  Workloads     \* sets of operations; one of them is in play in a behaviour

ASSUME MaxFailuresIsPositive == MaxFailures \in Nat \ {0}

Statuses == {"pending_verification", "active", "locked", "disabled", "suspended", "deleted"}
Purposes == {"email_verification", "password_reset", "email_change"}
ApiKey == 0  \* the session of a request that came with an API key: it has none

VARIABLES
  user,      \* the users row
  sessions,  \* the refresh_sessions rows, in the order of their creation
  tokens,    \* the one_time_tokens rows
  method,    \* the mfa_methods row: which of its columns are set
  codes,     \* the backup_codes rows: a batch is one code
  ticket,    \* the client holds an MFA ticket
  task,      \* the handler each thread runs
  seen,      \* what its session loaded
  workload,  \* the operations in play
  ended,     \* history: the families whose sessions something has ended
  misses,    \* history: the wrong passwords since the count was last reset, up to MaxFailures
  collided   \* history: two handlers that conflict have run at the same time

rows == <<user, sessions, tokens, method, codes>>
vars == <<user, sessions, tokens, method, codes, ticket, task, seen, workload, ended, misses, collided>>

User == [status : Statuses, email_verified : BOOLEAN, failed_login_count : Nat,
         locked_until : {"none", "past", "future"}, deleted_at : BOOLEAN,
         password_hash : Passwords, mfa_enabled : BOOLEAN]

\* password is a history field: the one that opened the session or, when it was
\* changed from this session, the new one.
RefreshSession == [family : Nat, state : {"live", "revoked", "replaced"}, password : Passwords]

OneTimeToken == [purpose : Purposes, used : BOOLEAN, uses : Nat]
BackupCode == [state : {"unused", "used", "gone"}, uses : Nat]
MFAMethod == [exists : BOOLEAN, confirmed_at : BOOLEAN, disabled_at : BOOLEAN]
NoMethod == [exists |-> FALSE, confirmed_at |-> FALSE, disabled_at |-> FALSE]
Idle == [op |-> "idle", arg |-> 0]
NoRead == [sessions |-> 0, tokens |-> 0, codes |-> 0, user |-> <<>>, method |-> NoMethod]

\* register: the user row and the token of the verification message.
Init ==
  /\ \E p \in Passwords :
       user = [status |-> "pending_verification", email_verified |-> FALSE,
               failed_login_count |-> 0, locked_until |-> "none", deleted_at |-> FALSE,
               password_hash |-> p, mfa_enabled |-> FALSE]
  /\ sessions = <<>> /\ codes = <<>>
  /\ tokens = <<[purpose |-> "email_verification", used |-> FALSE, uses |-> 0]>>
  /\ method = NoMethod
  /\ ticket = FALSE
  /\ task = [t \in Threads |-> Idle]
  /\ seen = [t \in Threads |-> NoRead]
  /\ workload \in Workloads
  /\ ended = {}
  /\ misses = 0
  /\ collided = FALSE

Ids(rs) == DOMAIN rs
Live(s) == sessions[s].state = "live"

-----------------------------------------------------------------------------
(* Handlers.                                                               *)

Opening == {"login", "issue", "refresh"}

\* Handler h ends session s, if it is there when the handler looks.
Ends(h, s) ==
  \/ h.op \in {"logout_all", "logout_others", "change", "reset", "delete"}
  \/ h.op = "status" /\ h.arg \in {"locked", "disabled"}
  \/ h.op \in {"logout", "reuse"} /\ sessions[h.arg].family = sessions[s].family

\* What h is about to open is what g is about to end or to put under a second factor.
Crosses(h, g) ==
  \/ h.op = "refresh" /\ Ends(g, h.arg)
  \/ h.op \in {"login", "challenge", "issue"} /\ g.op \in {"change", "reset", "status", "delete", "confirm"}

Counting == {"wrong", "login", "unlock", "status", "reset"}
Replacing == {"confirm", "regenerate"}

\* Or both write the count of wrong passwords, use up the same row, replace the
\* same tokens or backup codes, or start over the factor and confirm it.
Conflict(h, g) ==
  \/ Crosses(h, g) \/ Crosses(g, h)
  \/ "wrong" \in {h.op, g.op} /\ {h.op, g.op} \subseteq Counting
  \/ Replacing \cap {h.op, g.op} # {} /\ {h.op, g.op} \subseteq Replacing \cup {"disable"}
  \/ {h.op, g.op} = {"setup", "confirm"}
  \/ h = g /\ h.op \in {"refresh", "verify", "reset", "confirm_email", "challenge",
                        "resend", "forgot"}

\* Bounds: there is room for the rows that the handlers under way will create.
RoomFor(rs, ops, max) == Len(rs) + Cardinality({t \in Threads : task[t].op \in ops}) < max
SessionRoom == RoomFor(sessions, Opening \cup {"challenge"}, MaxSessions)
TokenRoom == RoomFor(tokens, {"resend", "forgot", "request_email"}, MaxTokens)
CodeRoom == RoomFor(codes, {"confirm", "regenerate"}, MaxCodes)

Load(t, op, arg) ==
  LET mine == [op |-> op, arg |-> arg] IN
  /\ op \in workload
  /\ task[t] = Idle
  /\ task' = [task EXCEPT ![t] = mine]
  /\ seen' = [seen EXCEPT ![t] = [sessions |-> Len(sessions), tokens |-> Len(tokens),
                                  codes |-> Len(codes), user |-> user, method |-> method]]
  /\ collided' = (collided \/ \E s \in Threads \ {t} : Conflict(mine, task[s]))
  /\ UNCHANGED <<rows, ticket, workload, ended, misses>>

Committing(t, op) == task[t].op = op

Finish(t) ==
  /\ task' = [task EXCEPT ![t] = Idle]
  /\ seen' = [seen EXCEPT ![t] = NoRead]
  /\ UNCHANGED <<workload, collided>>

\* The columns of an UPDATE are those that differ from what was loaded.
Save(t, new) ==
  user' = [c \in DOMAIN user |-> IF new[c] = seen[t].user[c] THEN user[c] ELSE new[c]]

\* get_current_user.
Authenticated == user.status = "active" /\ ~user.deleted_at

Open(family, password) ==
  sessions' = Append(sessions, [family |-> family, state |-> "live", password |-> password])

\* UPDATE refresh_sessions ... WHERE revoked_at IS NULL, for the rows in S.
RevokeAll(t, S) ==
  \E k \in seen[t].sessions .. Len(sessions) :
    sessions' = [s \in Ids(sessions) |->
                   IF s \in S /\ s <= k /\ Live(s)
                   THEN [sessions[s] EXCEPT !.state = "revoked"] ELSE sessions[s]]

\* The unused tokens of this purpose are used up and a new one is created.
ReplaceTokens(t, purpose) ==
  \E k \in seen[t].tokens .. Len(tokens) :
    tokens' = Append([i \in Ids(tokens) |->
                        IF i <= k /\ tokens[i].purpose = purpose
                        THEN [tokens[i] EXCEPT !.used = TRUE] ELSE tokens[i]],
                     [purpose |-> purpose, used |-> FALSE, uses |-> 0])

\* consume_one_time_token: checked when it is loaded, marked when it is committed.
Unused(i, purpose) == tokens[i].purpose = purpose /\ ~tokens[i].used

\* Mutant: the token is not marked.
ConsumeNothing(i) == tokens' = [tokens EXCEPT ![i].uses = tokens[i].uses + 1]

Consume(i) ==
  tokens' = [tokens EXCEPT ![i].used = TRUE, ![i].uses = tokens[i].uses + 1]

\* DELETE FROM backup_codes WHERE user_id = ...
DeleteCodes(k) ==
  [c \in Ids(codes) |-> IF c <= k THEN [codes[c] EXCEPT !.state = "gone"] ELSE codes[c]]

\* replace_backup_codes.
ReplaceCodes(t) ==
  \E k \in seen[t].codes .. Len(codes) :
    codes' = Append(DeleteCodes(k), [state |-> "unused", uses |-> 0])

Refuse(t) == Finish(t) /\ UNCHANGED <<rows, ticket, ended, misses>>

-----------------------------------------------------------------------------
(* Verification, login and lockout.                                        *)

BeginVerify(t, i) == Unused(i, "email_verification") /\ Load(t, "verify", i)

CommitVerify(t) ==
  /\ Committing(t, "verify")
  /\ Consume(task[t].arg)
  /\ Save(t, [seen[t].user EXCEPT !.email_verified = TRUE, !.status = "active"])
  /\ Finish(t)
  /\ UNCHANGED <<sessions, method, codes, ticket, ended, misses>>

BeginResend(t) ==
  /\ ~user.email_verified /\ user.status # "deleted" /\ TokenRoom
  /\ Load(t, "resend", 0)

\* forgot_password and resend_verification.
CommitToken(t, op, purpose) ==
  /\ Committing(t, op)
  /\ ReplaceTokens(t, purpose)
  /\ Finish(t)
  /\ UNCHANGED <<user, sessions, method, codes, ticket, ended, misses>>

\* validate_login_user before it looks at the password.
MayTry == user.status \notin {"disabled", "deleted"} /\ user.locked_until # "future"

BeginWrongPassword(t) ==
  /\ MayTry
  /\ user.failed_login_count <= MaxFailures  \* bound: what is counted beyond says nothing new
  /\ Load(t, "wrong", 0)

Miss(t, locks(_)) ==
  LET failures == seen[t].user.failed_login_count + 1
      counted == [seen[t].user EXCEPT !.failed_login_count = failures]
  IN
  /\ Save(t, IF locks(failures)
             THEN [counted EXCEPT !.status = "locked", !.locked_until = "future"]
             ELSE counted)
  /\ misses' = IF misses < MaxFailures THEN misses + 1 ELSE misses

\* Mutant: the lock comes one failure late.
CommitWrongPasswordLate(t) ==
  /\ Committing(t, "wrong")
  /\ Miss(t, LAMBDA n : n > MaxFailures)
  /\ Finish(t)
  /\ UNCHANGED <<sessions, tokens, method, codes, ticket, ended>>

CommitWrongPassword(t) ==
  /\ Committing(t, "wrong")
  /\ Miss(t, LAMBDA n : n >= MaxFailures)
  /\ Finish(t)
  /\ UNCHANGED <<sessions, tokens, method, codes, ticket, ended>>

BeginLogin(t) ==
  /\ MayTry
  /\ user.email_verified /\ user.status # "pending_verification" /\ SessionRoom
  /\ Load(t, "login", 0)

LoggedIn(t) ==
  [seen[t].user EXCEPT !.failed_login_count = 0, !.locked_until = "none", !.status = "active"]

\* login and oauth2_token: a session, or a ticket for the second step.
CommitLogin(t) ==
  /\ Committing(t, "login")
  /\ Save(t, LoggedIn(t))
  /\ \/ /\ seen[t].user.mfa_enabled
        /\ ticket' = TRUE
        /\ UNCHANGED sessions
     \/ /\ ~seen[t].user.mfa_enabled
        /\ Open(Len(sessions) + 1, seen[t].user.password_hash)
        /\ UNCHANGED ticket
  /\ misses' = 0
  /\ Finish(t)
  /\ UNCHANGED <<tokens, method, codes, ended>>

\* Time passes the end of the lockout.
LockExpires ==
  /\ user.locked_until = "future"
  /\ user' = [user EXCEPT !.locked_until = "past"]
  /\ UNCHANGED <<sessions, tokens, method, codes, ticket, task, seen, workload, ended, misses, collided>>

-----------------------------------------------------------------------------
(* Sessions.                                                               *)

\* rotate_refresh_token, for the token of session s.
BeginRefresh(t, s) ==
  Live(s) /\ user.status = "active" /\ SessionRoom /\ Load(t, "refresh", s)

\* Mutant: the session that was presented stays.
CommitRefreshKeeping(t) ==
  LET s == task[t].arg IN
  /\ Committing(t, "refresh")
  /\ Open(sessions[s].family, sessions[s].password)
  /\ Finish(t)
  /\ UNCHANGED <<user, tokens, method, codes, ticket, ended, misses>>

CommitRefresh(t) ==
  LET s == task[t].arg IN
  /\ Committing(t, "refresh")
  /\ sessions' = Append([sessions EXCEPT ![s].state = "replaced"],
                        [sessions[s] EXCEPT !.state = "live"])
  /\ Finish(t)
  /\ UNCHANGED <<user, tokens, method, codes, ticket, ended, misses>>

\* The token of a session that was replaced is presented again.
BeginReuse(t, s) == sessions[s].state = "replaced" /\ Load(t, "reuse", s)

\* Mutant: only the session that was presented is revoked.
CommitReuseOfOne(t) ==
  LET s == task[t].arg IN
  /\ Committing(t, "reuse")
  /\ RevokeAll(t, {s})
  /\ ended' = ended \cup {sessions[s].family}
  /\ Finish(t)
  /\ UNCHANGED <<user, tokens, method, codes, ticket, misses>>

CommitReuse(t) ==
  LET family == sessions[task[t].arg].family IN
  /\ Committing(t, "reuse")
  /\ RevokeAll(t, {s \in Ids(sessions) : sessions[s].family = family})
  /\ ended' = ended \cup {family}
  /\ Finish(t)
  /\ UNCHANGED <<user, tokens, method, codes, ticket, misses>>

\* logout of the current session, revoke_session of any.  With an API key there is
\* no session, and one that rotation has replaced, or that was revoked, is left
\* alone: the handler answers success, and what was derived from it stays.
BeginLogout(t, s) ==
  /\ Authenticated
  /\ Load(t, IF s # ApiKey /\ Live(s) THEN "logout" ELSE "logout_void", s)

CommitLogout(t) ==
  LET s == task[t].arg IN
  \/ Committing(t, "logout_void") /\ Refuse(t)
  \/ /\ Committing(t, "logout")
     /\ sessions' = [sessions EXCEPT ![s].state = IF Live(s) THEN "revoked" ELSE @]
     /\ ended' = ended \cup {sessions[s].family}
     /\ Finish(t)
     /\ UNCHANGED <<user, tokens, method, codes, ticket, misses>>

\* logout_all; revoke_other_sessions from session s.
BeginLogoutAll(t) == Authenticated /\ Load(t, "logout_all", 0)
BeginLogoutOthers(t, s) == Authenticated /\ Load(t, "logout_others", s)

Other(s, current) == current = ApiKey \/ sessions[s].family # sessions[current].family

\* What all the sessions that were loaded belong to.
Families(t) == {sessions[s].family : s \in 1 .. seen[t].sessions}

CommitLogoutAll(t, op) ==
  LET current == task[t].arg IN
  /\ Committing(t, op)
  /\ RevokeAll(t, Ids(sessions) \ {current})
  /\ ended' = ended \cup {sessions[s].family : s \in {r \in 1 .. seen[t].sessions : Other(r, current)}}
  /\ Finish(t)
  /\ UNCHANGED <<user, tokens, method, codes, ticket, misses>>

-----------------------------------------------------------------------------
(* Passwords and e-mail addresses.                                         *)

BeginForgot(t) ==
  /\ user.status \notin {"deleted", "disabled"} /\ TokenRoom
  /\ Load(t, "forgot", 0)

BeginReset(t, i) == Unused(i, "password_reset") /\ Load(t, "reset", i)

\* The new password; a verified user is active again, whatever the status was.
SetPassword(t) ==
  LET old == seen[t].user
      new == [old EXCEPT !.failed_login_count = 0, !.locked_until = "none",
                         !.status = IF old.email_verified THEN "active" ELSE old.status]
  IN \E p \in Passwords :
       user' = [c \in DOMAIN user |->
                  IF c = "password_hash" THEN p
                  ELSE IF new[c] = old[c] THEN user[c] ELSE new[c]]

\* Mutant: the sessions stay.
CommitResetKeeping(t) ==
  /\ Committing(t, "reset")
  /\ Consume(task[t].arg) /\ SetPassword(t)
  /\ misses' = 0
  /\ Finish(t)
  /\ UNCHANGED <<sessions, method, codes, ticket, ended>>

\* reset_password.
CommitReset(t) ==
  /\ Committing(t, "reset")
  /\ Consume(task[t].arg) /\ SetPassword(t)
  /\ RevokeAll(t, Ids(sessions))
  /\ ended' = ended \cup Families(t)
  /\ misses' = 0
  /\ Finish(t)
  /\ UNCHANGED <<method, codes, ticket>>

\* change_password, from session s or with an API key.
BeginChange(t, s) == Authenticated /\ Load(t, "change", s)

CommitChange(t) ==
  LET current == task[t].arg IN
  /\ Committing(t, "change")
  /\ \E p \in Passwords \ {seen[t].user.password_hash}, k \in seen[t].sessions .. Len(sessions) :
       /\ user' = [user EXCEPT !.password_hash = p]
       /\ sessions' = [s \in Ids(sessions) |->
            CASE s = current -> [sessions[s] EXCEPT !.password = p]
              [] s # current /\ s <= k /\ Live(s) -> [sessions[s] EXCEPT !.state = "revoked"]
              [] OTHER -> sessions[s]]
  /\ Finish(t)
  /\ UNCHANGED <<tokens, method, codes, ticket, ended, misses>>

\* request_email_change: earlier requests stay valid.
BeginRequestEmail(t) == Authenticated /\ TokenRoom /\ Load(t, "request_email", 0)

CommitRequestEmail(t) ==
  /\ Committing(t, "request_email")
  /\ tokens' = Append(tokens, [purpose |-> "email_change", used |-> FALSE, uses |-> 0])
  /\ Finish(t)
  /\ UNCHANGED <<user, sessions, method, codes, ticket, ended, misses>>

BeginConfirmEmail(t, i) ==
  Authenticated /\ Unused(i, "email_change") /\ Load(t, "confirm_email", i)

\* The new address is not followed; it may have been taken, and then the unique
\* constraint refuses the commit.
CommitConfirmEmail(t) ==
  /\ Committing(t, "confirm_email")
  /\ \/ Refuse(t)
     \/ /\ Consume(task[t].arg)
        /\ Save(t, [seen[t].user EXCEPT !.email_verified = TRUE])
        /\ Finish(t)
        /\ UNCHANGED <<sessions, method, codes, ticket, ended, misses>>

-----------------------------------------------------------------------------
(* Administrators and moderators.                                          *)

\* update_user_status.
BeginStatus(t, status) == ~user.deleted_at /\ Load(t, "status", status)

\* Mutant: only a locked account loses its sessions.
CommitStatusLenient(t) ==
  LET status == task[t].arg IN
  /\ Committing(t, "status")
  /\ Save(t, [seen[t].user EXCEPT !.status = status])
  /\ IF status = "locked" THEN RevokeAll(t, Ids(sessions)) ELSE UNCHANGED sessions
  /\ misses' = IF status = "active" THEN 0 ELSE misses
  /\ Finish(t)
  /\ UNCHANGED <<tokens, method, codes, ticket, ended>>

CommitStatus(t) ==
  LET status == task[t].arg
      new == [seen[t].user EXCEPT !.status = status]
  IN
  /\ Committing(t, "status")
  /\ Save(t, IF status = "active"
             THEN [new EXCEPT !.failed_login_count = 0, !.locked_until = "none"] ELSE new)
  /\ IF status \in {"locked", "disabled"}
     THEN RevokeAll(t, Ids(sessions)) /\ ended' = ended \cup Families(t)
     ELSE UNCHANGED <<sessions, ended>>
  /\ misses' = IF status = "active" THEN 0 ELSE misses
  /\ Finish(t)
  /\ UNCHANGED <<tokens, method, codes, ticket>>

BeginUnlock(t) == ~user.deleted_at /\ Load(t, "unlock", 0)

CommitUnlock(t) ==
  /\ Committing(t, "unlock")
  /\ Save(t, [LoggedIn(t) EXCEPT !.status = IF seen[t].user.email_verified
                                            THEN "active" ELSE "pending_verification"])
  /\ misses' = 0
  /\ Finish(t)
  /\ UNCHANGED <<sessions, tokens, method, codes, ticket, ended>>

BeginDelete(t) == ~user.deleted_at /\ Load(t, "delete", 0)

CommitDelete(t) ==
  /\ Committing(t, "delete")
  /\ Save(t, [seen[t].user EXCEPT !.status = "deleted", !.deleted_at = TRUE])
  /\ RevokeAll(t, Ids(sessions))
  /\ ended' = ended \cup Families(t)
  /\ Finish(t)
  /\ UNCHANGED <<tokens, method, codes, ticket, misses>>

\* resolve_report on a user: no session ends.
BeginSuspend(t) == Load(t, "suspend", 0)

CommitSuspend(t) ==
  /\ Committing(t, "suspend")
  /\ Save(t, [seen[t].user EXCEPT !.status = "suspended"])
  /\ Finish(t)
  /\ UNCHANGED <<sessions, tokens, method, codes, ticket, ended, misses>>

-----------------------------------------------------------------------------
(* The second factor.  A handler that takes a code has as argument the     *)
(* backup code it was given, or 0 for one of the authenticator.            *)

\* verify_mfa_code.
Usable == method.confirmed_at /\ ~method.disabled_at
ValidCode(c) == IF c = 0 THEN Usable ELSE codes[c].state = "unused"

\* The UPDATE that marks a backup code finds no row when the batch has been
\* replaced, and the commit fails.
MarkCode(c) ==
  IF c = 0 THEN UNCHANGED codes
  ELSE /\ codes[c].state # "gone"
       /\ codes' = [codes EXCEPT ![c] = [state |-> "used", uses |-> codes[c].uses + 1]]

BeginSetup(t) == Authenticated /\ Load(t, "setup", 0)

\* A new row, or both columns are cleared where they were found set: a confirmed
\* factor has to be confirmed again, though it stays required.
CommitSetup(t) ==
  LET loaded == seen[t].method IN
  /\ Committing(t, "setup")
  /\ \/ loaded.exists # method.exists /\ Refuse(t)
     \/ /\ loaded.exists = method.exists
        /\ method' = [exists |-> TRUE,
                      confirmed_at |-> method.confirmed_at /\ ~loaded.confirmed_at,
                      disabled_at |-> method.disabled_at /\ ~loaded.disabled_at]
        /\ Finish(t)
        /\ UNCHANGED <<user, sessions, tokens, codes, ticket, ended, misses>>

BeginConfirm(t) == Authenticated /\ method.exists /\ CodeRoom /\ Load(t, "confirm", 0)

\* Mutant: a factor that was disabled stays so.
CommitConfirmStillDisabled(t) ==
  /\ Committing(t, "confirm")
  /\ method' = [method EXCEPT !.confirmed_at = TRUE]
  /\ Save(t, [seen[t].user EXCEPT !.mfa_enabled = TRUE])
  /\ ReplaceCodes(t)
  /\ Finish(t)
  /\ UNCHANGED <<sessions, tokens, ticket, ended, misses>>

CommitConfirm(t) ==
  LET loaded == seen[t].method IN
  /\ Committing(t, "confirm")
  /\ method' = [method EXCEPT !.confirmed_at = TRUE,
                              !.disabled_at = method.disabled_at /\ ~loaded.disabled_at]
  /\ Save(t, [seen[t].user EXCEPT !.mfa_enabled = TRUE])
  /\ ReplaceCodes(t)
  /\ Finish(t)
  /\ UNCHANGED <<sessions, tokens, ticket, ended, misses>>

BeginDisable(t, c) == Authenticated /\ ValidCode(c) /\ Load(t, "disable", c)

\* With a backup code the commit fails: the code it marks has been deleted.
CommitDisable(t) ==
  /\ Committing(t, "disable")
  /\ \/ task[t].arg # 0 /\ Refuse(t)
     \/ /\ task[t].arg = 0
        /\ method' = [method EXCEPT !.disabled_at = TRUE]
        /\ Save(t, [seen[t].user EXCEPT !.mfa_enabled = FALSE])
        /\ \E k \in seen[t].codes .. Len(codes) : codes' = DeleteCodes(k)
        /\ Finish(t)
        /\ UNCHANGED <<sessions, tokens, ticket, ended, misses>>

BeginRegenerate(t, c) ==
  Authenticated /\ user.mfa_enabled /\ ValidCode(c) /\ CodeRoom /\ Load(t, "regenerate", c)

CommitRegenerate(t) ==
  /\ Committing(t, "regenerate")
  /\ \/ task[t].arg # 0 /\ Refuse(t)
     \/ /\ task[t].arg = 0
        /\ ReplaceCodes(t)
        /\ Finish(t)
        /\ UNCHANGED <<user, sessions, tokens, method, ticket, ended, misses>>

\* verify_login_mfa; the ticket stays valid until it expires.
BeginChallenge(t, c) ==
  /\ ticket /\ user.mfa_enabled /\ user.status = "active" /\ SessionRoom
  /\ ValidCode(c)
  /\ Load(t, "challenge", c)

\* It commits the code first and then goes on to issue_token_pair.
CommitChallenge(t) ==
  /\ Committing(t, "challenge")
  /\ \/ /\ MarkCode(task[t].arg)
        /\ task' = [task EXCEPT ![t] = [op |-> "issue", arg |-> 0]]
        /\ UNCHANGED <<user, sessions, tokens, method, ticket, seen, workload, ended, misses, collided>>
     \/ /\ task[t].arg # 0 /\ codes[task[t].arg].state = "gone"
        /\ Refuse(t)

CommitIssue(t) ==
  /\ Committing(t, "issue")
  /\ Open(Len(sessions) + 1, seen[t].user.password_hash)
  /\ Finish(t)
  /\ UNCHANGED <<user, tokens, method, codes, ticket, ended, misses>>

TicketExpires ==
  /\ ticket
  /\ ticket' = FALSE
  /\ UNCHANGED <<rows, task, seen, workload, ended, misses, collided>>

-----------------------------------------------------------------------------

Begin(t) ==
  \/ BeginResend(t) \/ BeginWrongPassword(t) \/ BeginLogin(t) \/ BeginLogoutAll(t)
  \/ BeginForgot(t) \/ BeginRequestEmail(t)
  \/ BeginUnlock(t) \/ BeginDelete(t) \/ BeginSuspend(t)
  \/ BeginSetup(t) \/ BeginConfirm(t)
  \/ \E status \in Statuses \ {"suspended", "deleted"} : BeginStatus(t, status)
  \/ \E i \in Ids(tokens) : BeginVerify(t, i) \/ BeginReset(t, i) \/ BeginConfirmEmail(t, i)
  \/ \E s \in Ids(sessions) : BeginRefresh(t, s) \/ BeginReuse(t, s)
  \/ \E s \in Ids(sessions) \cup {ApiKey} :
       BeginLogout(t, s) \/ BeginLogoutOthers(t, s) \/ BeginChange(t, s)
  \/ \E c \in Ids(codes) \cup {0} :
       BeginDisable(t, c) \/ BeginRegenerate(t, c) \/ BeginChallenge(t, c)

Commit(t) ==
  \/ CommitVerify(t) \/ CommitWrongPassword(t) \/ CommitLogin(t)
  \/ CommitToken(t, "resend", "email_verification") \/ CommitToken(t, "forgot", "password_reset")
  \/ CommitRefresh(t) \/ CommitReuse(t) \/ CommitLogout(t)
  \/ CommitLogoutAll(t, "logout_all") \/ CommitLogoutAll(t, "logout_others")
  \/ CommitReset(t) \/ CommitChange(t) \/ CommitRequestEmail(t) \/ CommitConfirmEmail(t)
  \/ CommitStatus(t) \/ CommitUnlock(t) \/ CommitDelete(t) \/ CommitSuspend(t)
  \/ CommitSetup(t) \/ CommitConfirm(t) \/ CommitDisable(t) \/ CommitRegenerate(t)
  \/ CommitChallenge(t) \/ CommitIssue(t)

Next ==
  \/ \E t \in Threads : Begin(t) \/ Commit(t)
  \/ LockExpires \/ TicketExpires

Spec == Init /\ [][Next]_vars

-----------------------------------------------------------------------------
(* Properties.                                                             *)

TypeOK ==
  /\ user \in User
  /\ sessions \in Seq(RefreshSession)
  /\ tokens \in Seq(OneTimeToken)
  /\ method \in MFAMethod
  /\ codes \in Seq(BackupCode)
  /\ ticket \in BOOLEAN
  /\ workload \in Workloads
  /\ ended \subseteq Ids(sessions)
  /\ misses \in 0 .. MaxFailures
  /\ collided \in BOOLEAN

\* Of the sessions that rotation derived from one login at most one can be
\* refreshed.
OneLivePerFamily ==
  ~collided => \A r, s \in Ids(sessions) :
    Live(r) /\ Live(s) /\ r # s => sessions[r].family # sessions[s].family

\* Once the session that is current in a login was logged out or revoked, alone or
\* with others, or its reuse was detected, or the password was reset, or the
\* account locked, disabled or deleted, no token derived from that login can be
\* refreshed again, though the account may come back into use.
EndedFamilyStaysEnded ==
  ~collided => \A s \in Ids(sessions) : Live(s) => sessions[s].family \notin ended

\* After the password was reset or changed, only the session it was changed
\* from and those derived from it go on.
PasswordEndsSessions ==
  ~collided => \A s \in Ids(sessions) : Live(s) => sessions[s].password = user.password_hash

\* As long as its status says that an account is disabled or deleted, it has no
\* session.  (A token from before, or a moderator's suspension and a login, gives
\* even a deleted account another status, and then it has new sessions only.)
BlockedHasNoSession ==
  ~collided => (user.status \in {"disabled", "deleted"} => \A s \in Ids(sessions) : ~Live(s))

\* A token or backup code is good for one use, and of the tokens that replace
\* each other only the latest can be used.
UsedOnce ==
  ~collided =>
    /\ \A i \in Ids(tokens) : tokens[i].uses <= 1
    /\ \A c \in Ids(codes) : codes[c].uses <= 1
    /\ \A i, j \in Ids(tokens) :
         /\ tokens[i].purpose = tokens[j].purpose /\ tokens[i].purpose # "email_change"
         /\ i # j
         => tokens[i].used \/ tokens[j].used

\* After MaxFailures wrong passwords in a row the account has been locked.
FailuresLock == ~collided => (misses = MaxFailures => user.locked_until # "none")

\* The three rows of the second factor agree, in whatever order it is set up, set
\* up anew, confirmed, disabled and its codes replaced: an authenticator that is
\* accepted is asked for at each login, one that is asked for was not disabled, and
\* one batch of backup codes is left exactly as long as it is asked for.
SecondFactorAgrees ==
  ~collided =>
    /\ Usable => user.mfa_enabled
    /\ user.mfa_enabled => method.exists /\ ~method.disabled_at
    /\ user.mfa_enabled <=> \E c \in Ids(codes) : codes[c].state # "gone"
    /\ \A c, d \in Ids(codes) : codes[c].state # "gone" /\ codes[d].state # "gone" => c = d
=============================================================================

--------------------------- MODULE AccountsProofs ---------------------------
(***************************************************************************)
(* What an account promises for any number of threads, sessions, tokens,   *)
(* codes and passwords, and whatever operations are in play: its sessions  *)
(* end with what ends them, its tokens are used once, its lockout comes,   *)
(* and the rows of its second factor agree.                                *)
(***************************************************************************)
EXTENDS Accounts, SequenceTheorems, TLAPS

Ops == {"idle", "verify", "resend", "forgot", "wrong", "login", "refresh", "reuse", "logout",
        "logout_void", "logout_all", "logout_others", "reset", "change", "request_email", "confirm_email",
        "status", "unlock", "delete", "suspend", "setup", "confirm", "disable", "regenerate",
        "challenge", "issue"}

Reads == [sessions : Nat, tokens : Nat, codes : Nat, user : User \cup {<<>>}, method : MFAMethod]

\* What a handler works on is there, and rows are never deleted.
Argued(op, arg) ==
  /\ op \in {"refresh", "reuse", "logout"} => arg \in Ids(sessions)
  /\ op \in {"logout_others", "change"} => arg \in Ids(sessions) \cup {ApiKey}
  /\ op = "logout_all" => arg = ApiKey
  /\ op \in {"verify", "reset", "confirm_email"} => arg \in Ids(tokens)
  /\ op \in {"disable", "regenerate", "challenge"} => arg \in Ids(codes) \cup {0}
  /\ op = "status" => arg \in Statuses \ {"suspended", "deleted"}
  /\ op \in {"resend", "forgot"} => arg = 0

Prepared(t) ==
  /\ task[t].op \in Ops
  /\ IF task[t].op = "idle" THEN task[t] = Idle
     ELSE /\ task[t] = [op |-> task[t].op, arg |-> task[t].arg]
          /\ seen[t].user \in User
          /\ seen[t].sessions <= Len(sessions)
          /\ seen[t].tokens <= Len(tokens)
          /\ seen[t].codes <= Len(codes)
          /\ Argued(task[t].op, task[t].arg)

Typed ==
  /\ TypeOK
  /\ DOMAIN task = Threads
  /\ seen \in [Threads -> Reads]
  /\ \A t \in Threads : Prepared(t)
  /\ \A s \in Ids(sessions) : 1 <= sessions[s].family /\ sessions[s].family <= s

-----------------------------------------------------------------------------
(* Sequences of rows.                                                      *)

\* A function on the indexes of a sequence is a sequence of the same length.
LEMMA SameLength ==
  ASSUME NEW S, NEW T, NEW q \in Seq(S), NEW r \in [DOMAIN q -> T]
  PROVE  r \in Seq(T) /\ Len(r) = Len(q) /\ DOMAIN r = DOMAIN q
<1>1. Len(q) \in Nat /\ DOMAIN q = 1 .. Len(q)
  BY LenProperties
<1>2. r \in Seq(T)
  BY <1>1, SeqDef
<1>3. Len(r) \in Nat /\ DOMAIN r = 1 .. Len(r)
  BY <1>2, LenProperties
<1>4. 1 .. Len(r) = 1 .. Len(q)
  BY <1>1, <1>3
<1>5. Len(r) = Len(q)
  BY <1>1, <1>3, <1>4
<1> QED BY <1>2, <1>5

\* What is appended to a sequence comes last.
LEMMA Appended ==
  ASSUME NEW S, NEW q \in Seq(S), NEW e \in S
  PROVE  /\ Append(q, e) \in Seq(S)
         /\ Len(q) \in Nat /\ DOMAIN q = 1 .. Len(q)
         /\ Len(Append(q, e)) = Len(q) + 1
         /\ DOMAIN Append(q, e) = DOMAIN q \cup {Len(q) + 1}
         /\ \A i \in DOMAIN q : Append(q, e)[i] = q[i]
         /\ Append(q, e)[Len(q) + 1] = e
<1>1. Len(q) \in Nat /\ DOMAIN q = 1 .. Len(q)
  BY LenProperties
<1>2. /\ Append(q, e) \in Seq(S) /\ Len(Append(q, e)) = Len(q) + 1
      /\ \A i \in 1 .. Len(q) : Append(q, e)[i] = q[i]
      /\ Append(q, e)[Len(q) + 1] = e
  BY AppendProperties
<1>3. DOMAIN Append(q, e) = 1 .. Len(q) + 1
  BY <1>2, LenProperties
<1> QED BY <1>1, <1>2, <1>3

\* The indexes of the rows, and the types of the rows.
LEMMA RowTypes ==
  ASSUME TypeOK
  PROVE  /\ Len(sessions) \in Nat /\ Ids(sessions) = 1 .. Len(sessions)
         /\ Len(tokens) \in Nat /\ Ids(tokens) = 1 .. Len(tokens)
         /\ Len(codes) \in Nat /\ Ids(codes) = 1 .. Len(codes)
         /\ \A s \in Ids(sessions) : sessions[s] \in RefreshSession
         /\ \A i \in Ids(tokens) : tokens[i] \in OneTimeToken
         /\ \A c \in Ids(codes) : codes[c] \in BackupCode
  BY LenProperties, ElementOfSeq DEF TypeOK, Ids

\* A session that is revoked and a token that is used keep the rest.
LEMMA Revoked ==
  ASSUME NEW r \in RefreshSession
  PROVE  /\ [r EXCEPT !.state = "revoked"] \in RefreshSession
         /\ [r EXCEPT !.state = "revoked"].family = r.family
         /\ [r EXCEPT !.state = "revoked"].password = r.password
         /\ [r EXCEPT !.state = "revoked"].state = "revoked"
  BY DEF RefreshSession

LEMMA UsedUp ==
  ASSUME NEW r \in OneTimeToken, NEW n \in Nat
  PROVE  /\ [r EXCEPT !.used = TRUE] \in OneTimeToken
         /\ [r EXCEPT !.used = TRUE].purpose = r.purpose
         /\ [r EXCEPT !.used = TRUE].uses = r.uses
         /\ [r EXCEPT !.used = TRUE].used = TRUE
         /\ [r EXCEPT !.used = TRUE, !.uses = n] \in OneTimeToken
         /\ [r EXCEPT !.used = TRUE, !.uses = n].purpose = r.purpose
         /\ [r EXCEPT !.used = TRUE, !.uses = n].uses = n
         /\ [r EXCEPT !.used = TRUE, !.uses = n].used = TRUE
<1>1. [r EXCEPT !.used = TRUE] \in OneTimeToken
  BY DEF OneTimeToken
<1>2. [r EXCEPT !.used = TRUE].purpose = r.purpose /\ [r EXCEPT !.used = TRUE].uses = r.uses
  BY DEF OneTimeToken
<1>3. [r EXCEPT !.used = TRUE].used = TRUE
  BY DEF OneTimeToken
<1>4. [r EXCEPT !.used = TRUE, !.uses = n] \in OneTimeToken
  BY DEF OneTimeToken
<1>5. /\ [r EXCEPT !.used = TRUE, !.uses = n].purpose = r.purpose
      /\ [r EXCEPT !.used = TRUE, !.uses = n].uses = n
  BY DEF OneTimeToken
<1>6. [r EXCEPT !.used = TRUE, !.uses = n].used = TRUE
  BY DEF OneTimeToken
<1> QED BY <1>1, <1>2, <1>3, <1>4, <1>5, <1>6

-----------------------------------------------------------------------------
(* What a handler commits.                                                 *)

\* Each column of a user that is saved is the new one, or the old one where the
\* handler did not change it.
LEMMA SaveFacts ==
  ASSUME TypeOK, NEW t, seen[t].user \in User, NEW new \in User, Save(t, new)
  PROVE  /\ user' \in User
         /\ user'.status = IF new.status = seen[t].user.status THEN user.status ELSE new.status
         /\ user'.password_hash = IF new.password_hash = seen[t].user.password_hash
                                  THEN user.password_hash ELSE new.password_hash
         /\ user'.mfa_enabled = IF new.mfa_enabled = seen[t].user.mfa_enabled
                                THEN user.mfa_enabled ELSE new.mfa_enabled
         /\ user'.failed_login_count =
              IF new.failed_login_count = seen[t].user.failed_login_count
              THEN user.failed_login_count ELSE new.failed_login_count
         /\ user'.locked_until = IF new.locked_until = seen[t].user.locked_until
                                 THEN user.locked_until ELSE new.locked_until
<1> DEFINE old == seen[t].user
           Column(c) == IF new[c] = old[c] THEN user[c] ELSE new[c]
<1>1. user \in User
  BY DEF TypeOK
<1>2. DOMAIN user = {"status", "email_verified", "failed_login_count", "locked_until",
                     "deleted_at", "password_hash", "mfa_enabled"}
  BY <1>1 DEF User
<1>3. user' = [c \in DOMAIN user |-> IF new[c] = old[c] THEN user[c] ELSE new[c]]
  BY DEF Save
<1> HIDE DEF old
<1>4. user' = [status |-> IF new.status = old.status THEN user.status ELSE new.status,
               email_verified |-> IF new.email_verified = old.email_verified
                                  THEN user.email_verified ELSE new.email_verified,
               failed_login_count |-> IF new.failed_login_count = old.failed_login_count
                                      THEN user.failed_login_count ELSE new.failed_login_count,
               locked_until |-> IF new.locked_until = old.locked_until
                                THEN user.locked_until ELSE new.locked_until,
               deleted_at |-> IF new.deleted_at = old.deleted_at
                              THEN user.deleted_at ELSE new.deleted_at,
               password_hash |-> IF new.password_hash = old.password_hash
                                 THEN user.password_hash ELSE new.password_hash,
               mfa_enabled |-> IF new.mfa_enabled = old.mfa_enabled
                               THEN user.mfa_enabled ELSE new.mfa_enabled]
  BY <1>2, <1>3
<1>5. user' \in User
  BY <1>1, <1>4 DEF User
<1> QED BY <1>4, <1>5 DEF old

\* Of the sessions in S those that were there when it was loaded are revoked.
LEMMA RevokeFacts ==
  ASSUME TypeOK, NEW t, seen[t].sessions \in Nat, NEW S, RevokeAll(t, S)
  PROVE  /\ sessions' \in Seq(RefreshSession)
         /\ Len(sessions') = Len(sessions) /\ Ids(sessions)' = Ids(sessions)
         /\ \A s \in Ids(sessions) :
              /\ sessions'[s].family = sessions[s].family
              /\ sessions'[s].password = sessions[s].password
              /\ sessions'[s].state = "live" => Live(s)
              /\ s \in S /\ s <= seen[t].sessions => sessions'[s].state # "live"
              /\ s \notin S => sessions'[s] = sessions[s]
<1>1. PICK k \in seen[t].sessions .. Len(sessions) :
        sessions' = [s \in Ids(sessions) |->
                   IF s \in S /\ s <= k /\ Live(s)
                   THEN [sessions[s] EXCEPT !.state = "revoked"] ELSE sessions[s]]
  BY DEF RevokeAll
<1>0. \A s \in Ids(sessions) : s \in Nat
  BY RowTypes
<1>2. \A s \in Ids(sessions) :
        /\ sessions[s] \in RefreshSession
        /\ [sessions[s] EXCEPT !.state = "revoked"] \in RefreshSession
        /\ [sessions[s] EXCEPT !.state = "revoked"].family = sessions[s].family
        /\ [sessions[s] EXCEPT !.state = "revoked"].password = sessions[s].password
        /\ [sessions[s] EXCEPT !.state = "revoked"].state = "revoked"
  BY RowTypes, Revoked
<1>3. sessions' \in [Ids(sessions) -> RefreshSession]
  BY <1>1, <1>2
<1>4. /\ sessions' \in Seq(RefreshSession)
      /\ Len(sessions') = Len(sessions) /\ Ids(sessions)' = Ids(sessions)
  BY <1>3, SameLength DEF Ids, TypeOK
<1>5. Len(sessions) \in Nat /\ k \in Nat /\ seen[t].sessions <= k
  BY RowTypes
<1>6. ASSUME NEW s \in Ids(sessions)
      PROVE  /\ sessions'[s].family = sessions[s].family
             /\ sessions'[s].password = sessions[s].password
             /\ sessions'[s].state = "live" => Live(s)
             /\ s \in S /\ s <= seen[t].sessions => sessions'[s].state # "live"
             /\ s \notin S => sessions'[s] = sessions[s]
  <2>1. CASE s \in S /\ s <= k /\ Live(s)
    BY <1>1, <1>2, <2>1
  <2>2. CASE ~(s \in S /\ s <= k /\ Live(s))
    <3>1. sessions'[s] = sessions[s]
      BY <1>1, <2>2
    <3>2. ASSUME s <= seen[t].sessions PROVE s <= k
      BY <1>0, <1>5, <3>2
    <3>3. s \in S /\ s <= seen[t].sessions => ~Live(s)
      BY <2>2, <3>2
    <3> QED BY <3>1, <3>3 DEF Live
  <2> QED BY <2>1, <2>2
<1> QED BY <1>4, <1>6

\* A session that is opened comes last.
LEMMA OpenFacts ==
  ASSUME TypeOK, NEW family \in Nat, NEW password \in Passwords, Open(family, password)
  PROVE  /\ sessions' \in Seq(RefreshSession)
         /\ Len(sessions') = Len(sessions) + 1
         /\ Ids(sessions)' = Ids(sessions) \cup {Len(sessions) + 1}
         /\ \A s \in Ids(sessions) : sessions'[s] = sessions[s]
         /\ sessions'[Len(sessions) + 1] = [family |-> family, state |-> "live", password |-> password]
<1> DEFINE new == [family |-> family, state |-> "live", password |-> password]
<1>1. new \in RefreshSession
  BY DEF RefreshSession
<1>2. sessions' = Append(sessions, new)
  BY DEF Open
<1> HIDE DEF new
<1>3. QED BY <1>1, <1>2, Appended DEF Ids, TypeOK, new

\* A token that replaces others is the only unused one of its purpose among
\* those that were loaded.
LEMMA ReplaceFacts ==
  ASSUME TypeOK, NEW t, seen[t].tokens \in Nat, NEW purpose \in Purposes, ReplaceTokens(t, purpose)
  PROVE  /\ tokens' \in Seq(OneTimeToken)
         /\ Len(tokens') = Len(tokens) + 1
         /\ Ids(tokens)' = Ids(tokens) \cup {Len(tokens) + 1}
         /\ \A i \in Ids(tokens) :
              /\ tokens'[i].purpose = tokens[i].purpose /\ tokens'[i].uses = tokens[i].uses
              /\ tokens[i].used = TRUE => tokens'[i].used = TRUE
              /\ i <= seen[t].tokens /\ tokens[i].purpose = purpose => tokens'[i].used = TRUE
         /\ tokens'[Len(tokens) + 1] = [purpose |-> purpose, used |-> FALSE, uses |-> 0]
<1>1. PICK k \in seen[t].tokens .. Len(tokens) :
        tokens' = Append([i \in Ids(tokens) |->
                        IF i <= k /\ tokens[i].purpose = purpose
                        THEN [tokens[i] EXCEPT !.used = TRUE] ELSE tokens[i]],
                     [purpose |-> purpose, used |-> FALSE, uses |-> 0])
  BY DEF ReplaceTokens
<1> DEFINE kept == [i \in Ids(tokens) |->
                      IF i <= k /\ tokens[i].purpose = purpose
                      THEN [tokens[i] EXCEPT !.used = TRUE] ELSE tokens[i]]
           new == [purpose |-> purpose, used |-> FALSE, uses |-> 0]
<1>2. new \in OneTimeToken
  BY DEF OneTimeToken
<1>0. \A i \in Ids(tokens) : i \in Nat
  BY RowTypes
<1>3. \A i \in Ids(tokens) :
        /\ tokens[i] \in OneTimeToken
        /\ [tokens[i] EXCEPT !.used = TRUE] \in OneTimeToken
        /\ [tokens[i] EXCEPT !.used = TRUE].purpose = tokens[i].purpose
        /\ [tokens[i] EXCEPT !.used = TRUE].uses = tokens[i].uses
        /\ [tokens[i] EXCEPT !.used = TRUE].used = TRUE
  BY RowTypes, UsedUp
<1>4. kept \in [Ids(tokens) -> OneTimeToken]
  BY <1>3
<1>5. Len(tokens) \in Nat /\ k \in Nat /\ seen[t].tokens <= k
  BY RowTypes
<1>6. ASSUME NEW i \in Ids(tokens)
      PROVE  /\ kept[i].purpose = tokens[i].purpose /\ kept[i].uses = tokens[i].uses
             /\ tokens[i].used = TRUE => kept[i].used = TRUE
             /\ i <= seen[t].tokens /\ tokens[i].purpose = purpose => kept[i].used = TRUE
  <2>1. ASSUME i <= seen[t].tokens PROVE i <= k
    BY <1>0, <1>5, <2>1
  <2>2. CASE i <= k /\ tokens[i].purpose = purpose
    BY <1>3, <2>2
  <2>3. CASE ~(i <= k /\ tokens[i].purpose = purpose)
    BY <2>1, <2>3
  <2> QED BY <2>2, <2>3
<1>7. tokens' = Append(kept, new)
  BY <1>1
<1> HIDE DEF kept, new
<1>8. kept \in Seq(OneTimeToken) /\ Len(kept) = Len(tokens) /\ DOMAIN kept = DOMAIN tokens
  BY <1>4, SameLength DEF Ids, TypeOK
<1>9. /\ tokens' \in Seq(OneTimeToken) /\ Len(tokens') = Len(kept) + 1
      /\ DOMAIN tokens' = DOMAIN kept \cup {Len(kept) + 1}
      /\ \A i \in DOMAIN kept : tokens'[i] = kept[i]
      /\ tokens'[Len(kept) + 1] = new
  BY <1>2, <1>7, <1>8, Appended
<1> QED BY <1>6, <1>8, <1>9 DEF Ids, new

\* A token that is consumed is used once more, and no other.
LEMMA ConsumeFacts ==
  ASSUME TypeOK, NEW i \in Ids(tokens), Consume(i)
  PROVE  /\ tokens' \in Seq(OneTimeToken)
         /\ Len(tokens') = Len(tokens) /\ Ids(tokens)' = Ids(tokens)
         /\ \A j \in Ids(tokens) \ {i} : tokens'[j] = tokens[j]
         /\ tokens'[i].purpose = tokens[i].purpose
         /\ tokens'[i].used = TRUE /\ tokens'[i].uses = tokens[i].uses + 1
<1>1. tokens[i] \in OneTimeToken /\ tokens[i].uses \in Nat
  BY RowTypes DEF OneTimeToken
<1> DEFINE new == [tokens[i] EXCEPT !.used = TRUE, !.uses = tokens[i].uses + 1]
<1>2. /\ new \in OneTimeToken /\ new.purpose = tokens[i].purpose
      /\ new.used = TRUE /\ new.uses = tokens[i].uses + 1
  <2>1. tokens[i].uses + 1 \in Nat
    BY <1>1
  <2> QED BY <1>1, <2>1, UsedUp
<1>3. tokens' = [tokens EXCEPT ![i] = new]
  BY <1>1 DEF Consume
<1> HIDE DEF new
<1>4. tokens \in [Ids(tokens) -> OneTimeToken]
  BY LenProperties DEF TypeOK, Ids
<1>5. tokens' \in [Ids(tokens) -> OneTimeToken]
  BY <1>2, <1>3, <1>4
<1>6. tokens' \in Seq(OneTimeToken) /\ Len(tokens') = Len(tokens) /\ Ids(tokens)' = Ids(tokens)
  BY <1>5, SameLength DEF TypeOK, Ids
<1> QED BY <1>2, <1>3, <1>4, <1>6

\* Who changes whether a second factor is asked for, and to what.
Disabling(t) == task[t].op = "disable" /\ task[t].arg = 0

FactorColumn(t) ==
  /\ task[t].op # "confirm" /\ ~Disabling(t) => user'.mfa_enabled = user.mfa_enabled
  /\ task[t].op = "confirm" /\ seen[t].user.mfa_enabled = user.mfa_enabled => user'.mfa_enabled = TRUE
  /\ Disabling(t) /\ seen[t].user.mfa_enabled = TRUE => user'.mfa_enabled = FALSE

\* What a handler commits to the user row and to the count of wrong passwords.
UserEffect(t) ==
  /\ user' \in User
  /\ misses' \in 0 .. MaxFailures
  /\ user'.password_hash = user.password_hash \/ task[t].op \in {"reset", "change"}
  /\ FactorColumn(t)
  /\ \/ user'.status = user.status
     \/ user'.status \notin {"disabled", "deleted"}
     \/ task[t].op = "delete"
     \/ task[t].op = "status" /\ task[t].arg = user'.status
  /\ \/ misses' = 0 /\ task[t].op \in Counting \ {"wrong"}
     \/ /\ task[t].op # "wrong" /\ misses' = misses
        /\ user'.failed_login_count = user.failed_login_count
        /\ user'.locked_until = user.locked_until
     \/ /\ task[t].op = "wrong" /\ misses' <= misses + 1
        /\ user'.failed_login_count = seen[t].user.failed_login_count + 1
        /\ user'.locked_until \in {user.locked_until, "future"}
        /\ /\ user'.failed_login_count >= MaxFailures
           /\ seen[t].user.locked_until # "future"
           => user'.locked_until = "future"

\* A handler that does not touch the user row.
LEMMA UserKept ==
  ASSUME TypeOK, NEW t, task[t].op \notin {"wrong", "confirm"}, ~Disabling(t), UNCHANGED <<user, misses>>
  PROVE  UserEffect(t)
<1>1. FactorColumn(t)
  BY DEF FactorColumn
<1> QED BY <1>1 DEF UserEffect, TypeOK

\* A handler that saves a user without touching password, count or lock.
LEMMA UserSaved ==
  ASSUME TypeOK, NEW t, seen[t].user \in User, task[t].op # "wrong",
         NEW new \in User, Save(t, new), misses' = misses,
         new.password_hash = seen[t].user.password_hash,
         new.failed_login_count = seen[t].user.failed_login_count,
         new.locked_until = seen[t].user.locked_until,
         task[t].op # "confirm" /\ ~Disabling(t) => new.mfa_enabled = seen[t].user.mfa_enabled,
         task[t].op = "confirm" => new.mfa_enabled = TRUE,
         Disabling(t) => new.mfa_enabled = FALSE,
         \/ new.status = seen[t].user.status
         \/ new.status \notin {"disabled", "deleted"}
         \/ task[t].op = "delete"
         \/ task[t].op = "status" /\ task[t].arg = new.status
  PROVE  UserEffect(t)
<1>1. /\ user' \in User
      /\ user'.status = IF new.status = seen[t].user.status THEN user.status ELSE new.status
      /\ user'.password_hash = user.password_hash
      /\ user'.mfa_enabled = IF new.mfa_enabled = seen[t].user.mfa_enabled
                             THEN user.mfa_enabled ELSE new.mfa_enabled
      /\ user'.failed_login_count = user.failed_login_count
      /\ user'.locked_until = user.locked_until
  BY SaveFacts
<1>2. misses' \in 0 .. MaxFailures
  BY DEF TypeOK
<1>3. FactorColumn(t)
  BY <1>1 DEF FactorColumn, Disabling
<1> QED BY <1>1, <1>2, <1>3 DEF UserEffect

\* A handler that resets the count.
LEMMA UserCleared ==
  ASSUME TypeOK, NEW t, seen[t].user \in User, task[t].op \in Counting \ {"wrong"},
         NEW new \in User, Save(t, new), misses' = 0,
         new.password_hash = seen[t].user.password_hash,
         new.mfa_enabled = seen[t].user.mfa_enabled,
         \/ new.status \notin {"disabled", "deleted"}
         \/ task[t].op = "status" /\ task[t].arg = new.status
  PROVE  UserEffect(t)
<1>1. /\ user' \in User
      /\ user'.status = IF new.status = seen[t].user.status THEN user.status ELSE new.status
      /\ user'.password_hash = user.password_hash
      /\ user'.mfa_enabled = user.mfa_enabled
  BY SaveFacts
<1>2. misses' \in 0 .. MaxFailures
  BY MaxFailuresIsPositive
<1>3. FactorColumn(t)
  BY <1>1 DEF FactorColumn, Disabling, Counting
<1> QED BY <1>1, <1>2, <1>3 DEF UserEffect

\* What each handler commits to the user row.
LEMMA UserEffects ==
  ASSUME Typed, NEW t \in Threads, Commit(t)
  PROVE  UserEffect(t)
<1>0. TypeOK /\ user \in User /\ misses \in 0 .. MaxFailures /\ Prepared(t)
  BY DEF Typed, TypeOK
<1>a. task[t].op # "idle" => seen[t].user \in User
  BY <1>0 DEF Prepared
<1> DEFINE old == seen[t].user
<1>1. CASE CommitVerify(t)
  <2> DEFINE new == [old EXCEPT !.email_verified = TRUE, !.status = "active"]
  <2>1. Save(t, new) /\ task[t].op = "verify" /\ misses' = misses /\ old \in User
    BY <1>a, <1>1 DEF CommitVerify, Committing
  <2>2. new \in User
    BY <2>1 DEF User, Statuses
  <2>3. /\ new.status = "active" /\ new.password_hash = old.password_hash
        /\ new.failed_login_count = old.failed_login_count /\ new.locked_until = old.locked_until
    BY <2>1 DEF User
  <2>4. new.mfa_enabled = old.mfa_enabled
    BY <2>1 DEF User
  <2> HIDE DEF new
  <2> QED BY <1>0, <2>1, <2>2, <2>3, <2>4, UserSaved DEF Disabling
<1>2. CASE \/ CommitToken(t, "resend", "email_verification") \/ CommitToken(t, "forgot", "password_reset")
           \/ CommitRefresh(t) \/ CommitReuse(t) \/ CommitLogout(t)
           \/ CommitLogoutAll(t, "logout_all") \/ CommitLogoutAll(t, "logout_others")
           \/ CommitRequestEmail(t) \/ CommitSetup(t) \/ CommitRegenerate(t)
           \/ CommitChallenge(t) \/ CommitIssue(t)
  BY <1>0, <1>2, UserKept DEF CommitToken, CommitRefresh, CommitReuse, CommitLogout, CommitLogoutAll,
     CommitRequestEmail, CommitSetup, CommitRegenerate, CommitChallenge, CommitIssue, Committing,
     Refuse, rows, Disabling
<1>3. CASE CommitWrongPassword(t)
  <2> DEFINE failures == old.failed_login_count + 1
             counted == [old EXCEPT !.failed_login_count = failures]
             locked == [counted EXCEPT !.status = "locked", !.locked_until = "future"]
             new == IF failures >= MaxFailures THEN locked ELSE counted
  <2>1. /\ Save(t, new) /\ task[t].op = "wrong" /\ old \in User
        /\ misses' = IF misses < MaxFailures THEN misses + 1 ELSE misses
    BY <1>a, <1>3 DEF CommitWrongPassword, Committing, Miss
  <2>2. failures \in Nat /\ old.failed_login_count \in Nat /\ failures # old.failed_login_count
    BY <2>1 DEF User
  <2> HIDE DEF failures
  <2>3. counted \in User /\ locked \in User
    BY <2>1, <2>2 DEF User, Statuses
  <2>4. /\ counted.password_hash = old.password_hash /\ counted.status = old.status
        /\ counted.failed_login_count = failures /\ counted.locked_until = old.locked_until
    BY <2>1 DEF User
  <2>5. counted.mfa_enabled = old.mfa_enabled
    BY <2>1 DEF User
  <2>6. /\ locked.password_hash = old.password_hash /\ locked.status = "locked"
        /\ locked.failed_login_count = failures /\ locked.locked_until = "future"
    BY <2>1 DEF User
  <2>7. locked.mfa_enabled = old.mfa_enabled
    BY <2>1 DEF User
  <2> HIDE DEF counted, locked
  <2>8. /\ new \in User /\ new.password_hash = old.password_hash
        /\ new.status \in {old.status, "locked"} /\ new.failed_login_count = failures
        /\ new.locked_until \in {old.locked_until, "future"}
        /\ failures >= MaxFailures => new.locked_until = "future"
    BY <2>3, <2>4, <2>6
  <2>9. new.mfa_enabled = old.mfa_enabled
    BY <2>5, <2>7
  <2> HIDE DEF new
  <2>10. /\ user' \in User
         /\ user'.status = IF new.status = old.status THEN user.status ELSE new.status
         /\ user'.password_hash = user.password_hash
         /\ user'.failed_login_count = failures
         /\ user'.locked_until = IF new.locked_until = old.locked_until
                                 THEN user.locked_until ELSE new.locked_until
    BY <1>0, <2>1, <2>2, <2>8, SaveFacts
  <2>11. user'.mfa_enabled = user.mfa_enabled
    BY <1>0, <2>1, <2>8, <2>9, SaveFacts
  <2>12. misses' \in 0 .. MaxFailures /\ misses' <= misses + 1
    BY <1>0, <2>1, MaxFailuresIsPositive
  <2>13. /\ user'.locked_until \in {user.locked_until, "future"}
         /\ failures >= MaxFailures /\ old.locked_until # "future" => user'.locked_until = "future"
    BY <2>8, <2>10
  <2>14. user'.status = user.status \/ user'.status \notin {"disabled", "deleted"}
    BY <2>8, <2>10
  <2>15. FactorColumn(t)
    BY <2>1, <2>11 DEF FactorColumn, Disabling
  <2> QED BY <2>1, <2>10, <2>12, <2>13, <2>14, <2>15 DEF UserEffect, failures
<1>b. ASSUME task[t].op # "idle"
      PROVE  /\ LoggedIn(t) \in User /\ LoggedIn(t).password_hash = old.password_hash
             /\ LoggedIn(t).mfa_enabled = old.mfa_enabled /\ LoggedIn(t).status = "active"
  <2>1. old \in User
    BY <1>a, <1>b
  <2>2. LoggedIn(t) \in User
    BY <2>1 DEF LoggedIn, User, Statuses
  <2>3. LoggedIn(t).password_hash = old.password_hash /\ LoggedIn(t).status = "active"
    BY <2>1 DEF LoggedIn, User
  <2>4. LoggedIn(t).mfa_enabled = old.mfa_enabled
    BY <2>1 DEF LoggedIn, User
  <2> QED BY <2>2, <2>3, <2>4
<1>4. CASE CommitLogin(t)
  <2>1. Save(t, LoggedIn(t)) /\ task[t].op = "login" /\ misses' = 0
    BY <1>4 DEF CommitLogin, Committing
  <2> QED BY <1>0, <1>a, <1>b, <2>1, UserCleared DEF Counting
<1>5. CASE CommitReset(t)
  <2> DEFINE cleared == [old EXCEPT !.failed_login_count = 0, !.locked_until = "none",
                           !.status = IF old.email_verified THEN "active" ELSE old.status]
  <2>1. task[t].op = "reset" /\ misses' = 0 /\ old \in User
    BY <1>a, <1>5 DEF CommitReset, Committing
  <2>2. PICK p \in Passwords :
          user' = [c \in DOMAIN user |->
                     IF c = "password_hash" THEN p
                     ELSE IF cleared[c] = old[c] THEN user[c] ELSE cleared[c]]
    BY <1>5 DEF CommitReset, SetPassword
  <2>3. cleared \in User
    BY <2>1 DEF User, Statuses
  <2>4. cleared.mfa_enabled = old.mfa_enabled
    BY <2>1 DEF User
  <2>5. cleared.status = "active" \/ cleared.status = old.status
    BY <2>1 DEF User
  <2> HIDE DEF cleared, old
  <2>6. DOMAIN user = {"status", "email_verified", "failed_login_count", "locked_until",
                       "deleted_at", "password_hash", "mfa_enabled"}
    BY <1>0 DEF User
  <2>7. user' = [status |-> IF cleared.status = old.status THEN user.status ELSE cleared.status,
                 email_verified |-> IF cleared.email_verified = old.email_verified
                                    THEN user.email_verified ELSE cleared.email_verified,
                 failed_login_count |-> IF cleared.failed_login_count = old.failed_login_count
                                        THEN user.failed_login_count ELSE cleared.failed_login_count,
                 locked_until |-> IF cleared.locked_until = old.locked_until
                                  THEN user.locked_until ELSE cleared.locked_until,
                 deleted_at |-> IF cleared.deleted_at = old.deleted_at
                                THEN user.deleted_at ELSE cleared.deleted_at,
                 password_hash |-> p,
                 mfa_enabled |-> IF cleared.mfa_enabled = old.mfa_enabled
                                 THEN user.mfa_enabled ELSE cleared.mfa_enabled]
    BY <2>2, <2>6
  <2>8. user' \in User
    BY <1>0, <2>3, <2>7 DEF User
  <2>9. user'.mfa_enabled = user.mfa_enabled
    BY <2>4, <2>7
  <2>10. user'.status = user.status \/ user'.status = "active"
    BY <2>5, <2>7
  <2>11. misses' \in 0 .. MaxFailures
    BY <2>1, MaxFailuresIsPositive
  <2>12. FactorColumn(t)
    BY <2>1, <2>9 DEF FactorColumn, Disabling
  <2> QED BY <2>1, <2>8, <2>10, <2>11, <2>12 DEF UserEffect, Counting
<1>6. CASE CommitChange(t)
  <2>1. task[t].op = "change" /\ misses' = misses
    BY <1>6 DEF CommitChange, Committing
  <2>2. PICK p \in Passwords : user' = [user EXCEPT !.password_hash = p]
    BY <1>6 DEF CommitChange
  <2>3. user' \in User
    BY <1>0, <2>2 DEF User
  <2>4. /\ user'.status = user.status /\ user'.failed_login_count = user.failed_login_count
        /\ user'.locked_until = user.locked_until
    BY <1>0, <2>2 DEF User
  <2>5. user'.mfa_enabled = user.mfa_enabled
    BY <1>0, <2>2 DEF User
  <2>6. FactorColumn(t)
    BY <2>1, <2>5 DEF FactorColumn, Disabling
  <2> QED BY <1>0, <2>1, <2>3, <2>4, <2>6 DEF UserEffect
<1>7. CASE CommitConfirmEmail(t)
  <2> DEFINE new == [old EXCEPT !.email_verified = TRUE]
  <2>1. task[t].op = "confirm_email" /\ misses' = misses /\ old \in User
    BY <1>a, <1>7 DEF CommitConfirmEmail, Committing, Refuse
  <2>2. UNCHANGED user \/ Save(t, new)
    BY <1>7 DEF CommitConfirmEmail, Refuse, rows
  <2>3. new \in User
    BY <2>1 DEF User
  <2>4. /\ new.status = old.status /\ new.password_hash = old.password_hash
        /\ new.failed_login_count = old.failed_login_count /\ new.locked_until = old.locked_until
    BY <2>1 DEF User
  <2>5. new.mfa_enabled = old.mfa_enabled
    BY <2>1 DEF User
  <2> HIDE DEF new
  <2> QED BY <1>0, <2>1, <2>2, <2>3, <2>4, <2>5, UserSaved, UserKept DEF Disabling
<1>8. CASE CommitStatus(t)
  <2> DEFINE new == [old EXCEPT !.status = task[t].arg]
             clear == [new EXCEPT !.failed_login_count = 0, !.locked_until = "none"]
  <2>1. /\ Save(t, IF task[t].arg = "active" THEN clear ELSE new)
        /\ task[t].op = "status" /\ old \in User
        /\ misses' = IF task[t].arg = "active" THEN 0 ELSE misses
    BY <1>a, <1>8 DEF CommitStatus, Committing
  <2>2. task[t].arg \in Statuses
    BY <1>0, <2>1 DEF Prepared, Argued
  <2>3. new \in User /\ clear \in User
    BY <2>1, <2>2 DEF User
  <2>4. /\ new.status = task[t].arg /\ new.password_hash = old.password_hash
        /\ new.failed_login_count = old.failed_login_count /\ new.locked_until = old.locked_until
    BY <2>1 DEF User
  <2>5. new.mfa_enabled = old.mfa_enabled /\ clear.mfa_enabled = old.mfa_enabled
    BY <2>1 DEF User
  <2>6. clear.status = task[t].arg /\ clear.password_hash = old.password_hash
    BY <2>1 DEF User
  <2> HIDE DEF new, clear
  <2>7. CASE task[t].arg = "active"
    BY <1>0, <2>1, <2>3, <2>5, <2>6, <2>7, UserCleared DEF Counting
  <2>8. CASE task[t].arg # "active"
    BY <1>0, <2>1, <2>3, <2>4, <2>5, <2>8, UserSaved DEF Disabling
  <2> QED BY <2>7, <2>8
<1>9. CASE CommitUnlock(t)
  <2> DEFINE status == IF old.email_verified THEN "active" ELSE "pending_verification"
             new == [LoggedIn(t) EXCEPT !.status = status]
  <2>1. Save(t, new) /\ task[t].op = "unlock" /\ misses' = 0
    BY <1>9 DEF CommitUnlock, Committing
  <2>2. status \in Statuses /\ status \notin {"disabled", "deleted"}
    BY DEF Statuses
  <2> HIDE DEF status
  <2>3. LoggedIn(t) \in User
    BY <1>b, <2>1
  <2>4. new \in User
    BY <2>2, <2>3 DEF User
  <2>5. new.status = status /\ new.password_hash = LoggedIn(t).password_hash
    BY <2>3 DEF User
  <2>6. new.mfa_enabled = LoggedIn(t).mfa_enabled
    BY <2>3 DEF User
  <2> HIDE DEF new
  <2> QED BY <1>0, <1>a, <1>b, <2>1, <2>2, <2>4, <2>5, <2>6, UserCleared DEF Counting
<1>10. CASE CommitDelete(t)
  <2> DEFINE new == [old EXCEPT !.status = "deleted", !.deleted_at = TRUE]
  <2>1. Save(t, new) /\ task[t].op = "delete" /\ misses' = misses /\ old \in User
    BY <1>a, <1>10 DEF CommitDelete, Committing
  <2>2. new \in User
    BY <2>1 DEF User, Statuses
  <2>3. /\ new.password_hash = old.password_hash
        /\ new.failed_login_count = old.failed_login_count /\ new.locked_until = old.locked_until
    BY <2>1 DEF User
  <2>4. new.mfa_enabled = old.mfa_enabled
    BY <2>1 DEF User
  <2> HIDE DEF new
  <2> QED BY <1>0, <2>1, <2>2, <2>3, <2>4, UserSaved DEF Disabling
<1>11. CASE CommitSuspend(t)
  <2> DEFINE new == [old EXCEPT !.status = "suspended"]
  <2>1. Save(t, new) /\ task[t].op = "suspend" /\ misses' = misses /\ old \in User
    BY <1>a, <1>11 DEF CommitSuspend, Committing
  <2>2. new \in User
    BY <2>1 DEF User, Statuses
  <2>3. /\ new.password_hash = old.password_hash /\ new.status = "suspended"
        /\ new.failed_login_count = old.failed_login_count /\ new.locked_until = old.locked_until
    BY <2>1 DEF User
  <2>4. new.mfa_enabled = old.mfa_enabled
    BY <2>1 DEF User
  <2> HIDE DEF new
  <2> QED BY <1>0, <2>1, <2>2, <2>3, <2>4, UserSaved DEF Disabling
<1>12. ASSUME NEW b \in BOOLEAN, Save(t, [old EXCEPT !.mfa_enabled = b]), misses' = misses,
              task[t].op = "confirm" => b = TRUE, Disabling(t) => b = FALSE,
              task[t].op = "confirm" \/ Disabling(t)
       PROVE  UserEffect(t)
  <2> DEFINE new == [old EXCEPT !.mfa_enabled = b]
  <2>1. old \in User
    BY <1>a, <1>12 DEF Disabling
  <2>2. new \in User
    BY <2>1 DEF User
  <2>3. /\ new.password_hash = old.password_hash /\ new.status = old.status
        /\ new.failed_login_count = old.failed_login_count /\ new.locked_until = old.locked_until
    BY <2>1 DEF User
  <2>4. new.mfa_enabled = b
    BY <2>1 DEF User
  <2>5. Save(t, new)
    BY <1>12
  <2> HIDE DEF new
  <2>6. /\ task[t].op = "confirm" => new.mfa_enabled = TRUE
        /\ Disabling(t) => new.mfa_enabled = FALSE
        /\ task[t].op = "confirm" \/ Disabling(t)
    BY <1>12, <2>4 DEF Disabling
  <2>7. task[t].op # "wrong"
    BY <2>6 DEF Disabling
  <2> QED BY <1>0, <1>12, <2>1, <2>2, <2>3, <2>5, <2>6, <2>7, UserSaved
<1>13. CASE CommitConfirm(t)
  <2>1. Save(t, [old EXCEPT !.mfa_enabled = TRUE]) /\ misses' = misses /\ task[t].op = "confirm"
    BY <1>13 DEF CommitConfirm, Committing
  <2>2. task[t].op = "confirm" => TRUE = TRUE
    OBVIOUS
  <2>3. ~Disabling(t)
    BY <2>1 DEF Disabling
  <2> QED BY <1>12, <2>1, <2>2, <2>3, Zenon
<1>14. CASE CommitDisable(t)
  <2>1. task[t].op = "disable" /\ misses' = misses
    BY <1>14 DEF CommitDisable, Committing, Refuse
  <2>2. CASE task[t].arg # 0
    <3>1. UNCHANGED user
      BY <1>14, <2>2 DEF CommitDisable, Refuse, rows
    <3> QED BY <1>0, <2>1, <2>2, <3>1, UserKept DEF Disabling
  <2>3. CASE task[t].arg = 0
    <3>1. Save(t, [old EXCEPT !.mfa_enabled = FALSE])
      BY <1>14, <2>3 DEF CommitDisable
    <3> QED BY <1>12, <2>1, <2>3, <3>1 DEF Disabling
  <2> QED BY <2>2, <2>3
<1> QED BY <1>1, <1>2, <1>3, <1>4, <1>5, <1>6, <1>7, <1>8, <1>9, <1>10, <1>11, <1>13, <1>14 DEF Commit

\* Handlers that end sessions.
Ending == {"reuse", "logout", "logout_all", "logout_others", "change", "reset", "status", "delete"}

\* What a handler commits to the sessions: nothing, a new one, one in the place
\* of another, or the end of some; and which families end with it.
Opened(t) ==
  /\ task[t].op \in {"login", "issue"} /\ ended' = ended
  /\ Ids(sessions)' = Ids(sessions) \cup {Len(sessions) + 1} /\ Len(sessions') = Len(sessions) + 1
  /\ \A s \in Ids(sessions) : sessions'[s] = sessions[s]
  /\ sessions'[Len(sessions) + 1].family = Len(sessions) + 1
  /\ sessions'[Len(sessions) + 1].password = seen[t].user.password_hash

Rotated(t) ==
  /\ task[t].op = "refresh" /\ ended' = ended
  /\ Ids(sessions)' = Ids(sessions) \cup {Len(sessions) + 1} /\ Len(sessions') = Len(sessions) + 1
  /\ \A s \in Ids(sessions) \ {task[t].arg} : sessions'[s] = sessions[s]
  /\ sessions'[task[t].arg].state # "live"
  /\ sessions'[task[t].arg].family = sessions[task[t].arg].family
  /\ sessions'[task[t].arg].password = sessions[task[t].arg].password
  /\ sessions'[Len(sessions) + 1].family = sessions[task[t].arg].family
  /\ sessions'[Len(sessions) + 1].password = sessions[task[t].arg].password

Cut(t) ==
  /\ task[t].op \in Ending
  /\ Ids(sessions)' = Ids(sessions) /\ Len(sessions') = Len(sessions)
  /\ \A s \in Ids(sessions) :
       /\ sessions'[s].family = sessions[s].family
       /\ sessions'[s].state = "live" => Live(s)
       /\ sessions'[s].password = sessions[s].password \/ (task[t].op = "change" /\ s = task[t].arg)
       /\ Live(s) /\ sessions'[s].state # "live" => Ends(task[t], s)

CutFamilies(t) ==
  /\ task[t].op = "change" => ended' = ended
  /\ task[t].op \in {"reset", "status", "delete"} => ended' = ended \cup Families(t)
  /\ task[t].op = "status" => task[t].arg \in {"locked", "disabled"}
  /\ task[t].op \in {"reuse", "logout"} => ended' = ended \cup {sessions[task[t].arg].family}
  /\ task[t].op \in {"logout_all", "logout_others"} =>
       ended' = ended \cup {sessions[s].family : s \in {r \in 1 .. seen[t].sessions : Other(r, task[t].arg)}}

CutSessions(t) ==
  /\ task[t].op = "logout" => sessions'[task[t].arg].state # "live"
  /\ \A s \in Ids(sessions) : s <= seen[t].sessions =>
       /\ task[t].op = "reuse" /\ sessions[s].family = sessions[task[t].arg].family
            => sessions'[s].state # "live"
       /\ task[t].op \in {"reset", "delete", "status"} => sessions'[s].state # "live"
       /\ task[t].op \in {"logout_all", "logout_others", "change"} /\ s # task[t].arg
            => sessions'[s].state # "live"
  /\ task[t].op = "change" /\ task[t].arg \in Ids(sessions) =>
       sessions'[task[t].arg].password = user'.password_hash

SessionEffect(t) ==
  /\ sessions' \in Seq(RefreshSession)
  /\ \/ UNCHANGED <<sessions, ended>> /\ ~(task[t].op = "delete")
        /\ ~(task[t].op = "status" /\ task[t].arg \in {"locked", "disabled"})
        /\ task[t].op \notin {"reset", "change"}
     \/ Opened(t)
     \/ Rotated(t)
     \/ Cut(t) /\ CutFamilies(t) /\ CutSessions(t)

\* What each handler commits to the sessions.
LEMMA SessionEffects ==
  ASSUME Typed, NEW t \in Threads, Commit(t)
  PROVE  SessionEffect(t)
<1>0. /\ TypeOK /\ Prepared(t) /\ seen[t].sessions \in Nat /\ sessions \in Seq(RefreshSession)
      /\ Len(sessions) \in Nat /\ Ids(sessions) = 1 .. Len(sessions)
      /\ \A s \in Ids(sessions) : sessions[s] \in RefreshSession
  BY RowTypes DEF Typed, TypeOK, Reads
<1>a. task[t].op # "idle" => seen[t].user \in User /\ seen[t].user.password_hash \in Passwords
  BY <1>0 DEF Prepared, User
<1>1. CASE \/ CommitVerify(t) \/ CommitWrongPassword(t)
           \/ CommitToken(t, "resend", "email_verification") \/ CommitToken(t, "forgot", "password_reset")
           \/ CommitRequestEmail(t) \/ CommitConfirmEmail(t) \/ CommitUnlock(t) \/ CommitSuspend(t)
           \/ CommitSetup(t) \/ CommitConfirm(t) \/ CommitDisable(t) \/ CommitRegenerate(t)
           \/ CommitChallenge(t) \/ (CommitLogout(t) /\ task[t].op = "logout_void")
  <2>1. UNCHANGED <<sessions, ended>>
    BY <1>1 DEF CommitVerify, CommitWrongPassword, CommitToken, CommitRequestEmail, CommitConfirmEmail,
       CommitUnlock, CommitSuspend, CommitSetup, CommitConfirm, CommitDisable, CommitRegenerate,
       CommitChallenge, CommitLogout, Committing, Refuse, rows
  <2>2. task[t].op \notin {"delete", "status", "reset", "change"}
    BY <1>1 DEF CommitVerify, CommitWrongPassword, CommitToken, CommitRequestEmail, CommitConfirmEmail,
       CommitUnlock, CommitSuspend, CommitSetup, CommitConfirm, CommitDisable, CommitRegenerate,
       CommitChallenge, Committing
  <2> QED BY <1>0, <2>1, <2>2 DEF SessionEffect
<1>2. ASSUME Open(Len(sessions) + 1, seen[t].user.password_hash), task[t].op \in {"login", "issue"},
             ended' = ended
      PROVE  SessionEffect(t)
  <2>1. Len(sessions) + 1 \in Nat
    BY <1>0
  <2>2. /\ sessions' \in Seq(RefreshSession)
        /\ Len(sessions') = Len(sessions) + 1
        /\ Ids(sessions)' = Ids(sessions) \cup {Len(sessions) + 1}
        /\ \A s \in Ids(sessions) : sessions'[s] = sessions[s]
        /\ sessions'[Len(sessions) + 1] = [family |-> Len(sessions) + 1, state |-> "live",
                                           password |-> seen[t].user.password_hash]
    BY <1>0, <1>a, <1>2, <2>1, OpenFacts
  <2>3. Opened(t)
    BY <1>2, <2>2 DEF Opened
  <2> QED BY <2>2, <2>3 DEF SessionEffect
<1>3. CASE CommitLogin(t)
  <2>1. task[t].op = "login" /\ ended' = ended
    BY <1>3 DEF CommitLogin, Committing
  <2>2. UNCHANGED sessions \/ Open(Len(sessions) + 1, seen[t].user.password_hash)
    BY <1>3 DEF CommitLogin
  <2> QED BY <1>0, <1>2, <2>1, <2>2 DEF SessionEffect
<1>4. CASE CommitIssue(t)
  <2>1. task[t].op = "issue" /\ ended' = ended /\ Open(Len(sessions) + 1, seen[t].user.password_hash)
    BY <1>4 DEF CommitIssue, Committing
  <2> QED BY <1>2, <2>1
<1>5. CASE CommitRefresh(t)
  <2> DEFINE s == task[t].arg
             old == [sessions EXCEPT ![s].state = "replaced"]
             gone == [sessions[s] EXCEPT !.state = "replaced"]
             new == [sessions[s] EXCEPT !.state = "live"]
  <2>1. task[t].op = "refresh" /\ ended' = ended /\ sessions' = Append(old, new)
    BY <1>5 DEF CommitRefresh, Committing
  <2>2. s \in Ids(sessions) /\ sessions[s] \in RefreshSession
    BY <1>0, <2>1 DEF Prepared, Argued
  <2>3. /\ new \in RefreshSession /\ new.family = sessions[s].family /\ new.password = sessions[s].password
    BY <2>2 DEF RefreshSession
  <2>4. /\ gone \in RefreshSession /\ gone.family = sessions[s].family
        /\ gone.password = sessions[s].password /\ gone.state = "replaced"
    BY <2>2 DEF RefreshSession
  <2>5. sessions \in [Ids(sessions) -> RefreshSession]
    BY <1>0, LenProperties
  <2>6. old = [sessions EXCEPT ![s] = gone]
    BY <2>5
  <2> HIDE DEF old, gone, new
  <2>7. old \in [Ids(sessions) -> RefreshSession] /\ old[s] = gone
        /\ \A r \in Ids(sessions) \ {s} : old[r] = sessions[r]
    BY <2>2, <2>4, <2>5, <2>6
  <2>8. old \in Seq(RefreshSession) /\ Len(old) = Len(sessions) /\ DOMAIN old = Ids(sessions)
    BY <1>0, <2>7, SameLength DEF Ids
  <2>9. /\ sessions' \in Seq(RefreshSession) /\ Len(sessions') = Len(sessions) + 1
        /\ Ids(sessions)' = Ids(sessions) \cup {Len(sessions) + 1}
        /\ \A r \in Ids(sessions) : sessions'[r] = old[r]
        /\ sessions'[Len(sessions) + 1] = new
    BY <2>1, <2>3, <2>8, Appended DEF Ids
  <2>10. Rotated(t)
    BY <2>1, <2>2, <2>3, <2>4, <2>7, <2>9 DEF Rotated
  <2> QED BY <2>9, <2>10 DEF SessionEffect
<1>6. ASSUME NEW S, RevokeAll(t, S), task[t].op \in Ending \ {"change", "logout"},
             \A s \in Ids(sessions) \cap S : Ends(task[t], s),
             task[t].op = "reuse" =>
               S = {s \in Ids(sessions) : sessions[s].family = sessions[task[t].arg].family},
             task[t].op \in {"reset", "delete", "status"} => S = Ids(sessions),
             task[t].op \in {"logout_all", "logout_others"} => S = Ids(sessions) \ {task[t].arg}
      PROVE  sessions' \in Seq(RefreshSession) /\ Cut(t) /\ CutSessions(t)
  <2>1. /\ sessions' \in Seq(RefreshSession)
        /\ Len(sessions') = Len(sessions) /\ Ids(sessions)' = Ids(sessions)
        /\ \A s \in Ids(sessions) :
              /\ sessions'[s].family = sessions[s].family
              /\ sessions'[s].password = sessions[s].password
              /\ sessions'[s].state = "live" => Live(s)
              /\ s \in S /\ s <= seen[t].sessions => sessions'[s].state # "live"
              /\ s \notin S => sessions'[s] = sessions[s]
    BY <1>0, <1>6, RevokeFacts
  <2>2. Cut(t)
    BY <1>6, <2>1 DEF Cut, Live
  <2>3. CutSessions(t)
    BY <1>6, <2>1 DEF CutSessions, Ending
  <2> QED BY <2>1, <2>2, <2>3
<1>7. CASE CommitReuse(t)
  <2> DEFINE S == {s \in Ids(sessions) : sessions[s].family = sessions[task[t].arg].family}
  <2>1. task[t].op = "reuse" /\ RevokeAll(t, S) /\ ended' = ended \cup {sessions[task[t].arg].family}
    BY <1>7 DEF CommitReuse, Committing
  <2>2. \A s \in Ids(sessions) \cap S : Ends(task[t], s)
    BY <2>1 DEF Ends
  <2>3. sessions' \in Seq(RefreshSession) /\ Cut(t) /\ CutSessions(t)
    BY <1>6, <2>1, <2>2 DEF Ending
  <2>4. CutFamilies(t)
    BY <2>1 DEF CutFamilies
  <2> QED BY <2>3, <2>4 DEF SessionEffect
<1>8. CASE CommitLogoutAll(t, "logout_all") \/ CommitLogoutAll(t, "logout_others")
  <2>1. /\ task[t].op \in {"logout_all", "logout_others"} /\ RevokeAll(t, Ids(sessions) \ {task[t].arg})
        /\ ended' = ended \cup {sessions[s].family :
                                  s \in {r \in 1 .. seen[t].sessions : Other(r, task[t].arg)}}
    BY <1>8 DEF CommitLogoutAll, Committing
  <2>2. \A s \in Ids(sessions) : Ends(task[t], s)
    BY <2>1 DEF Ends
  <2>3. sessions' \in Seq(RefreshSession) /\ Cut(t) /\ CutSessions(t)
    BY <1>6, <2>1, <2>2 DEF Ending
  <2>4. CutFamilies(t)
    BY <2>1 DEF CutFamilies
  <2> QED BY <2>3, <2>4 DEF SessionEffect
<1>9. CASE CommitReset(t) \/ CommitDelete(t)
  <2>1. /\ task[t].op \in {"reset", "delete"} /\ RevokeAll(t, Ids(sessions))
        /\ ended' = ended \cup Families(t)
    BY <1>9 DEF CommitReset, CommitDelete, Committing
  <2>2. \A s \in Ids(sessions) : Ends(task[t], s)
    BY <2>1 DEF Ends
  <2>3. sessions' \in Seq(RefreshSession) /\ Cut(t) /\ CutSessions(t)
    BY <1>6, <2>1, <2>2 DEF Ending
  <2>4. CutFamilies(t)
    BY <2>1 DEF CutFamilies
  <2> QED BY <2>3, <2>4 DEF SessionEffect
<1>10. CASE CommitStatus(t)
  <2>1. task[t].op = "status"
    BY <1>10 DEF CommitStatus, Committing
  <2>2. CASE task[t].arg \in {"locked", "disabled"}
    <3>1. RevokeAll(t, Ids(sessions)) /\ ended' = ended \cup Families(t)
      BY <1>10, <2>2 DEF CommitStatus
    <3>2. \A s \in Ids(sessions) : Ends(task[t], s)
      BY <2>1, <2>2 DEF Ends
    <3>3. sessions' \in Seq(RefreshSession) /\ Cut(t) /\ CutSessions(t)
      BY <1>6, <2>1, <3>1, <3>2 DEF Ending
    <3>4. CutFamilies(t)
      BY <2>1, <2>2, <3>1 DEF CutFamilies
    <3> QED BY <3>3, <3>4 DEF SessionEffect
  <2>3. CASE task[t].arg \notin {"locked", "disabled"}
    <3>1. UNCHANGED <<sessions, ended>>
      BY <1>10, <2>3 DEF CommitStatus
    <3> QED BY <1>0, <2>1, <2>3, <3>1 DEF SessionEffect
  <2> QED BY <2>2, <2>3
<1>11. CASE CommitLogout(t) /\ task[t].op # "logout_void"
  <2> DEFINE s == task[t].arg
             gone == [sessions[s] EXCEPT !.state = IF Live(s) THEN "revoked" ELSE @]
  <2>1. /\ task[t].op = "logout" /\ ended' = ended \cup {sessions[s].family}
        /\ sessions' = [sessions EXCEPT ![s] = gone]
    BY <1>11 DEF CommitLogout, Committing
  <2>2. s \in Ids(sessions) /\ sessions[s] \in RefreshSession
    BY <1>0, <2>1 DEF Prepared, Argued
  <2>3. /\ gone \in RefreshSession /\ gone.family = sessions[s].family
        /\ gone.password = sessions[s].password /\ gone.state # "live"
    BY <2>2 DEF RefreshSession, Live
  <2> HIDE DEF gone
  <2>4. sessions \in [Ids(sessions) -> RefreshSession]
    BY <1>0, LenProperties
  <2>5. /\ sessions' \in [Ids(sessions) -> RefreshSession] /\ sessions'[s] = gone
        /\ \A r \in Ids(sessions) \ {s} : sessions'[r] = sessions[r]
    BY <2>1, <2>2, <2>3, <2>4
  <2>6. /\ sessions' \in Seq(RefreshSession) /\ Len(sessions') = Len(sessions)
        /\ Ids(sessions)' = Ids(sessions)
    BY <1>0, <2>5, SameLength DEF Ids
  <2>7. Ends(task[t], s)
    BY <2>1 DEF Ends
  <2>8. Cut(t)
    <3> SUFFICES ASSUME NEW r \in Ids(sessions)
                 PROVE  /\ sessions'[r].family = sessions[r].family
                        /\ sessions'[r].state = "live" => Live(r)
                        /\ sessions'[r].password = sessions[r].password
                        /\ Live(r) /\ sessions'[r].state # "live" => Ends(task[t], r)
      BY <2>1, <2>6 DEF Cut, Ending
    <3>1. CASE r = s
      BY <2>3, <2>5, <2>7, <3>1
    <3>2. CASE r # s
      BY <2>5, <3>2 DEF Live
    <3> QED BY <3>1, <3>2
  <2>9. CutFamilies(t)
    BY <2>1 DEF CutFamilies
  <2>10. CutSessions(t)
    BY <2>1, <2>3, <2>5 DEF CutSessions
  <2> QED BY <2>6, <2>8, <2>9, <2>10 DEF SessionEffect
<1>12. CASE CommitChange(t)
  <2> DEFINE current == task[t].arg
  <2>1. task[t].op = "change" /\ ended' = ended
    BY <1>12 DEF CommitChange, Committing
  <2>2. PICK p \in Passwords, k \in seen[t].sessions .. Len(sessions) :
          /\ user' = [user EXCEPT !.password_hash = p]
          /\ sessions' = [s \in Ids(sessions) |->
               CASE s = current -> [sessions[s] EXCEPT !.password = p]
                 [] s # current /\ s <= k /\ Live(s) -> [sessions[s] EXCEPT !.state = "revoked"]
                 [] OTHER -> sessions[s]]
    BY <1>12 DEF CommitChange
  <2>3. user'.password_hash = p
    BY <2>2 DEF TypeOK, Typed, User
  <2>4. k \in Nat /\ seen[t].sessions <= k
    BY <1>0
  <2>5. ASSUME NEW s \in Ids(sessions)
        PROVE  /\ sessions'[s] \in RefreshSession
               /\ sessions'[s].family = sessions[s].family
               /\ sessions'[s].state = "live" => Live(s)
               /\ s # current => sessions'[s].password = sessions[s].password
               /\ s = current => sessions'[s].password = p
               /\ s # current /\ s <= seen[t].sessions => sessions'[s].state # "live"
    <3>1. CASE s = current
      <4>1. sessions'[s] = [sessions[s] EXCEPT !.password = p]
        BY <2>2, <3>1
      <4>2. sessions[s] \in RefreshSession
        BY <1>0
      <4> QED BY <3>1, <4>1, <4>2 DEF RefreshSession, Live
    <3>2. CASE s # current /\ s <= k /\ Live(s)
      <4>1. sessions'[s] = [sessions[s] EXCEPT !.state = "revoked"]
        BY <2>2, <3>2
      <4> QED BY <1>0, <3>2, <4>1, Revoked
    <3>3. CASE s # current /\ ~(s <= k /\ Live(s))
      <4>1. sessions'[s] = sessions[s]
        BY <2>2, <3>3
      <4>2. s <= seen[t].sessions => s <= k
        BY <1>0, <2>4
      <4> QED BY <1>0, <3>3, <4>1, <4>2 DEF Live
    <3> QED BY <3>1, <3>2, <3>3
  <2>6. sessions' \in [Ids(sessions) -> RefreshSession]
    BY <2>2, <2>5
  <2>7. /\ sessions' \in Seq(RefreshSession) /\ Len(sessions') = Len(sessions)
        /\ Ids(sessions)' = Ids(sessions)
    BY <1>0, <2>6, SameLength DEF Ids
  <2>8. \A s \in Ids(sessions) : Ends(task[t], s)
    BY <2>1 DEF Ends
  <2>9. Cut(t)
    BY <2>1, <2>5, <2>7, <2>8 DEF Cut, Ending
  <2>10. CutFamilies(t)
    BY <2>1 DEF CutFamilies
  <2>11. CutSessions(t)
    BY <2>1, <2>3, <2>5 DEF CutSessions
  <2> QED BY <2>7, <2>9, <2>10, <2>11 DEF SessionEffect
<1> QED BY <1>1, <1>3, <1>4, <1>5, <1>7, <1>8, <1>9, <1>10, <1>11, <1>12 DEF Commit

Consumers == {"verify", "reset", "confirm_email"}

PurposeOf(op) ==
  IF op \in {"verify", "resend"} THEN "email_verification"
  ELSE IF op \in {"reset", "forgot"} THEN "password_reset" ELSE "email_change"

\* What a handler commits to the tokens: nothing, the use of one, one in the
\* place of others, or one beside the others.
Used(t) ==
  /\ task[t].op \in Consumers
  /\ Len(tokens') = Len(tokens) /\ Ids(tokens)' = Ids(tokens)
  /\ \A i \in Ids(tokens) \ {task[t].arg} : tokens'[i] = tokens[i]
  /\ tokens'[task[t].arg].purpose = tokens[task[t].arg].purpose
  /\ tokens'[task[t].arg].used = TRUE
  /\ tokens'[task[t].arg].uses = tokens[task[t].arg].uses + 1

Replaced(t) ==
  /\ task[t].op \in {"resend", "forgot"}
  /\ Len(tokens') = Len(tokens) + 1 /\ Ids(tokens)' = Ids(tokens) \cup {Len(tokens) + 1}
  /\ \A i \in Ids(tokens) :
       /\ tokens'[i].purpose = tokens[i].purpose /\ tokens'[i].uses = tokens[i].uses
       /\ tokens[i].used = TRUE => tokens'[i].used = TRUE
       /\ i <= seen[t].tokens /\ tokens[i].purpose = PurposeOf(task[t].op) => tokens'[i].used = TRUE
  /\ tokens'[Len(tokens) + 1].purpose = PurposeOf(task[t].op)
  /\ tokens'[Len(tokens) + 1].uses = 0

Added(t) ==
  /\ task[t].op = "request_email"
  /\ Len(tokens') = Len(tokens) + 1 /\ Ids(tokens)' = Ids(tokens) \cup {Len(tokens) + 1}
  /\ \A i \in Ids(tokens) : tokens'[i] = tokens[i]
  /\ tokens'[Len(tokens) + 1].purpose = "email_change"
  /\ tokens'[Len(tokens) + 1].uses = 0

TokenEffect(t) ==
  /\ tokens' \in Seq(OneTimeToken)
  /\ UNCHANGED tokens \/ Used(t) \/ Replaced(t) \/ Added(t)

LEMMA TokenEffects ==
  ASSUME Typed, NEW t \in Threads, Commit(t)
  PROVE  TokenEffect(t)
<1>0. TypeOK /\ Prepared(t) /\ seen[t].tokens \in Nat /\ tokens \in Seq(OneTimeToken)
  BY DEF Typed, TypeOK, Reads
<1>1. CASE \/ CommitWrongPassword(t) \/ CommitLogin(t) \/ CommitRefresh(t) \/ CommitReuse(t)
           \/ CommitLogout(t) \/ CommitLogoutAll(t, "logout_all") \/ CommitLogoutAll(t, "logout_others")
           \/ CommitChange(t) \/ CommitStatus(t) \/ CommitUnlock(t) \/ CommitDelete(t) \/ CommitSuspend(t)
           \/ CommitSetup(t) \/ CommitConfirm(t) \/ CommitDisable(t) \/ CommitRegenerate(t)
           \/ CommitChallenge(t) \/ CommitIssue(t)
  <2>1. UNCHANGED tokens
    BY <1>1 DEF CommitWrongPassword, CommitLogin, CommitRefresh, CommitReuse, CommitLogout,
       CommitLogoutAll, CommitChange, CommitStatus, CommitUnlock, CommitDelete, CommitSuspend,
       CommitSetup, CommitConfirm, CommitDisable, CommitRegenerate, CommitChallenge, CommitIssue,
       Refuse, rows
  <2> QED BY <1>0, <2>1 DEF TokenEffect
<1>2. ASSUME Consume(task[t].arg), task[t].op \in Consumers
      PROVE  TokenEffect(t)
  <2>1. task[t].arg \in Ids(tokens)
    BY <1>0, <1>2 DEF Prepared, Argued, Consumers
  <2>2. tokens' \in Seq(OneTimeToken) /\ Used(t)
    BY <1>0, <1>2, <2>1, ConsumeFacts DEF Used
  <2> QED BY <2>2 DEF TokenEffect
<1>3. CASE CommitVerify(t) \/ CommitReset(t)
  <2>1. Consume(task[t].arg) /\ task[t].op \in Consumers
    BY <1>3 DEF CommitVerify, CommitReset, Committing, Consumers
  <2> QED BY <1>2, <2>1
<1>4. CASE CommitConfirmEmail(t)
  <2>1. task[t].op \in Consumers
    BY <1>4 DEF CommitConfirmEmail, Committing, Consumers
  <2>2. UNCHANGED tokens \/ Consume(task[t].arg)
    BY <1>4 DEF CommitConfirmEmail, Refuse, rows
  <2> QED BY <1>0, <1>2, <2>1, <2>2 DEF TokenEffect
<1>5. ASSUME NEW op \in {"resend", "forgot"}, CommitToken(t, op, PurposeOf(op))
      PROVE  TokenEffect(t)
  <2>1. task[t].op = op /\ ReplaceTokens(t, PurposeOf(op)) /\ PurposeOf(op) \in Purposes
    BY <1>5 DEF CommitToken, Committing, PurposeOf, Purposes
  <2> DEFINE new == [purpose |-> PurposeOf(op), used |-> FALSE, uses |-> 0]
  <2>2. /\ tokens' \in Seq(OneTimeToken)
        /\ Len(tokens') = Len(tokens) + 1
        /\ Ids(tokens)' = Ids(tokens) \cup {Len(tokens) + 1}
        /\ \A i \in Ids(tokens) :
             /\ tokens'[i].purpose = tokens[i].purpose /\ tokens'[i].uses = tokens[i].uses
             /\ tokens[i].used = TRUE => tokens'[i].used = TRUE
             /\ i <= seen[t].tokens /\ tokens[i].purpose = PurposeOf(op) => tokens'[i].used = TRUE
        /\ tokens'[Len(tokens) + 1] = new
    BY <1>0, <2>1, ReplaceFacts
  <2>3. new.purpose = PurposeOf(op) /\ new.uses = 0
    OBVIOUS
  <2> HIDE DEF new
  <2>4. Replaced(t)
    BY <1>5, <2>1, <2>2, <2>3 DEF Replaced
  <2> QED BY <2>2, <2>4 DEF TokenEffect
<1>6. CASE CommitToken(t, "resend", "email_verification") \/ CommitToken(t, "forgot", "password_reset")
  BY <1>5, <1>6 DEF PurposeOf
<1>7. CASE CommitRequestEmail(t)
  <2> DEFINE new == [purpose |-> "email_change", used |-> FALSE, uses |-> 0]
  <2>1. task[t].op = "request_email" /\ tokens' = Append(tokens, new)
    BY <1>7 DEF CommitRequestEmail, Committing
  <2>2. new \in OneTimeToken /\ new.purpose = "email_change" /\ new.uses = 0
    BY DEF OneTimeToken, Purposes
  <2> HIDE DEF new
  <2>3. /\ tokens' \in Seq(OneTimeToken) /\ Len(tokens') = Len(tokens) + 1
        /\ Ids(tokens)' = Ids(tokens) \cup {Len(tokens) + 1}
        /\ \A i \in Ids(tokens) : tokens'[i] = tokens[i]
        /\ tokens'[Len(tokens) + 1] = new
    BY <1>0, <2>1, <2>2, Appended DEF Ids
  <2>4. Added(t)
    BY <2>1, <2>2, <2>3 DEF Added
  <2> QED BY <2>3, <2>4 DEF TokenEffect
<1> QED BY <1>1, <1>3, <1>4, <1>6, <1>7 DEF Commit

\* What a handler commits to the backup codes: nothing, the use of one, or a new
\* batch in the place of the others.
Spent(t) ==
  /\ task[t].op = "challenge" /\ task[t].arg \in Ids(codes)
  /\ Len(codes') = Len(codes) /\ Ids(codes)' = Ids(codes)
  /\ \A c \in Ids(codes) \ {task[t].arg} : codes'[c] = codes[c]
  /\ codes[task[t].arg].state # "gone" /\ codes'[task[t].arg].state = "used"
  /\ codes'[task[t].arg].uses = codes[task[t].arg].uses + 1

Renewed(t) ==
  /\ \/ /\ Disabling(t)
        /\ Len(codes') = Len(codes) /\ Ids(codes)' = Ids(codes)
     \/ /\ task[t].op \in Replacing
        /\ Len(codes') = Len(codes) + 1 /\ Ids(codes)' = Ids(codes) \cup {Len(codes) + 1}
        /\ codes'[Len(codes) + 1].uses = 0 /\ codes'[Len(codes) + 1].state = "unused"
  /\ \A c \in Ids(codes) : /\ codes'[c].uses = codes[c].uses
                           /\ codes'[c].state \in {codes[c].state, "gone"}
                           /\ c <= seen[t].codes => codes'[c].state = "gone"

CodeEffect(t) ==
  /\ codes' \in Seq(BackupCode)
  /\ \/ UNCHANGED codes /\ task[t].op # "confirm" /\ ~Disabling(t)
     \/ Spent(t) \/ Renewed(t)

LEMMA DeleteFacts ==
  ASSUME TypeOK, NEW k \in Nat
  PROVE  /\ DeleteCodes(k) \in Seq(BackupCode)
         /\ Len(DeleteCodes(k)) = Len(codes) /\ DOMAIN DeleteCodes(k) = Ids(codes)
         /\ \A c \in Ids(codes) : /\ DeleteCodes(k)[c].uses = codes[c].uses
                                  /\ DeleteCodes(k)[c].state \in {codes[c].state, "gone"}
                                  /\ c <= k => DeleteCodes(k)[c].state = "gone"
<1>1. ASSUME NEW r \in BackupCode
      PROVE  /\ [r EXCEPT !.state = "gone"] \in BackupCode
             /\ [r EXCEPT !.state = "gone"].uses = r.uses
             /\ [r EXCEPT !.state = "gone"].state = "gone"
  BY DEF BackupCode
<1>2. \A c \in Ids(codes) : codes[c] \in BackupCode
  BY RowTypes
<1>3. /\ DeleteCodes(k) \in [Ids(codes) -> BackupCode]
      /\ \A c \in Ids(codes) : /\ DeleteCodes(k)[c].uses = codes[c].uses
                               /\ DeleteCodes(k)[c].state \in {codes[c].state, "gone"}
                               /\ c <= k => DeleteCodes(k)[c].state = "gone"
  BY <1>1, <1>2 DEF DeleteCodes
<1>4. codes \in Seq(BackupCode)
  BY DEF TypeOK
<1> QED BY <1>3, <1>4, SameLength DEF Ids

LEMMA CodeEffects ==
  ASSUME Typed, NEW t \in Threads, Commit(t)
  PROVE  CodeEffect(t)
<1>0. TypeOK /\ Prepared(t) /\ seen[t].codes \in Nat /\ codes \in Seq(BackupCode) /\ Len(codes) \in Nat
  BY RowTypes DEF Typed, TypeOK, Reads
<1>1. CASE \/ CommitVerify(t) \/ CommitWrongPassword(t) \/ CommitLogin(t)
           \/ CommitToken(t, "resend", "email_verification") \/ CommitToken(t, "forgot", "password_reset")
           \/ CommitRefresh(t) \/ CommitReuse(t) \/ CommitLogout(t)
           \/ CommitLogoutAll(t, "logout_all") \/ CommitLogoutAll(t, "logout_others")
           \/ CommitReset(t) \/ CommitChange(t) \/ CommitRequestEmail(t) \/ CommitConfirmEmail(t)
           \/ CommitStatus(t) \/ CommitUnlock(t) \/ CommitDelete(t) \/ CommitSuspend(t)
           \/ CommitSetup(t) \/ CommitIssue(t)
  <2>1. UNCHANGED codes
    BY <1>1 DEF CommitVerify, CommitWrongPassword, CommitLogin, CommitToken, CommitRefresh, CommitReuse,
       CommitLogout, CommitLogoutAll, CommitReset, CommitChange, CommitRequestEmail, CommitConfirmEmail,
       CommitStatus, CommitUnlock, CommitDelete, CommitSuspend, CommitSetup, CommitIssue, Refuse, rows
  <2>2. task[t].op # "confirm" /\ ~Disabling(t)
    BY <1>1 DEF CommitVerify, CommitWrongPassword, CommitLogin, CommitToken, CommitRefresh, CommitReuse,
       CommitLogout, CommitLogoutAll, CommitReset, CommitChange, CommitRequestEmail, CommitConfirmEmail,
       CommitStatus, CommitUnlock, CommitDelete, CommitSuspend, CommitSetup, CommitIssue, Committing,
       Disabling
  <2> QED BY <1>0, <2>1, <2>2 DEF CodeEffect
<1>a. \A c \in Ids(codes) : c \in Nat
  BY <1>0, RowTypes
<1>2. ASSUME ReplaceCodes(t), task[t].op \in Replacing
      PROVE  CodeEffect(t)
  <2> DEFINE new == [state |-> "unused", uses |-> 0]
  <2>1. PICK k \in seen[t].codes .. Len(codes) : codes' = Append(DeleteCodes(k), new)
    BY <1>2 DEF ReplaceCodes
  <2>2. k \in Nat /\ \A c \in Ids(codes) : c <= seen[t].codes => c <= k
    BY <1>0, <1>a
  <2>3. new \in BackupCode /\ new.uses = 0 /\ new.state = "unused"
    BY DEF BackupCode
  <2> HIDE DEF new
  <2>4. /\ DeleteCodes(k) \in Seq(BackupCode)
        /\ Len(DeleteCodes(k)) = Len(codes) /\ DOMAIN DeleteCodes(k) = Ids(codes)
        /\ \A c \in Ids(codes) : /\ DeleteCodes(k)[c].uses = codes[c].uses
                                 /\ DeleteCodes(k)[c].state \in {codes[c].state, "gone"}
                                 /\ c <= seen[t].codes => DeleteCodes(k)[c].state = "gone"
    BY <1>0, <2>2, DeleteFacts
  <2>5. /\ codes' \in Seq(BackupCode) /\ Len(codes') = Len(codes) + 1
        /\ Ids(codes)' = Ids(codes) \cup {Len(codes) + 1}
        /\ \A c \in Ids(codes) : codes'[c] = DeleteCodes(k)[c]
        /\ codes'[Len(codes) + 1] = new
    BY <2>1, <2>3, <2>4, Appended DEF Ids
  <2>6. Renewed(t)
    BY <1>2, <2>3, <2>4, <2>5 DEF Renewed
  <2> QED BY <2>5, <2>6 DEF CodeEffect
<1>3. CASE CommitConfirm(t) \/ CommitRegenerate(t)
  <2>1. task[t].op \in Replacing
    BY <1>3 DEF CommitConfirm, CommitRegenerate, Committing, Replacing
  <2>2. ReplaceCodes(t) \/ (UNCHANGED codes /\ task[t].op = "regenerate")
    BY <1>3 DEF CommitConfirm, CommitRegenerate, Committing, Refuse, rows
  <2> QED BY <1>0, <1>2, <2>1, <2>2 DEF CodeEffect, Disabling
<1>4. CASE CommitDisable(t)
  <2>1. task[t].op = "disable"
    BY <1>4 DEF CommitDisable, Committing
  <2>2. CASE UNCHANGED codes /\ task[t].arg # 0
    BY <1>0, <2>1, <2>2 DEF CodeEffect, Disabling
  <2>3. ASSUME NEW k \in seen[t].codes .. Len(codes), codes' = DeleteCodes(k), task[t].arg = 0
        PROVE  CodeEffect(t)
    <3>1. k \in Nat /\ \A c \in Ids(codes) : c <= seen[t].codes => c <= k
      BY <1>0, <1>a
    <3>2. /\ codes' \in Seq(BackupCode) /\ Len(codes') = Len(codes) /\ Ids(codes)' = Ids(codes)
          /\ \A c \in Ids(codes) : /\ codes'[c].uses = codes[c].uses
                                   /\ codes'[c].state \in {codes[c].state, "gone"}
                                   /\ c <= seen[t].codes => codes'[c].state = "gone"
      BY <1>0, <2>3, <3>1, DeleteFacts DEF Ids
    <3>3. Renewed(t)
      BY <2>1, <2>3, <3>2 DEF Renewed, Disabling
    <3> QED BY <3>2, <3>3 DEF CodeEffect
  <2>4. \/ UNCHANGED codes /\ task[t].arg # 0
        \/ task[t].arg = 0 /\ \E k \in seen[t].codes .. Len(codes) : codes' = DeleteCodes(k)
    BY <1>4 DEF CommitDisable, Refuse, rows
  <2> QED BY <2>2, <2>3, <2>4
<1>5. CASE CommitChallenge(t)
  <2> DEFINE c == task[t].arg
             new == [state |-> "used", uses |-> codes[c].uses + 1]
  <2>1. /\ task[t].op = "challenge"
        /\ \/ UNCHANGED codes
           \/ c # 0 /\ codes[c].state # "gone" /\ codes' = [codes EXCEPT ![c] = new]
    BY <1>5 DEF CommitChallenge, Committing, MarkCode, Refuse, rows
  <2>2. CASE UNCHANGED codes
    BY <1>0, <2>1, <2>2 DEF CodeEffect, Disabling
  <2>3. ASSUME c # 0, codes[c].state # "gone", codes' = [codes EXCEPT ![c] = new]
        PROVE  CodeEffect(t)
    <3>1. c \in Ids(codes) /\ codes[c] \in BackupCode
      BY <1>0, <2>1, <2>3, RowTypes DEF Prepared, Argued
    <3>2. new \in BackupCode /\ new.state = "used" /\ new.uses = codes[c].uses + 1
      BY <3>1 DEF BackupCode
    <3> HIDE DEF new
    <3>3. codes \in [Ids(codes) -> BackupCode]
      BY <1>0, LenProperties DEF Ids
    <3>4. /\ codes' \in [Ids(codes) -> BackupCode] /\ codes'[c] = new
          /\ \A d \in Ids(codes) \ {c} : codes'[d] = codes[d]
      BY <2>3, <3>1, <3>2, <3>3
    <3>5. codes' \in Seq(BackupCode) /\ Len(codes') = Len(codes) /\ Ids(codes)' = Ids(codes)
      BY <1>0, <3>4, SameLength DEF Ids
    <3>6. Spent(t)
      BY <2>1, <2>3, <3>1, <3>2, <3>4, <3>5 DEF Spent
    <3> QED BY <3>5, <3>6 DEF CodeEffect
  <2> QED BY <2>1, <2>2, <2>3
<1> QED BY <1>1, <1>3, <1>4, <1>5 DEF Commit

-----------------------------------------------------------------------------
(* What a handler finds, and that it ends.                                 *)

Blocked == {"disabled", "deleted"}

\* What a handler has checked when it is loaded.
Fits(op, arg) ==
  /\ op \in {"refresh", "logout"} => Live(arg)
  /\ op \in {"login", "refresh", "challenge"} => user.status \notin Blocked
  /\ op = "wrong" => user.locked_until # "future"
  /\ op \in Consumers => tokens[arg].purpose = PurposeOf(op) /\ ~tokens[arg].used
  /\ op = "challenge" /\ arg # 0 => codes[arg].state = "unused"
  /\ op = "confirm" => method.exists = TRUE
  /\ op = "disable" /\ arg = 0 => Usable
  /\ op = "regenerate" => user.mfa_enabled = TRUE

LEMMA BeginFacts ==
  ASSUME NEW t \in Threads, Begin(t)
  PROVE  \E op, arg : /\ op \in Ops \ {"idle", "issue"}
                      /\ Load(t, op, arg) /\ Argued(op, arg) /\ Fits(op, arg)
<1> DEFINE Goal == \E op, arg : /\ op \in Ops \ {"idle", "issue"}
                                /\ Load(t, op, arg) /\ Argued(op, arg) /\ Fits(op, arg)
<1>1. ASSUME NEW op \in {"resend", "logout_all", "forgot", "request_email", "unlock", "delete",
                         "suspend", "setup", "confirm"}, Load(t, op, 0),
             op = "confirm" => method.exists = TRUE
      PROVE  Goal
  <2>1. Argued(op, 0)
    BY <1>1 DEF Argued, ApiKey
  <2>2. Fits(op, 0)
    BY <1>1 DEF Fits, Consumers
  <2>3. op \in Ops \ {"idle", "issue"}
    BY <1>1 DEF Ops
  <2> QED BY <1>1, <2>1, <2>2, <2>3
<1>2. CASE BeginResend(t) \/ BeginLogoutAll(t) \/ BeginForgot(t) \/ BeginRequestEmail(t)
           \/ BeginUnlock(t) \/ BeginDelete(t) \/ BeginSuspend(t) \/ BeginSetup(t) \/ BeginConfirm(t)
  <2>1. \E op \in {"resend", "logout_all", "forgot", "request_email", "unlock", "delete",
                   "suspend", "setup", "confirm"} :
          Load(t, op, 0) /\ (op = "confirm" => method.exists = TRUE)
    BY <1>2 DEF BeginResend, BeginLogoutAll, BeginForgot, BeginRequestEmail, BeginUnlock, BeginDelete,
       BeginSuspend, BeginSetup, BeginConfirm
  <2> QED BY <1>1, <2>1
<1>3. CASE BeginWrongPassword(t) \/ BeginLogin(t)
  <2>1. PICK op \in {"wrong", "login"} : Load(t, op, 0) /\ MayTry
    BY <1>3 DEF BeginWrongPassword, BeginLogin
  <2>2. Argued(op, 0) /\ op \in Ops \ {"idle", "issue"}
    BY <2>1 DEF Argued, Ops
  <2>3. Fits(op, 0)
    BY <2>1 DEF Fits, Consumers, MayTry, Blocked
  <2> QED BY <2>1, <2>2, <2>3
<1>4. CASE \E status \in Statuses \ {"suspended", "deleted"} : BeginStatus(t, status)
  <2>1. PICK status \in Statuses \ {"suspended", "deleted"} : Load(t, "status", status)
    BY <1>4 DEF BeginStatus
  <2>2. Argued("status", status) /\ "status" \in Ops \ {"idle", "issue"}
    BY <2>1 DEF Argued, Ops
  <2>3. Fits("status", status)
    BY DEF Fits, Consumers
  <2> QED BY <2>1, <2>2, <2>3
<1>5. CASE \E i \in Ids(tokens) : BeginVerify(t, i) \/ BeginReset(t, i) \/ BeginConfirmEmail(t, i)
  <2>1. PICK i \in Ids(tokens), op \in Consumers : Load(t, op, i) /\ Unused(i, PurposeOf(op))
    BY <1>5 DEF BeginVerify, BeginReset, BeginConfirmEmail, Consumers, PurposeOf
  <2>2. Argued(op, i) /\ op \in Ops \ {"idle", "issue"}
    BY <2>1 DEF Argued, Ops, Consumers
  <2>3. Fits(op, i)
    BY <2>1 DEF Fits, Consumers, Unused
  <2> QED BY <2>1, <2>2, <2>3
<1>6. CASE \E s \in Ids(sessions) : BeginRefresh(t, s) \/ BeginReuse(t, s)
  <2>1. PICK s \in Ids(sessions) : BeginRefresh(t, s) \/ BeginReuse(t, s)
    BY <1>6
  <2>2. CASE BeginRefresh(t, s)
    <3>1. Load(t, "refresh", s) /\ Live(s) /\ user.status \notin Blocked
      BY <2>2 DEF BeginRefresh, Blocked
    <3>2. Argued("refresh", s) /\ Fits("refresh", s) /\ "refresh" \in Ops \ {"idle", "issue"}
      BY <3>1 DEF Argued, Fits, Ops, Consumers
    <3> QED BY <3>1, <3>2
  <2>3. CASE BeginReuse(t, s)
    <3>1. Load(t, "reuse", s)
      BY <2>3 DEF BeginReuse
    <3>2. Argued("reuse", s) /\ Fits("reuse", s) /\ "reuse" \in Ops \ {"idle", "issue"}
      BY <3>1 DEF Argued, Fits, Ops, Consumers
    <3> QED BY <3>1, <3>2
  <2> QED BY <2>1, <2>2, <2>3
<1>7. CASE \E s \in Ids(sessions) \cup {ApiKey} :
             BeginLogout(t, s) \/ BeginLogoutOthers(t, s) \/ BeginChange(t, s)
  <2>1. PICK s \in Ids(sessions) \cup {ApiKey} :
          BeginLogout(t, s) \/ BeginLogoutOthers(t, s) \/ BeginChange(t, s)
    BY <1>7
  <2>2. CASE BeginLogoutOthers(t, s) \/ BeginChange(t, s)
    <3>1. PICK op \in {"logout_others", "change"} : Load(t, op, s)
      BY <2>2 DEF BeginLogoutOthers, BeginChange
    <3>2. Argued(op, s) /\ op \in Ops \ {"idle", "issue"}
      BY <2>1, <3>1 DEF Argued, Ops
    <3>3. Fits(op, s)
      BY <3>1 DEF Fits, Consumers
    <3> QED BY <3>1, <3>2, <3>3
  <2>3. CASE BeginLogout(t, s) /\ s # ApiKey /\ Live(s)
    <3>1. Load(t, "logout", s)
      BY <2>3 DEF BeginLogout
    <3>2. Argued("logout", s) /\ Fits("logout", s) /\ "logout" \in Ops \ {"idle", "issue"}
      BY <2>1, <2>3 DEF Argued, Fits, Ops, Consumers
    <3> QED BY <3>1, <3>2
  <2>4. CASE BeginLogout(t, s) /\ ~(s # ApiKey /\ Live(s))
    <3>1. Load(t, "logout_void", s)
      BY <2>4 DEF BeginLogout
    <3>2. Argued("logout_void", s) /\ Fits("logout_void", s) /\ "logout_void" \in Ops \ {"idle", "issue"}
      BY DEF Argued, Fits, Ops, Consumers
    <3> QED BY <3>1, <3>2
  <2> QED BY <2>1, <2>2, <2>3, <2>4
<1>8. CASE \E c \in Ids(codes) \cup {0} :
             BeginDisable(t, c) \/ BeginRegenerate(t, c) \/ BeginChallenge(t, c)
  <2>1. PICK c \in Ids(codes) \cup {0} :
          BeginDisable(t, c) \/ BeginRegenerate(t, c) \/ BeginChallenge(t, c)
    BY <1>8
  <2>2. CASE BeginDisable(t, c) \/ BeginRegenerate(t, c)
    <3>1. PICK op \in {"disable", "regenerate"} :
            /\ Load(t, op, c) /\ ValidCode(c)
            /\ op = "regenerate" => user.mfa_enabled = TRUE
      BY <2>2 DEF BeginDisable, BeginRegenerate
    <3>2. Argued(op, c) /\ op \in Ops \ {"idle", "issue"}
      BY <2>1, <3>1 DEF Argued, Ops
    <3>3. Fits(op, c)
      BY <3>1 DEF Fits, Consumers, ValidCode
    <3> QED BY <3>1, <3>2, <3>3
  <2>3. CASE BeginChallenge(t, c)
    <3>1. Load(t, "challenge", c) /\ user.status \notin Blocked /\ ValidCode(c)
      BY <2>3 DEF BeginChallenge, Blocked
    <3>2. Argued("challenge", c) /\ "challenge" \in Ops \ {"idle", "issue"}
      BY <2>1 DEF Argued, Ops
    <3>3. Fits("challenge", c)
      BY <3>1 DEF Fits, Consumers, ValidCode
    <3> QED BY <3>1, <3>2, <3>3
  <2> QED BY <2>1, <2>2, <2>3
<1> QED BY <1>2, <1>3, <1>4, <1>5, <1>6, <1>7, <1>8 DEF Begin

\* A handler that is loaded conflicts with no other unless collided says so.
Loaded(t, op, arg) ==
  /\ task[t] = Idle /\ DOMAIN task' = Threads
  /\ task'[t] = [op |-> op, arg |-> arg] /\ task'[t].op = op /\ task'[t].arg = arg
  /\ \A r \in Threads \ {t} : task'[r] = task[r] /\ seen'[r] = seen[r]
  /\ seen' \in [Threads -> Reads]
  /\ seen'[t].sessions = Len(sessions) /\ seen'[t].tokens = Len(tokens)
  /\ seen'[t].codes = Len(codes) /\ seen'[t].user = user
  /\ seen'[t].method = method
  /\ user' = user /\ sessions' = sessions /\ tokens' = tokens /\ method' = method
  /\ codes' = codes /\ ticket' = ticket /\ workload' = workload /\ ended' = ended
  /\ misses' = misses /\ collided' \in BOOLEAN
  /\ ~collided' => ~collided /\ \A r \in Threads \ {t} : ~Conflict(task'[t], task'[r])

LEMMA LoadFacts ==
  ASSUME Typed, NEW t \in Threads, NEW op \in Ops \ {"idle", "issue"}, NEW arg, Load(t, op, arg)
  PROVE  Loaded(t, op, arg)
<1> DEFINE read == [sessions |-> Len(sessions), tokens |-> Len(tokens), codes |-> Len(codes),
                    user |-> user, method |-> method]
           mine == [op |-> op, arg |-> arg]
<1>1. DOMAIN task = Threads /\ seen \in [Threads -> Reads]
  BY DEF Typed
<1>2. /\ task[t] = Idle /\ task' = [task EXCEPT ![t] = mine] /\ seen' = [seen EXCEPT ![t] = read]
      /\ collided' = (collided \/ \E s \in Threads \ {t} : Conflict(mine, task[s]))
      /\ UNCHANGED <<user, sessions, tokens, method, codes, ticket, workload, ended, misses>>
  BY DEF Load, rows
<1>3. read \in Reads
  BY RowTypes DEF Reads, Typed, TypeOK
<1>4. /\ read.sessions = Len(sessions) /\ read.tokens = Len(tokens) /\ read.codes = Len(codes)
      /\ read.user = user /\ read.method = method
  OBVIOUS
<1> HIDE DEF read, mine
<1>5. /\ DOMAIN task' = Threads /\ task'[t] = mine
      /\ \A r \in Threads \ {t} : task'[r] = task[r] /\ seen'[r] = seen[r]
      /\ seen' \in [Threads -> Reads] /\ seen'[t] = read
  BY <1>1, <1>2, <1>3
<1>6. collided' \in BOOLEAN
  BY <1>2 DEF Typed, TypeOK
<1>7. ~collided' => ~collided /\ \A r \in Threads \ {t} : ~Conflict(mine, task[r])
  BY <1>2
<1>8. ASSUME ~collided', NEW r \in Threads \ {t}
      PROVE  ~Conflict(mine, task[r])'
  <2>1. ~Conflict(mine, task[r]) /\ task'[r] = task[r] /\ sessions' = sessions
    BY <1>2, <1>5, <1>7, <1>8
  <2> QED BY <2>1 DEF Conflict, Crosses, Ends, mine
<1>9. mine.op = op /\ mine.arg = arg
  BY DEF mine
<1> QED BY <1>2, <1>4, <1>5, <1>6, <1>7, <1>8, <1>9 DEF mine, Loaded

\* A handler that commits ends, except that the challenge goes on to issue a
\* session for what it has loaded.
Over(t) ==
  /\ DOMAIN task' = Threads /\ seen' \in [Threads -> Reads]
  /\ \A r \in Threads \ {t} : task'[r] = task[r] /\ seen'[r] = seen[r]
  /\ workload' = workload /\ collided' = collided
  /\ method' \in MFAMethod /\ ticket' \in BOOLEAN
  /\ \/ task'[t] = Idle
     \/ /\ task[t].op = "challenge" /\ task'[t] = [op |-> "issue", arg |-> 0]
        /\ seen'[t] = seen[t] /\ UNCHANGED <<user, sessions, tokens>>

LEMMA Ended ==
  ASSUME Typed, NEW t \in Threads, Commit(t)
  PROVE  Over(t)
<1>0. /\ DOMAIN task = Threads /\ seen \in [Threads -> Reads]
      /\ method \in MFAMethod /\ ticket \in BOOLEAN
  BY DEF Typed, TypeOK
<1>1. ASSUME Finish(t), method' \in MFAMethod, ticket' \in BOOLEAN
      PROVE  Over(t)
  <2>1. NoRead \in Reads
    BY DEF NoRead, Reads, NoMethod, MFAMethod
  <2>2. /\ task' = [task EXCEPT ![t] = Idle] /\ seen' = [seen EXCEPT ![t] = NoRead]
        /\ workload' = workload /\ collided' = collided
    BY <1>1 DEF Finish
  <2> QED BY <1>0, <1>1, <2>1, <2>2 DEF Over
<1>a. ASSUME Refuse(t) PROVE Over(t)
  BY <1>0, <1>1, <1>a DEF Refuse, rows
<1>2. CASE \/ CommitVerify(t) \/ CommitWrongPassword(t)
           \/ CommitToken(t, "resend", "email_verification") \/ CommitToken(t, "forgot", "password_reset")
           \/ CommitRefresh(t) \/ CommitReuse(t) \/ CommitLogout(t)
           \/ CommitLogoutAll(t, "logout_all") \/ CommitLogoutAll(t, "logout_others")
           \/ CommitReset(t) \/ CommitChange(t) \/ CommitRequestEmail(t)
           \/ CommitStatus(t) \/ CommitUnlock(t) \/ CommitDelete(t) \/ CommitSuspend(t) \/ CommitIssue(t)
  <2>1. Refuse(t) \/ (Finish(t) /\ UNCHANGED <<method, ticket>>)
    BY <1>2 DEF CommitVerify, CommitWrongPassword, CommitToken, CommitRefresh, CommitReuse,
       CommitLogout, CommitLogoutAll, CommitReset, CommitChange, CommitRequestEmail,
       CommitStatus, CommitUnlock, CommitDelete, CommitSuspend, CommitIssue
  <2> QED BY <1>0, <1>1, <1>a, <2>1
<1>3. CASE CommitLogin(t)
  <2>1. Finish(t) /\ method' = method /\ (ticket' = TRUE \/ ticket' = ticket)
    BY <1>3 DEF CommitLogin
  <2> QED BY <1>0, <1>1, <2>1
<1>4. CASE CommitSetup(t) \/ CommitConfirm(t)
  <2>1. CASE Refuse(t)
    BY <1>a, <2>1
  <2>2. CASE CommitSetup(t) /\ ~Refuse(t)
    <3>1. Finish(t) /\ ticket' = ticket
      BY <2>2 DEF CommitSetup
    <3>2. method' = [exists |-> TRUE,
                     confirmed_at |-> method.confirmed_at /\ ~seen[t].method.confirmed_at,
                     disabled_at |-> method.disabled_at /\ ~seen[t].method.disabled_at]
      BY <2>2 DEF CommitSetup
    <3>3. method' \in MFAMethod
      BY <3>2 DEF MFAMethod
    <3> QED BY <1>0, <1>1, <3>1, <3>3
  <2>3. CASE CommitConfirm(t)
    <3>1. Finish(t) /\ ticket' = ticket
      BY <2>3 DEF CommitConfirm
    <3>2. method' = [method EXCEPT !.confirmed_at = TRUE,
                                   !.disabled_at = method.disabled_at /\ ~seen[t].method.disabled_at]
      BY <2>3 DEF CommitConfirm
    <3>3. method' \in MFAMethod
      BY <1>0, <3>2 DEF MFAMethod
    <3> QED BY <1>0, <1>1, <3>1, <3>3
  <2> QED BY <1>4, <2>1, <2>2, <2>3
<1>5. CASE CommitConfirmEmail(t) \/ CommitDisable(t) \/ CommitRegenerate(t)
  <2>1. \/ Refuse(t)
        \/ Finish(t) /\ method' \in {method, [method EXCEPT !.disabled_at = TRUE]} /\ ticket' = ticket
    BY <1>5 DEF CommitConfirmEmail, CommitDisable, CommitRegenerate
  <2>2. [method EXCEPT !.disabled_at = TRUE] \in MFAMethod
    BY <1>0 DEF MFAMethod
  <2> QED BY <1>0, <1>1, <1>a, <2>1, <2>2
<1>6. CASE CommitChallenge(t)
  <2>1. CASE Refuse(t)
    BY <1>a, <2>1
  <2>2. CASE /\ task' = [task EXCEPT ![t] = [op |-> "issue", arg |-> 0]]
             /\ UNCHANGED <<user, sessions, tokens, method, ticket, seen, workload, ended, misses, collided>>
    <3>1. task[t].op = "challenge"
      BY <1>6 DEF CommitChallenge, Committing
    <3>2. DOMAIN task' = Threads /\ task'[t] = [op |-> "issue", arg |-> 0]
          /\ \A r \in Threads \ {t} : task'[r] = task[r]
      BY <1>0, <2>2
    <3> QED BY <1>0, <2>2, <3>1, <3>2 DEF Over
  <2> QED BY <1>6, <2>1, <2>2 DEF CommitChallenge
<1> QED BY <1>2, <1>3, <1>4, <1>5, <1>6 DEF Commit

-----------------------------------------------------------------------------
(* Types.                                                                  *)

\* What a step leaves of the rows: they stay, and more may come.
Grown ==
  /\ Len(sessions) \in Nat /\ Len(sessions') \in Nat /\ Len(sessions) <= Len(sessions')
  /\ Len(tokens) \in Nat /\ Len(tokens') \in Nat /\ Len(tokens) <= Len(tokens')
  /\ Len(codes) \in Nat /\ Len(codes') \in Nat /\ Len(codes) <= Len(codes')
  /\ Ids(sessions) \subseteq Ids(sessions)'
  /\ Ids(tokens) \subseteq Ids(tokens)'
  /\ Ids(codes) \subseteq Ids(codes)'

LEMMA PreparedKept ==
  ASSUME Typed, Grown, NEW r \in Threads, task'[r] = task[r], seen'[r] = seen[r]
  PROVE  Prepared(r)'
<1>1. Prepared(r) /\ seen[r] \in Reads
  BY DEF Typed
<1>2. CASE task[r].op = "idle"
  BY <1>1, <1>2 DEF Prepared, Idle
<1>3. CASE task[r].op # "idle"
  <2>1. /\ seen[r].sessions <= Len(sessions)'
        /\ seen[r].tokens <= Len(tokens)'
        /\ seen[r].codes <= Len(codes)'
    BY <1>1, <1>3 DEF Prepared, Grown, Reads
  <2>2. Argued(task[r].op, task[r].arg)'
    BY <1>1, <1>3 DEF Prepared, Argued, Grown
  <2> QED BY <1>1, <1>3, <2>1, <2>2 DEF Prepared
<1> QED BY <1>2, <1>3

LEMMA TypedInit == Init => Typed
<1> SUFFICES ASSUME Init PROVE Typed
  OBVIOUS
<1>1. PICK p \in Passwords :
        user = [status |-> "pending_verification", email_verified |-> FALSE,
                failed_login_count |-> 0, locked_until |-> "none", deleted_at |-> FALSE,
                password_hash |-> p, mfa_enabled |-> FALSE]
  BY DEF Init
<1>2. user \in User
  BY <1>1 DEF User, Statuses
<1>3. [purpose |-> "email_verification", used |-> FALSE, uses |-> 0] \in OneTimeToken
  BY DEF OneTimeToken, Purposes
<1>4. tokens \in Seq(OneTimeToken)
  BY <1>3 DEF Init
<1>5. sessions = <<>> /\ codes = <<>> /\ ended = {} /\ sessions \in Seq(RefreshSession)
      /\ codes \in Seq(BackupCode) /\ Ids(sessions) = {}
  BY DEF Init, Ids
<1>6. TypeOK
  <2>1. method \in MFAMethod /\ ticket \in BOOLEAN /\ workload \in Workloads /\ collided \in BOOLEAN
    BY DEF Init, NoMethod, MFAMethod
  <2>2. misses \in 0 .. MaxFailures
    BY MaxFailuresIsPositive DEF Init
  <2> QED BY <1>2, <1>4, <1>5, <2>1, <2>2 DEF TypeOK
<1>7. NoRead \in Reads /\ Idle.op = "idle" /\ "idle" \in Ops
  BY DEF NoRead, Reads, Idle, Ops, NoMethod, MFAMethod
<1>8. DOMAIN task = Threads /\ seen \in [Threads -> Reads] /\ \A t \in Threads : task[t] = Idle
  BY <1>7 DEF Init
<1> QED BY <1>5, <1>6, <1>7, <1>8 DEF Typed, Prepared

LEMMA TypedBegin ==
  ASSUME Typed, NEW t \in Threads, Begin(t)
  PROVE  Typed'
<1>1. PICK op, arg : op \in Ops \ {"idle", "issue"} /\ Load(t, op, arg) /\ Argued(op, arg)
  BY BeginFacts
<1>2. /\ DOMAIN task' = Threads
      /\ task'[t] = [op |-> op, arg |-> arg]
      /\ \A r \in Threads \ {t} : task'[r] = task[r] /\ seen'[r] = seen[r]
      /\ seen' \in [Threads -> Reads]
      /\ seen'[t].sessions = Len(sessions) /\ seen'[t].tokens = Len(tokens)
      /\ seen'[t].codes = Len(codes) /\ seen'[t].user = user
      /\ UNCHANGED <<user, sessions, tokens, method, codes, ticket, workload, ended, misses>>
      /\ collided' \in BOOLEAN
  BY <1>1, LoadFacts DEF Loaded
<1>3. TypeOK'
  BY <1>2 DEF Typed, TypeOK, Ids
<1>4. Len(sessions) \in Nat /\ Len(tokens) \in Nat /\ Len(codes) \in Nat /\ user \in User
  BY RowTypes DEF Typed, TypeOK
<1>5. Grown
  BY <1>2, <1>4 DEF Grown, Ids
<1>6. Argued(op, arg)'
  BY <1>1, <1>2 DEF Argued, Ids
<1>7. task'[t].op = op /\ task'[t].arg = arg
  BY <1>2
<1>8. Prepared(t)'
  BY <1>1, <1>2, <1>4, <1>6, <1>7 DEF Prepared
<1>9. \A r \in Threads : Prepared(r)'
  BY <1>2, <1>5, <1>8, PreparedKept
<1>10. \A s \in Ids(sessions)' : 1 <= sessions'[s].family /\ sessions'[s].family <= s
  BY <1>2 DEF Typed, Ids
<1> QED BY <1>2, <1>3, <1>9, <1>10 DEF Typed

\* A commit keeps the rows.
LEMMA CommitGrows ==
  ASSUME Typed, NEW t \in Threads, Commit(t)
  PROVE  Grown
<1>0. Len(sessions) \in Nat /\ Len(tokens) \in Nat /\ Len(codes) \in Nat
  BY RowTypes DEF Typed
<1>1. Len(sessions') \in {Len(sessions), Len(sessions) + 1} /\ Ids(sessions) \subseteq Ids(sessions)'
  BY SessionEffects DEF SessionEffect, Opened, Rotated, Cut, Ids
<1>2. Len(tokens') \in {Len(tokens), Len(tokens) + 1} /\ Ids(tokens) \subseteq Ids(tokens)'
  BY TokenEffects DEF TokenEffect, Used, Replaced, Added, Ids
<1>3. Len(codes') \in {Len(codes), Len(codes) + 1} /\ Ids(codes) \subseteq Ids(codes)'
  BY CodeEffects DEF CodeEffect, Spent, Renewed, Ids
<1> QED BY <1>0, <1>1, <1>2, <1>3 DEF Grown

LEMMA TypedCommit ==
  ASSUME Typed, NEW t \in Threads, Commit(t)
  PROVE  Typed'
<1>0. /\ TypeOK /\ Prepared(t) /\ Grown /\ seen[t] \in Reads
      /\ \A s \in Ids(sessions) : 1 <= sessions[s].family /\ sessions[s].family <= s
  BY CommitGrows DEF Typed
<1>1. Over(t) /\ SessionEffect(t)
  BY Ended, SessionEffects
<1>a. Len(sessions) \in Nat /\ Ids(sessions) = 1 .. Len(sessions)
  BY <1>0, RowTypes
<1>2. ended' \subseteq Ids(sessions)'
  <2>1. ASSUME Cut(t), CutFamilies(t) PROVE ended' \subseteq Ids(sessions)'
    <3>1. CASE task[t].op = "change"
      BY <1>0, <2>1, <3>1 DEF CutFamilies, Grown, TypeOK
    <3>2. CASE task[t].op \in {"reuse", "logout"}
      <4>1. task[t].arg \in Ids(sessions)
        BY <1>0, <3>2 DEF Prepared, Argued
      <4>2. sessions[task[t].arg].family \in Ids(sessions)
        <5>1. sessions[task[t].arg].family \in Nat
          BY <1>0, <4>1, RowTypes DEF RefreshSession
        <5> QED BY <1>0, <1>a, <4>1, <5>1
      <4> QED BY <1>0, <2>1, <3>2, <4>2 DEF CutFamilies, Grown, TypeOK
    <3>3. CASE task[t].op \in {"logout_all", "logout_others", "reset", "status", "delete"}
      <4>1. \A s \in 1 .. seen[t].sessions : sessions[s].family \in Ids(sessions)
        <5> SUFFICES ASSUME NEW s \in 1 .. seen[t].sessions PROVE sessions[s].family \in Ids(sessions)
          OBVIOUS
        <5>0. seen[t].sessions \in Nat /\ seen[t].sessions <= Len(sessions)
          BY <1>0, <3>3 DEF Prepared, Reads
        <5>1. s \in Ids(sessions)
          BY <1>a, <5>0
        <5>2. sessions[s].family \in Nat
          BY <1>0, <5>1, RowTypes DEF RefreshSession
        <5> QED BY <1>0, <1>a, <5>1, <5>2
      <4>2. ended' \subseteq ended \cup {sessions[s].family : s \in 1 .. seen[t].sessions}
        BY <2>1, <3>3 DEF CutFamilies, Families
      <4> QED BY <1>0, <4>1, <4>2 DEF Grown, TypeOK
    <3> QED BY <2>1, <3>1, <3>2, <3>3 DEF Cut, Ending
  <2>2. ended' = ended \/ (Cut(t) /\ CutFamilies(t))
    BY <1>1 DEF SessionEffect, Opened, Rotated
  <2> QED BY <1>0, <2>1, <2>2 DEF TypeOK, Grown
<1>3. TypeOK'
  <2>1. user' \in User /\ misses' \in 0 .. MaxFailures
    BY UserEffects DEF UserEffect
  <2>2. tokens' \in Seq(OneTimeToken) /\ codes' \in Seq(BackupCode) /\ sessions' \in Seq(RefreshSession)
    BY TokenEffects, CodeEffects, <1>1 DEF TokenEffect, CodeEffect, SessionEffect
  <2>3. method' \in MFAMethod /\ ticket' \in BOOLEAN /\ workload' \in Workloads /\ collided' \in BOOLEAN
    BY <1>0, <1>1 DEF Over, TypeOK
  <2> QED BY <1>2, <2>1, <2>2, <2>3 DEF TypeOK
<1>4. Prepared(t)'
  <2>1. CASE task'[t] = Idle
    BY <2>1 DEF Prepared, Idle, Ops
  <2>2. CASE /\ task[t].op = "challenge" /\ task'[t] = [op |-> "issue", arg |-> 0]
             /\ seen'[t] = seen[t]
    <3>1. task'[t].op = "issue" /\ task'[t].arg = 0
      BY <2>2
    <3>2. /\ seen[t].user \in User
          /\ seen[t].sessions <= Len(sessions)'
          /\ seen[t].tokens <= Len(tokens)'
          /\ seen[t].codes <= Len(codes)'
      BY <1>0, <2>2 DEF Prepared, Grown, Reads
    <3>3. Argued("issue", 0)'
      BY DEF Argued
    <3>4. "issue" \in Ops
      BY DEF Ops
    <3> QED BY <2>2, <3>1, <3>2, <3>3, <3>4 DEF Prepared
  <2> QED BY <1>1, <2>1, <2>2 DEF Over
<1>5. \A r \in Threads : Prepared(r)'
  BY <1>0, <1>1, <1>4, PreparedKept DEF Over
<1>6. ASSUME NEW s \in Ids(sessions)'
      PROVE  1 <= sessions'[s].family /\ sessions'[s].family <= s
  <2>1. CASE sessions' = sessions
    BY <1>0, <2>1 DEF Ids
  <2>2. CASE Cut(t)
    BY <1>0, <1>6, <2>2 DEF Cut
  <2>3. CASE Opened(t)
    BY <1>0, <1>6, <1>a, <2>3 DEF Opened
  <2>4. CASE Rotated(t)
    <3>1. task[t].arg \in Ids(sessions)
      BY <1>0, <2>4 DEF Prepared, Argued, Rotated
    <3>2. sessions[task[t].arg].family \in Nat
      BY <1>0, <3>1, RowTypes DEF RefreshSession
    <3>3. CASE s = Len(sessions) + 1
      BY <1>0, <1>a, <2>4, <3>1, <3>2, <3>3 DEF Rotated
    <3>4. CASE s \in Ids(sessions)
      BY <1>0, <2>4, <3>4 DEF Rotated
    <3> QED BY <1>6, <2>4, <3>3, <3>4 DEF Rotated
  <2> QED BY <1>1, <2>1, <2>2, <2>3, <2>4 DEF SessionEffect
<1> QED BY <1>1, <1>3, <1>5, <1>6 DEF Typed, Over

\* Time passes for a lock or a ticket.
LEMMA TypedElse ==
  ASSUME Typed, LockExpires \/ TicketExpires \/ UNCHANGED vars
  PROVE  Typed'
<1>1. UNCHANGED <<sessions, tokens, method, codes, task, seen, workload, ended, misses, collided>>
  BY DEF LockExpires, TicketExpires, vars, rows
<1>2. user' \in User
  BY DEF Typed, TypeOK, LockExpires, TicketExpires, vars, rows, User
<1>3. ticket' \in BOOLEAN
  BY DEF Typed, TypeOK, LockExpires, TicketExpires, vars, rows
<1>4. TypeOK'
  BY <1>1, <1>2, <1>3 DEF Typed, TypeOK, Ids
<1>5. Grown
  BY <1>1, RowTypes DEF Grown, Ids, Typed
<1>6. \A t \in Threads : Prepared(t)'
  BY <1>1, <1>5, PreparedKept
<1> QED BY <1>1, <1>4, <1>6 DEF Typed, Ids

LEMMA TypedStep ==
  ASSUME Typed, [Next]_vars
  PROVE  Typed'
  BY TypedBegin, TypedCommit, TypedElse DEF Next

\* The rows, the tasks and what they loaded have their types.
THEOREM TypeCorrect == Spec => []TypeOK
<1>1. Typed => TypeOK
  BY DEF Typed
<1> QED BY <1>1, TypedInit, TypedStep, PTL DEF Spec

-----------------------------------------------------------------------------
(* Until two handlers that conflict run at the same time, those under way  *)
(* do not conflict.                                                        *)

Apart == \A r, t \in Threads : r # t => ~Conflict(task[r], task[t])

\* A session keeps its family.
LEMMA FamiliesKept ==
  ASSUME Typed, NEW t \in Threads, Commit(t), NEW s \in Ids(sessions)
  PROVE  s \in Ids(sessions)' /\ sessions'[s].family = sessions[s].family
<1>1. SessionEffect(t) /\ Grown
  BY SessionEffects, CommitGrows
<1>2. CASE sessions' = sessions
  BY <1>2 DEF Ids
<1>3. CASE Rotated(t)
  BY <1>1, <1>3 DEF Rotated, Grown
<1> QED BY <1>1, <1>2, <1>3 DEF SessionEffect, Opened, Cut, Grown

LEMMA ConflictIsMutual ==
  ASSUME NEW h, NEW g, Conflict(h, g)
  PROVE  Conflict(g, h)
<1>1. {h.op, g.op} = {g.op, h.op}
  OBVIOUS
<1>2. CASE h = g /\ h.op \in {"refresh", "verify", "reset", "confirm_email", "challenge", "resend", "forgot"}
  BY <1>2 DEF Conflict
<1> QED BY <1>1, <1>2 DEF Conflict

LEMMA ApartBegin ==
  ASSUME Typed, Apart, NEW t \in Threads, Begin(t), ~collided'
  PROVE  Apart'
<1>1. PICK op, arg : op \in Ops \ {"idle", "issue"} /\ Load(t, op, arg)
  BY BeginFacts
<1>2. /\ \A r \in Threads \ {t} : task'[r] = task[r]
      /\ sessions' = sessions
      /\ \A r \in Threads \ {t} : ~Conflict(task'[t], task'[r])
  BY <1>1, LoadFacts DEF Loaded
<1>4. ASSUME NEW r \in Threads, NEW u \in Threads, r # u
      PROVE  ~Conflict(task[r], task[u])'
  <2>1. CASE r = t
    BY <1>2, <1>4, <2>1 DEF Conflict, Crosses, Ends
  <2>2. CASE u = t
    <3>1. ~Conflict(task'[u], task'[r])
      BY <1>2, <1>4, <2>2
    <3>2. ~Conflict(task'[r], task'[u])
      BY <3>1, ConflictIsMutual
    <3> QED BY <1>2, <3>2 DEF Conflict, Crosses, Ends
  <2>3. CASE r # t /\ u # t
    <3>1. ~Conflict(task[r], task[u]) /\ task'[r] = task[r] /\ task'[u] = task[u]
      BY <1>2, <1>4, <2>3 DEF Apart
    <3> QED BY <1>2, <3>1 DEF Conflict, Crosses, Ends
  <2> QED BY <2>1, <2>2, <2>3
<1> QED BY <1>4 DEF Apart

\* What two handlers that stay are about to do does not change.
LEMMA ConflictKept ==
  ASSUME Typed, NEW t \in Threads, Commit(t), NEW r \in Threads, NEW u \in Threads,
         task'[r] = task[r], task'[u] = task[u], ~Conflict(task[r], task[u])
  PROVE  ~Conflict(task[r], task[u])'
<1>1. ASSUME NEW h \in {task[r], task[u]}
      PROVE  /\ h.op \in {"refresh", "reuse", "logout"} => h.arg \in Ids(sessions)
  BY DEF Typed, Prepared, Argued, Idle
<1>2. ASSUME NEW h \in {task[r], task[u]}, NEW s \in Ids(sessions), Ends(h, s)'
      PROVE  Ends(h, s)
  <2>1. sessions'[s].family = sessions[s].family
    BY FamiliesKept
  <2>2. h' = h
    BY <1>2
  <2>3. CASE h.op \in {"reuse", "logout"}
    <3>1. h.arg \in Ids(sessions)
      BY <1>1, <2>3
    <3>2. sessions'[h.arg].family = sessions[h.arg].family
      BY <3>1, FamiliesKept
    <3> QED BY <1>2, <2>1, <2>2, <2>3, <3>2 DEF Ends
  <2>4. CASE h.op \notin {"reuse", "logout"}
    BY <1>2, <2>2, <2>4 DEF Ends
  <2> QED BY <2>3, <2>4
<1>3. ASSUME NEW h \in {task[r], task[u]}, NEW g \in {task[r], task[u]}, Crosses(h, g)'
      PROVE  Crosses(h, g)
  <2>1. CASE h.op = "refresh" /\ Ends(g, h.arg)'
    <3>1. h.arg \in Ids(sessions)
      BY <1>1, <2>1
    <3>2. Ends(g, h.arg)
      BY <1>2, <2>1, <3>1
    <3> QED BY <2>1, <3>2 DEF Crosses
  <2> QED BY <1>3, <2>1 DEF Crosses
<1>4. ASSUME Conflict(task[r], task[u])'
      PROVE  FALSE
  <2>1. ~(Crosses(task[r], task[u]) \/ Crosses(task[u], task[r]))
    BY DEF Conflict
  <2>2. ~(Crosses(task[r], task[u])' \/ Crosses(task[u], task[r])')
    BY <1>3, <2>1
  <2> QED BY <1>4, <2>2 DEF Conflict
<1> QED BY <1>4

\* A handler that has ended conflicts with none; the second half of a challenge
\* with none that the challenge did not conflict with.
LEMMA IssueIsApart ==
  ASSUME NEW h, NEW g, g.op = "challenge", ~Conflict(h, g)
  PROVE  ~Conflict(h, [op |-> "issue", arg |-> 0])
<1> DEFINE issue == [op |-> "issue", arg |-> 0]
<1>1. issue.op = "issue"
  OBVIOUS
<1> HIDE DEF issue
<1>2. ~Crosses(h, issue)
  BY <1>1 DEF Crosses, Ends
<1>3. ~Crosses(issue, h)
  BY <1>1 DEF Crosses, Conflict
<1>4. /\ ~({h.op, issue.op} \subseteq Counting)
      /\ ~({h.op, issue.op} \subseteq Replacing \cup {"disable"})
      /\ {h.op, issue.op} # {"setup", "confirm"}
  BY <1>1 DEF Counting, Replacing
<1>5. ~(h = issue /\ h.op \in {"refresh", "verify", "reset", "confirm_email", "challenge",
                             "resend", "forgot"})
  BY <1>1
<1> QED BY <1>2, <1>3, <1>4, <1>5 DEF Conflict, issue

LEMMA ApartCommit ==
  ASSUME Typed, Apart, NEW t \in Threads, Commit(t)
  PROVE  Apart'
<1>0. Over(t) /\ \A r \in Threads \ {t} : task'[r] = task[r]
  BY Ended DEF Over
<1>1. ASSUME NEW r \in Threads, r # t
      PROVE  ~Conflict(task[r], task[t])'
  <2>1. CASE task'[t] = Idle
    <3>1. \A h : ~Conflict(h, Idle)'
      BY DEF Conflict, Crosses, Ends, Counting, Replacing, Idle
    <3> QED BY <2>1, <3>1
  <2>2. CASE task[t].op = "challenge" /\ task'[t] = [op |-> "issue", arg |-> 0] /\ sessions' = sessions
    <3>1. ~Conflict(task[r], [op |-> "issue", arg |-> 0])
      BY <1>1, <2>2, IssueIsApart DEF Apart
    <3> QED BY <1>0, <1>1, <2>2, <3>1 DEF Conflict, Crosses, Ends
  <2> QED BY <1>0, <2>1, <2>2 DEF Over
<1>2. ASSUME NEW r \in Threads, NEW u \in Threads, r # u
      PROVE  ~Conflict(task[r], task[u])'
  <2>1. CASE r # t /\ u # t
    BY <1>0, <1>2, <2>1, ConflictKept DEF Apart
  <2>2. CASE u = t
    BY <1>1, <1>2, <2>2
  <2>3. CASE r = t
    <3>1. ~Conflict(task[u], task[r])'
      BY <1>1, <1>2, <2>3
    <3>2. \A h, g : Conflict(h, g)' => Conflict(g, h)'
      <4> SUFFICES ASSUME NEW h, NEW g, Conflict(h, g)' PROVE Conflict(g, h)'
        OBVIOUS
      <4>1. {h.op, g.op} = {g.op, h.op}
        OBVIOUS
      <4>2. CASE h = g /\ h.op \in {"refresh", "verify", "reset", "confirm_email", "challenge",
                                    "resend", "forgot"}
        BY <4>2 DEF Conflict
      <4> QED BY <4>1, <4>2 DEF Conflict
    <3> QED BY <3>1, <3>2
  <2> QED BY <2>1, <2>2, <2>3
<1> QED BY <1>2 DEF Apart

LEMMA ApartElse ==
  ASSUME Typed, Apart, LockExpires \/ TicketExpires \/ UNCHANGED vars
  PROVE  Apart'
<1>1. task' = task /\ sessions' = sessions
  BY DEF LockExpires, TicketExpires, vars, rows
<1> QED BY <1>1 DEF Apart, Conflict, Crosses, Ends

-----------------------------------------------------------------------------
(* The lockout.                                                            *)

\* A handler that counts a wrong password has seen the count as it is.
Locks ==
  /\ misses <= user.failed_login_count
  /\ misses = MaxFailures => user.locked_until # "none"
  /\ \A t \in Threads : task[t].op = "wrong" =>
       /\ seen[t].user.failed_login_count = user.failed_login_count
       /\ seen[t].user.locked_until # "future"

LEMMA LocksBegin ==
  ASSUME Typed, Locks, NEW t \in Threads, Begin(t)
  PROVE  Locks'
<1>1. PICK op, arg : op \in Ops \ {"idle", "issue"} /\ Load(t, op, arg) /\ Fits(op, arg)
  BY BeginFacts
<1>2. /\ task'[t].op = op /\ seen'[t].user = user
      /\ \A r \in Threads \ {t} : task'[r] = task[r] /\ seen'[r] = seen[r]
      /\ UNCHANGED <<user, misses>>
  BY <1>1, LoadFacts DEF Loaded
<1> QED BY <1>1, <1>2 DEF Locks, Fits

LEMMA LocksCommit ==
  ASSUME Typed, Apart, Locks, NEW t \in Threads, Commit(t)
  PROVE  Locks'
<1>a. Over(t) /\ UserEffect(t)
  BY Ended, UserEffects
<1>b. user \in User /\ user' \in User /\ misses \in Nat /\ MaxFailures \in Nat \ {0}
  BY <1>a, MaxFailuresIsPositive DEF Typed, TypeOK, UserEffect
<1>c. user.failed_login_count \in Nat /\ user'.failed_login_count \in Nat
  BY <1>b DEF User
<1>0. /\ Over(t) /\ UserEffect(t) /\ misses \in Nat /\ MaxFailures \in Nat \ {0}
      /\ user.failed_login_count \in Nat /\ user'.failed_login_count \in Nat
  BY <1>a, <1>b, <1>c
<1>1. misses' <= user'.failed_login_count /\ (misses' = MaxFailures => user'.locked_until # "none")
  <2>1. CASE misses' = 0
    BY <1>0, <2>1
  <2>2. CASE /\ misses' = misses
             /\ user'.failed_login_count = user.failed_login_count
             /\ user'.locked_until = user.locked_until
    BY <2>2 DEF Locks
  <2>3. CASE /\ task[t].op = "wrong" /\ misses' <= misses + 1
             /\ user'.failed_login_count = seen[t].user.failed_login_count + 1
             /\ /\ user'.failed_login_count >= MaxFailures
                /\ seen[t].user.locked_until # "future"
                => user'.locked_until = "future"
    <3>1. /\ misses <= user.failed_login_count /\ seen[t].user.locked_until # "future"
          /\ user'.failed_login_count = user.failed_login_count + 1
      BY <2>3 DEF Locks
    <3>2. misses' \in Nat
      BY <1>0 DEF UserEffect
    <3>3. misses' <= user'.failed_login_count
      BY <1>0, <2>3, <3>1, <3>2
    <3>4. misses' = MaxFailures => user'.locked_until = "future"
      BY <1>0, <2>3, <3>1, <3>3
    <3> QED BY <3>3, <3>4
  <2> QED BY <1>0, <2>1, <2>2, <2>3 DEF UserEffect
<1>2. ASSUME NEW r \in Threads, task'[r].op = "wrong"
      PROVE  seen'[r].user.failed_login_count = user'.failed_login_count
             /\ seen'[r].user.locked_until # "future"
  <2>1. r # t
    BY <1>0, <1>2 DEF Over, Idle
  <2>2. task'[r] = task[r] /\ seen'[r] = seen[r]
    BY <1>0, <2>1 DEF Over
  <2>3. ~Conflict(task[r], task[t])
    BY <2>1 DEF Apart
  <2>4. task[t].op \notin Counting
    BY <1>2, <2>2, <2>3 DEF Conflict, Counting
  <2>5. user'.failed_login_count = user.failed_login_count
    BY <1>0, <2>4 DEF UserEffect, Counting
  <2> QED BY <1>2, <2>2, <2>5 DEF Locks
<1> QED BY <1>1, <1>2 DEF Locks

LEMMA LocksElse ==
  ASSUME Typed, Locks, LockExpires \/ TicketExpires \/ UNCHANGED vars
  PROVE  Locks'
<1>1. UNCHANGED <<task, seen, misses>>
  BY DEF LockExpires, TicketExpires, vars
<1>2. /\ user'.failed_login_count = user.failed_login_count
      /\ user.locked_until # "none" => user'.locked_until # "none"
  BY DEF LockExpires, TicketExpires, vars, rows, Typed, TypeOK, User
<1> QED BY <1>1, <1>2 DEF Locks

-----------------------------------------------------------------------------
(* One-time tokens and backup codes.                                       *)

\* A token that is about to be consumed has not been; no token comes between
\* those that a handler replaces and the one it creates.
TokenHandler(t) ==
  /\ task[t].op \in Consumers =>
       tokens[task[t].arg].purpose = PurposeOf(task[t].op) /\ tokens[task[t].arg].uses = 0
  /\ task[t].op \in {"resend", "forgot"} =>
       \A i \in Ids(tokens) : tokens[i].purpose = PurposeOf(task[t].op) => i <= seen[t].tokens

TokensOnce ==
  /\ \A i \in Ids(tokens) : tokens[i].uses <= 1 /\ (tokens[i].used = TRUE \/ tokens[i].uses = 0)
  /\ \A i, j \in Ids(tokens) :
       /\ tokens[i].purpose = tokens[j].purpose /\ tokens[i].purpose # "email_change" /\ i # j
       => tokens[i].used = TRUE \/ tokens[j].used = TRUE
  /\ \A t \in Threads : TokenHandler(t)

LEMMA TokensBegin ==
  ASSUME Typed, TokensOnce, NEW t \in Threads, Begin(t)
  PROVE  TokensOnce'
<1>1. PICK op, arg : op \in Ops \ {"idle", "issue"} /\ Load(t, op, arg) /\ Argued(op, arg) /\ Fits(op, arg)
  BY BeginFacts
<1>a. Loaded(t, op, arg)
  BY <1>1, LoadFacts
<1>2. /\ task'[t].op = op /\ task'[t].arg = arg /\ seen'[t].tokens = Len(tokens)
      /\ \A r \in Threads \ {t} : task'[r] = task[r] /\ seen'[r] = seen[r]
      /\ tokens' = tokens
  BY <1>a DEF Loaded
<1>3. TokenHandler(t)'
  <2>1. ASSUME op \in Consumers
        PROVE  tokens[arg].purpose = PurposeOf(op) /\ tokens[arg].uses = 0
    <3>1. arg \in Ids(tokens)
      BY <1>1, <2>1 DEF Argued, Consumers
    <3> QED BY <1>1, <2>1, <3>1 DEF Fits, TokensOnce
  <2>2. \A i \in Ids(tokens) : i <= Len(tokens)
    BY RowTypes DEF Typed
  <2> QED BY <1>2, <2>1, <2>2 DEF TokenHandler, Ids
<1>4. \A r \in Threads \ {t} : TokenHandler(r)'
  BY <1>2 DEF TokensOnce, TokenHandler, Ids
<1> QED BY <1>2, <1>3, <1>4 DEF TokensOnce, Ids

\* Two handlers that do not conflict do not consume the same token, nor create
\* tokens of the same purpose.
LEMMA TokensApart ==
  ASSUME Typed, Apart, NEW r \in Threads, NEW t \in Threads, r # t
  PROVE  /\ task[r].op \in Consumers /\ task[t].op = task[r].op => task[r].arg # task[t].arg
         /\ task[r].op \in {"resend", "forgot"} => task[t].op # task[r].op
<1>1. Prepared(r) /\ Prepared(t) /\ ~Conflict(task[r], task[t])
  BY DEF Typed, Apart
<1>2. ASSUME task[r].op \in Consumers \cup {"resend", "forgot"}, task[t].op = task[r].op,
             task[r].arg = task[t].arg
      PROVE  FALSE
  <2>1. task[r] = task[t]
    BY <1>1, <1>2 DEF Prepared, Consumers
  <2> QED BY <1>1, <1>2, <2>1 DEF Conflict, Consumers
<1>3. ASSUME task[r].op \in {"resend", "forgot"}, task[t].op = task[r].op
      PROVE  task[r].arg = 0 /\ task[t].arg = 0
  BY <1>1, <1>3 DEF Prepared, Argued
<1> QED BY <1>2, <1>3

LEMMA TokensCommit ==
  ASSUME Typed, Apart, TokensOnce, NEW t \in Threads, Commit(t)
  PROVE  TokensOnce'
<1>0. /\ Over(t) /\ TokenEffect(t) /\ Prepared(t) /\ TokenHandler(t)
      /\ Len(tokens) \in Nat /\ Ids(tokens) = 1 .. Len(tokens)
      /\ \A i \in Ids(tokens) : tokens[i].uses \in Nat
  BY Ended, TokenEffects, RowTypes DEF Typed, TokensOnce, OneTimeToken
<1>a. \A r \in Threads \ {t} :
        /\ task'[r] = task[r] /\ seen'[r] = seen[r] /\ TokenHandler(r) /\ Prepared(r)
  BY <1>0 DEF Over, TokensOnce, Typed
<1>b. TokenHandler(t)'
  <2>1. task'[t].op \notin Consumers \cup {"resend", "forgot"}
    BY <1>0 DEF Over, Idle, Consumers
  <2> QED BY <2>1 DEF TokenHandler
<1>1. CASE tokens' = tokens
  <2>1. \A r \in Threads \ {t} : TokenHandler(r)'
    BY <1>1, <1>a DEF TokenHandler, Ids
  <2> QED BY <1>1, <1>b, <2>1 DEF TokensOnce, Ids
<1>2. CASE Used(t)
  <2> DEFINE k == task[t].arg
  <2>1. /\ k \in Ids(tokens) /\ task[t].op \in Consumers /\ tokens[k].uses = 0
        /\ Ids(tokens)' = Ids(tokens)
        /\ \A i \in Ids(tokens) \ {k} : tokens'[i] = tokens[i]
        /\ tokens'[k].purpose = tokens[k].purpose
        /\ tokens'[k].used = TRUE /\ tokens'[k].uses = 1
    BY <1>0, <1>2 DEF Used, Prepared, Argued, Consumers, TokenHandler
  <2> HIDE DEF k
  <2>2. \A i \in Ids(tokens) : tokens'[i].uses <= 1 /\ (tokens'[i].used = TRUE \/ tokens'[i].uses = 0)
    BY <2>1 DEF TokensOnce
  <2>3. \A i \in Ids(tokens) : tokens'[i].purpose = tokens[i].purpose
                               /\ (tokens[i].used = TRUE => tokens'[i].used = TRUE)
    BY <2>1
  <2>4. ASSUME NEW r \in Threads \ {t}
        PROVE  TokenHandler(r)'
    <3>1. ASSUME task[r].op \in Consumers
          PROVE  tokens'[task[r].arg].purpose = PurposeOf(task[r].op) /\ tokens'[task[r].arg].uses = 0
      <4>1. task[r].arg \in Ids(tokens)
        BY <1>a, <3>1 DEF Prepared, Argued, Consumers
      <4>2. tokens[task[r].arg].purpose = PurposeOf(task[r].op) /\ tokens[task[r].arg].uses = 0
        BY <1>a, <3>1 DEF TokenHandler
      <4>3. task[r].arg # k
        <5>1. ASSUME task[r].arg = k PROVE task[r].op = task[t].op
          <6>1. PurposeOf(task[r].op) = PurposeOf(task[t].op)
            BY <1>0, <2>1, <4>2, <5>1 DEF TokenHandler, k
          <6> QED BY <2>1, <3>1, <6>1 DEF PurposeOf, Consumers
        <5> QED BY <3>1, <5>1, TokensApart DEF k
      <4> QED BY <2>1, <4>1, <4>2, <4>3
    <3>2. task[r].op \in {"resend", "forgot"} =>
            \A i \in Ids(tokens) : tokens'[i].purpose = PurposeOf(task[r].op) => i <= seen[r].tokens
      BY <1>a, <2>3 DEF TokenHandler
    <3> QED BY <1>a, <2>1, <3>1, <3>2 DEF TokenHandler
  <2> QED BY <1>b, <2>1, <2>2, <2>3, <2>4 DEF TokensOnce
<1>3. ASSUME NEW purpose,
             Ids(tokens)' = Ids(tokens) \cup {Len(tokens) + 1},
             \A i \in Ids(tokens) :
               /\ tokens'[i].purpose = tokens[i].purpose /\ tokens'[i].uses = tokens[i].uses
               /\ tokens[i].used = TRUE => tokens'[i].used = TRUE
               /\ purpose # "email_change" /\ tokens[i].purpose = purpose => tokens'[i].used = TRUE,
             tokens'[Len(tokens) + 1].purpose = purpose, tokens'[Len(tokens) + 1].uses = 0,
             \A r \in Threads \ {t} :
               task[r].op \in {"resend", "forgot"} => PurposeOf(task[r].op) # purpose
      PROVE  TokensOnce'
  <2> DEFINE n == Len(tokens) + 1
  <2>1. n \notin Ids(tokens)
    BY <1>0
  <2>a. Ids(tokens)' = Ids(tokens) \cup {n} /\ tokens'[n].purpose = purpose /\ tokens'[n].uses = 0
    BY <1>3
  <2> HIDE DEF n
  <2>2. \A i \in Ids(tokens)' : tokens'[i].uses <= 1 /\ (tokens'[i].used = TRUE \/ tokens'[i].uses = 0)
    BY <1>3, <2>a DEF TokensOnce
  <2>3. ASSUME NEW i \in Ids(tokens)', NEW j \in Ids(tokens)',
               tokens'[i].purpose = tokens'[j].purpose, tokens'[i].purpose # "email_change", i # j
        PROVE  tokens'[i].used = TRUE \/ tokens'[j].used = TRUE
    <3>1. CASE i \in Ids(tokens) /\ j \in Ids(tokens)
      BY <1>3, <2>3, <3>1 DEF TokensOnce
    <3>2. CASE i = n
      <4>1. j \in Ids(tokens) /\ tokens[j].purpose = purpose /\ purpose # "email_change"
        BY <1>3, <2>3, <2>a, <3>2
      <4> QED BY <1>3, <4>1
    <3>3. CASE j = n
      <4>1. i \in Ids(tokens) /\ tokens[i].purpose = purpose /\ purpose # "email_change"
        BY <1>3, <2>3, <2>a, <3>3
      <4> QED BY <1>3, <4>1
    <3> QED BY <2>3, <2>a, <3>1, <3>2, <3>3
  <2>4. ASSUME NEW r \in Threads \ {t}
        PROVE  TokenHandler(r)'
    <3>1. ASSUME task[r].op \in Consumers
          PROVE  tokens'[task[r].arg].purpose = PurposeOf(task[r].op) /\ tokens'[task[r].arg].uses = 0
      <4>1. task[r].arg \in Ids(tokens)
        BY <1>a, <3>1 DEF Prepared, Argued, Consumers
      <4> QED BY <1>3, <1>a, <3>1, <4>1 DEF TokenHandler
    <3>2. ASSUME task[r].op \in {"resend", "forgot"}, NEW i \in Ids(tokens)',
                 tokens'[i].purpose = PurposeOf(task[r].op)
          PROVE  i <= seen[r].tokens
      <4>1. i \in Ids(tokens) /\ tokens[i].purpose = PurposeOf(task[r].op)
        BY <1>3, <2>a, <3>2
      <4> QED BY <1>a, <3>2, <4>1 DEF TokenHandler
    <3> QED BY <1>a, <3>1, <3>2 DEF TokenHandler
  <2> QED BY <1>b, <2>2, <2>3, <2>4 DEF TokensOnce
<1>4. CASE Replaced(t)
  <2> DEFINE purpose == PurposeOf(task[t].op)
  <2>1. \A i \in Ids(tokens) : tokens[i].purpose = purpose => tokens'[i].used = TRUE
    BY <1>0, <1>4 DEF Replaced, TokenHandler
  <2>2. ASSUME NEW r \in Threads \ {t}, task[r].op \in {"resend", "forgot"}
        PROVE  PurposeOf(task[r].op) # purpose
    <3>1. task[r].op # task[t].op
      BY <2>2, TokensApart
    <3> QED BY <1>4, <2>2, <3>1 DEF Replaced, PurposeOf
  <2> QED BY <1>3, <1>4, <2>1, <2>2 DEF Replaced
<1>5. CASE Added(t)
  <2>1. \A r \in Threads \ {t} : task[r].op \in {"resend", "forgot"} => PurposeOf(task[r].op) # "email_change"
    BY DEF PurposeOf
  <2> QED BY <1>3, <1>5, <2>1 DEF Added
<1> QED BY <1>0, <1>1, <1>2, <1>4, <1>5 DEF TokenEffect

\* A backup code that is about to be used up has not been.
CodesOnce ==
  /\ \A c \in Ids(codes) : codes[c].uses <= 1 /\ (codes[c].state = "unused" => codes[c].uses = 0)
  /\ \A t \in Threads : task[t].op = "challenge" /\ task[t].arg # 0 => codes[task[t].arg].uses = 0

LEMMA CodesBegin ==
  ASSUME Typed, CodesOnce, NEW t \in Threads, Begin(t)
  PROVE  CodesOnce'
<1>1. PICK op, arg : op \in Ops \ {"idle", "issue"} /\ Load(t, op, arg) /\ Argued(op, arg) /\ Fits(op, arg)
  BY BeginFacts
<1>a. Loaded(t, op, arg)
  BY <1>1, LoadFacts
<1>2. /\ task'[t].op = op /\ task'[t].arg = arg
      /\ \A r \in Threads \ {t} : task'[r] = task[r]
      /\ codes' = codes
  BY <1>a DEF Loaded
<1>3. ASSUME op = "challenge", arg # 0
      PROVE  codes[arg].uses = 0
  <2>1. arg \in Ids(codes)
    BY <1>1, <1>3 DEF Argued
  <2> QED BY <1>1, <1>3, <2>1 DEF Fits, CodesOnce
<1> QED BY <1>2, <1>3 DEF CodesOnce, Ids

LEMMA CodesCommit ==
  ASSUME Typed, Apart, CodesOnce, NEW t \in Threads, Commit(t)
  PROVE  CodesOnce'
<1>0. /\ Over(t) /\ CodeEffect(t)
      /\ Len(codes) \in Nat /\ Ids(codes) = 1 .. Len(codes)
      /\ \A r \in Threads : Prepared(r)
  BY Ended, CodeEffects, RowTypes DEF Typed
<1>a. \A r \in Threads : task'[r].op = "challenge" => r # t /\ task'[r] = task[r]
  BY <1>0 DEF Over, Idle
<1>1. CASE codes' = codes
  BY <1>1, <1>a DEF CodesOnce, Ids
<1>2. CASE Spent(t)
  <2>1. codes[task[t].arg].uses = 0
    BY <1>0, <1>2 DEF Spent, CodesOnce
  <2>2. \A c \in Ids(codes)' : codes'[c].uses <= 1 /\ (codes'[c].state = "unused" => codes'[c].uses = 0)
    BY <1>2, <2>1 DEF Spent, CodesOnce
  <2>3. ASSUME NEW r \in Threads, task'[r].op = "challenge", task'[r].arg # 0
        PROVE  codes'[task'[r].arg].uses = 0
    <3>1. r # t /\ task'[r] = task[r] /\ Prepared(r) /\ Prepared(t) /\ ~Conflict(task[r], task[t])
      BY <1>0, <1>a, <2>3 DEF Apart
    <3>2. task[r].arg \in Ids(codes) /\ task[r].op = "challenge"
      BY <2>3, <3>1 DEF Prepared, Argued
    <3>3. task[r] # task[t]
      BY <3>1, <3>2 DEF Conflict
    <3>4. task[r].arg # task[t].arg
      BY <1>2, <3>1, <3>2, <3>3 DEF Prepared, Spent
    <3> QED BY <1>2, <2>3, <3>1, <3>2, <3>4 DEF Spent, CodesOnce
  <2> QED BY <2>2, <2>3 DEF CodesOnce
<1>3. CASE Renewed(t)
  <2>1. /\ \A c \in Ids(codes) : /\ codes'[c].uses = codes[c].uses
                                 /\ codes'[c].state \in {codes[c].state, "gone"}
        /\ \/ Ids(codes)' = Ids(codes)
           \/ Ids(codes)' = Ids(codes) \cup {Len(codes) + 1} /\ codes'[Len(codes) + 1].uses = 0
    BY <1>3 DEF Renewed
  <2>2. \A c \in Ids(codes)' : codes'[c].uses <= 1 /\ (codes'[c].state = "unused" => codes'[c].uses = 0)
    BY <2>1 DEF CodesOnce
  <2>3. ASSUME NEW r \in Threads, task'[r].op = "challenge", task'[r].arg # 0
        PROVE  codes'[task'[r].arg].uses = 0
    <3>1. task'[r] = task[r] /\ Prepared(r)
      BY <1>0, <1>a, <2>3
    <3>2. task[r].arg \in Ids(codes) /\ task[r].op = "challenge"
      BY <2>3, <3>1 DEF Prepared, Argued
    <3> QED BY <2>1, <2>3, <3>1, <3>2 DEF CodesOnce
  <2> QED BY <2>2, <2>3 DEF CodesOnce
<1> QED BY <1>0, <1>1, <1>2, <1>3 DEF CodeEffect

-----------------------------------------------------------------------------
(* Sessions.                                                               *)

\* Handlers that end every session, or every one but the current.
EndsAll(h) ==
  h.op \in {"change", "reset", "delete"} \/ (h.op = "status" /\ h.arg \in {"locked", "disabled"})

\* What a handler that opens a session has seen still holds; what one that ends
\* sessions has not seen it need not end.
SessionHandler(t) ==
  /\ task[t].op = "refresh" => Live(task[t].arg)
  /\ task[t].op \in {"login", "issue", "challenge"} =>
       seen[t].user.password_hash = user.password_hash
  /\ task[t].op \in {"login", "issue", "challenge", "refresh"} => user.status \notin Blocked
  /\ \A s \in Ids(sessions) : Live(s) =>
       /\ task[t].op = "logout" /\ sessions[s].family = sessions[task[t].arg].family => s = task[t].arg
       /\ ~(s <= seen[t].sessions) =>
            /\ task[t].op = "reuse" => sessions[s].family # sessions[task[t].arg].family
            /\ task[t].op \in {"logout_all", "logout_others"} => seen[t].sessions < sessions[s].family
            /\ ~EndsAll(task[t])

SessionsSound ==
  /\ \A r, s \in Ids(sessions) : Live(r) /\ Live(s) /\ r # s => sessions[r].family # sessions[s].family
  /\ \A s \in Ids(sessions) : Live(s) =>
       /\ sessions[s].family \notin ended
       /\ sessions[s].password = user.password_hash
       /\ user.status \notin Blocked
  /\ \A t \in Threads : SessionHandler(t)

LEMMA SessionsBegin ==
  ASSUME Typed, SessionsSound, NEW t \in Threads, Begin(t)
  PROVE  SessionsSound'
<1>1. PICK op, arg : op \in Ops \ {"idle", "issue"} /\ Load(t, op, arg) /\ Argued(op, arg) /\ Fits(op, arg)
  BY BeginFacts
<1>a. Loaded(t, op, arg)
  BY <1>1, LoadFacts
<1>2. /\ task'[t].op = op /\ task'[t].arg = arg /\ seen'[t].sessions = Len(sessions)
      /\ seen'[t].user = user
      /\ user' = user /\ sessions' = sessions /\ ended' = ended
      /\ Ids(sessions)' = Ids(sessions)
  BY <1>a DEF Loaded, Ids
<1>b. \A r \in Threads \ {t} : task'[r] = task[r] /\ seen'[r] = seen[r]
  BY <1>a DEF Loaded
<1>3. \A s \in Ids(sessions) : s <= Len(sessions)
  BY RowTypes DEF Typed
<1>4. SessionHandler(t)'
  <2>1. ASSUME NEW s \in Ids(sessions), op = "logout", Live(s),
               sessions[s].family = sessions[arg].family
        PROVE  s = arg
    <3>1. arg \in Ids(sessions) /\ Live(arg)
      BY <1>1, <2>1 DEF Argued, Fits
    <3> QED BY <2>1, <3>1 DEF SessionsSound
  <2>2. op = "refresh" => Live(arg)
    BY <1>1 DEF Fits
  <2>3. op \in {"login", "issue", "challenge", "refresh"} => user.status \notin Blocked
    BY <1>1 DEF Fits
  <2> QED BY <1>2, <1>3, <2>1, <2>2, <2>3 DEF SessionHandler, Live
<1>5. ASSUME NEW r \in Threads \ {t} PROVE SessionHandler(r)'
  <2>1. SessionHandler(r) /\ task'[r] = task[r] /\ seen'[r] = seen[r]
    BY <1>b DEF SessionsSound
  <2> QED BY <1>2, <2>1 DEF SessionHandler, Live, EndsAll
<1> QED BY <1>2, <1>4, <1>5 DEF SessionsSound, Live

\* A session that can be refreshed after a commit could be before, or is new.
LEMMA LiveBefore ==
  ASSUME Typed, NEW t \in Threads, Commit(t), NEW s \in Ids(sessions)', sessions'[s].state = "live"
  PROVE  \/ /\ s \in Ids(sessions) /\ Live(s) /\ sessions'[s].family = sessions[s].family
            /\ \/ sessions'[s].password = sessions[s].password
               \/ task[t].op = "change" /\ s = task[t].arg
         \/ s = Len(sessions) + 1 /\ s \notin Ids(sessions) /\ (Opened(t) \/ Rotated(t))
<1>0. SessionEffect(t) /\ Len(sessions) \in Nat /\ Ids(sessions) = 1 .. Len(sessions)
  BY SessionEffects, RowTypes DEF Typed
<1>a. Len(sessions) + 1 \notin Ids(sessions)
  BY <1>0
<1>1. CASE sessions' = sessions
  BY <1>1 DEF Ids, Live
<1>2. CASE Opened(t)
  BY <1>a, <1>2 DEF Opened, Live
<1>3. CASE Rotated(t)
  BY <1>a, <1>3 DEF Rotated, Live
<1>4. CASE Cut(t)
  BY <1>4 DEF Cut
<1> QED BY <1>0, <1>1, <1>2, <1>3, <1>4 DEF SessionEffect

LEMMA FamilyBounds ==
  ASSUME Typed, NEW s \in Ids(sessions)
  PROVE  /\ s \in Nat /\ s <= Len(sessions)
         /\ sessions[s].family \in Nat /\ sessions[s].family <= s
         /\ sessions[s].family <= Len(sessions)
<1>1. Len(sessions) \in Nat /\ Ids(sessions) = 1 .. Len(sessions) /\ sessions[s] \in RefreshSession
  BY RowTypes DEF Typed
<1>2. sessions[s].family \in Nat /\ s \in Nat /\ s <= Len(sessions)
  BY <1>1 DEF RefreshSession
<1>3. sessions[s].family <= s
  BY DEF Typed
<1> QED BY <1>1, <1>2, <1>3

\* The status becomes one that blocks only by an administrator, whose handler
\* ends every session.
LEMMA BlockingEndsAll ==
  ASSUME Typed, NEW t \in Threads, Commit(t), user'.status \in Blocked, user.status \notin Blocked
  PROVE  EndsAll(task[t]) /\ task[t].op \in {"delete", "status"}
<1>1. UserEffect(t) /\ Prepared(t)
  BY UserEffects DEF Typed
<1>2. task[t].op = "delete" \/ (task[t].op = "status" /\ task[t].arg = user'.status)
  BY <1>1 DEF UserEffect, Blocked
<1>3. task[t].op = "status" => task[t].arg = "disabled"
  BY <1>1, <1>2 DEF Prepared, Argued, Blocked
<1> QED BY <1>2, <1>3 DEF EndsAll

\* A handler under way keeps what it relies on when another commits.
LEMMA SessionHandlerKept ==
  ASSUME Typed, Apart, SessionsSound, NEW t \in Threads, Commit(t), NEW r \in Threads, r # t
  PROVE  SessionHandler(r)'
<1>0. /\ Over(t) /\ SessionEffect(t) /\ UserEffect(t) /\ SessionHandler(r) /\ Prepared(r) /\ Prepared(t)
      /\ ~Conflict(task[r], task[t]) /\ task'[r] = task[r] /\ seen'[r] = seen[r]
      /\ Len(sessions) \in Nat /\ Ids(sessions) = 1 .. Len(sessions)
  BY Ended, SessionEffects, UserEffects, RowTypes DEF Over, Typed, Apart, SessionsSound
<1>a. ~Crosses(task[r], task[t]) /\ ~Crosses(task[t], task[r])
  BY <1>0 DEF Conflict
<1>b. seen[r].sessions \in Nat
  BY DEF Typed, Reads
<1>1. ASSUME task[r].op = "refresh" PROVE sessions'[task[r].arg].state = "live"
  <2>1. task[r].arg \in Ids(sessions) /\ Live(task[r].arg)
    BY <1>0, <1>1 DEF Prepared, Argued, SessionHandler
  <2>2. ~Ends(task[t], task[r].arg)
    BY <1>a, <1>1 DEF Crosses
  <2>3. CASE Rotated(t)
    <3>1. task[t].arg # task[r].arg
      <4>1. task[t] # task[r]
        BY <1>0, <1>1 DEF Conflict
      <4> QED BY <1>0, <1>1, <2>3, <4>1 DEF Prepared, Rotated
    <3> QED BY <2>1, <2>3, <3>1 DEF Rotated, Live
  <2>4. CASE Opened(t) \/ sessions' = sessions
    BY <2>1, <2>4 DEF Opened, Live
  <2>5. CASE Cut(t)
    BY <2>1, <2>2, <2>5 DEF Cut, Live
  <2> QED BY <1>0, <2>3, <2>4, <2>5 DEF SessionEffect
<1>2. ASSUME task[r].op \in {"login", "issue", "challenge"}
      PROVE  seen[r].user.password_hash = user'.password_hash
  <2>1. task[t].op \notin {"reset", "change"}
    BY <1>a, <1>2 DEF Crosses
  <2> QED BY <1>0, <1>2, <2>1 DEF UserEffect, SessionHandler
<1>3. ASSUME task[r].op \in {"login", "issue", "challenge", "refresh"}
      PROVE  user'.status \notin Blocked
  <2>1. user.status \notin Blocked
    BY <1>0, <1>3 DEF SessionHandler
  <2>2. ASSUME EndsAll(task[t]), task[t].op \in {"delete", "status"} PROVE FALSE
    <3>1. task[r].op # "refresh"
      BY <1>a, <2>2 DEF Crosses, Ends, EndsAll
    <3> QED BY <1>a, <1>3, <2>2, <3>1 DEF Crosses
  <2> QED BY <2>1, <2>2, BlockingEndsAll
<1>5. ASSUME NEW s \in Ids(sessions)', sessions'[s].state = "live"
      PROVE  /\ task[r].op = "logout" /\ sessions'[s].family = sessions'[task[r].arg].family
                  => s = task[r].arg
             /\ ~(s <= seen[r].sessions) =>
                  /\ task[r].op = "reuse" => sessions'[s].family # sessions'[task[r].arg].family
                  /\ task[r].op \in {"logout_all", "logout_others"} =>
                       seen[r].sessions < sessions'[s].family
                  /\ ~EndsAll(task[r])
  <2>1. task[r].op \in {"logout", "reuse"} =>
          task[r].arg \in Ids(sessions) /\ sessions'[task[r].arg].family = sessions[task[r].arg].family
    BY <1>0, FamiliesKept DEF Prepared, Argued
  <2>2. CASE s \in Ids(sessions) /\ Live(s) /\ sessions'[s].family = sessions[s].family
    <3>1. /\ task[r].op = "logout" /\ sessions[s].family = sessions[task[r].arg].family
                  => s = task[r].arg
          /\ ~(s <= seen[r].sessions) =>
               /\ task[r].op = "reuse" => sessions[s].family # sessions[task[r].arg].family
               /\ task[r].op \in {"logout_all", "logout_others"} => seen[r].sessions < sessions[s].family
               /\ ~EndsAll(task[r])
      BY <1>0, <2>2 DEF SessionHandler
    <3> QED BY <2>1, <2>2, <3>1
  <2>3. CASE s = Len(sessions) + 1 /\ Opened(t)
    <3>1. sessions'[s].family = Len(sessions) + 1 /\ task[t].op \in {"login", "issue"}
      BY <2>3 DEF Opened
    <3>2. ~EndsAll(task[r])
      BY <1>a, <3>1 DEF Crosses, EndsAll
    <3>3. task[r].op \in {"logout", "reuse"} => sessions'[task[r].arg].family # Len(sessions) + 1
      <4>1. ASSUME task[r].op \in {"logout", "reuse"}
            PROVE  sessions[task[r].arg].family \in Nat /\ sessions[task[r].arg].family <= Len(sessions)
        BY <2>1, <4>1, FamilyBounds
      <4> QED BY <1>0, <2>1, <4>1
    <3>4. task[r].op \in {"logout_all", "logout_others"} => seen[r].sessions < Len(sessions) + 1
      BY <1>0, <1>b DEF Prepared
    <3> QED BY <3>1, <3>2, <3>3, <3>4
  <2>4. CASE s = Len(sessions) + 1 /\ Rotated(t)
    <3>1. task[t].op = "refresh" /\ sessions'[s].family = sessions[task[t].arg].family
      BY <2>4 DEF Rotated
    <3>2. ~Ends(task[r], task[t].arg)
      BY <1>a, <3>1 DEF Crosses
    <3>3. ~EndsAll(task[r]) /\ task[r].op \notin {"logout_all", "logout_others"}
      BY <3>2 DEF Ends, EndsAll
    <3>4. task[r].op \in {"logout", "reuse"} => sessions[task[r].arg].family # sessions[task[t].arg].family
      BY <3>2 DEF Ends
    <3> QED BY <2>1, <3>1, <3>3, <3>4
  <2> QED BY <1>5, <2>2, <2>3, <2>4, LiveBefore
<1>6. EndsAll(task[r])' <=> EndsAll(task[r])
  BY <1>0 DEF EndsAll
<1> QED BY <1>0, <1>1, <1>2, <1>3, <1>5, <1>6 DEF SessionHandler, Live

\* No session that ends with a commit can be refreshed after it.
LEMMA NothingLeft ==
  ASSUME Typed, SessionsSound, NEW t \in Threads, Commit(t), EndsAll(task[t]),
         NEW s \in Ids(sessions)', sessions'[s].state = "live"
  PROVE  task[t].op = "change" /\ s = task[t].arg /\ sessions'[s].password = user'.password_hash
<1>0. SessionEffect(t) /\ SessionHandler(t)
  BY SessionEffects DEF SessionsSound
<1>1. Cut(t) /\ CutSessions(t)
  BY <1>0 DEF SessionEffect, Opened, Rotated, EndsAll
<1>2. s \in Ids(sessions) /\ Live(s)
  BY <1>1 DEF Cut
<1>3. s <= seen[t].sessions
  BY <1>0, <1>2 DEF SessionHandler
<1> QED BY <1>1, <1>2, <1>3 DEF CutSessions, EndsAll

LEMMA SessionsCommit ==
  ASSUME Typed, Apart, SessionsSound, NEW t \in Threads, Commit(t)
  PROVE  SessionsSound'
<1>0. /\ Over(t) /\ SessionEffect(t) /\ UserEffect(t) /\ SessionHandler(t) /\ Prepared(t)
      /\ Len(sessions) \in Nat /\ Ids(sessions) = 1 .. Len(sessions)
  BY Ended, SessionEffects, UserEffects, RowTypes DEF Typed, SessionsSound
<1>a. seen[t].sessions \in Nat
  BY DEF Typed, Reads
<1>b. Rotated(t) => task[t].arg \in Ids(sessions) /\ Live(task[t].arg)
  BY <1>0 DEF Rotated, SessionHandler, Prepared, Argued
<1>1. SessionHandler(t)'
  <2>1. CASE task'[t] = Idle
    BY <2>1 DEF SessionHandler, Idle, EndsAll
  <2>2. CASE /\ task[t].op = "challenge" /\ task'[t] = [op |-> "issue", arg |-> 0]
             /\ seen'[t] = seen[t] /\ user' = user
    <3>1. task'[t].op = "issue"
      BY <2>2
    <3>2. seen[t].user.password_hash = user.password_hash /\ user.status \notin Blocked
      BY <1>0, <2>2 DEF SessionHandler
    <3> QED BY <2>2, <3>1, <3>2 DEF SessionHandler, EndsAll
  <2> QED BY <1>0, <2>1, <2>2 DEF Over
<1>2. ASSUME NEW r \in Ids(sessions)', NEW s \in Ids(sessions)', r # s,
             sessions'[r].state = "live", sessions'[s].state = "live",
             r \in Ids(sessions), Live(r), sessions'[r].family = sessions[r].family
      PROVE  sessions'[r].family # sessions'[s].family
  <2>1. CASE s \in Ids(sessions) /\ Live(s) /\ sessions'[s].family = sessions[s].family
    BY <1>2, <2>1 DEF SessionsSound
  <2>2. CASE s = Len(sessions) + 1 /\ Opened(t)
    <3>1. sessions'[s].family = Len(sessions) + 1
      BY <2>2 DEF Opened
    <3>2. sessions[r].family \in Nat /\ sessions[r].family <= Len(sessions)
      BY <1>2, FamilyBounds
    <3> QED BY <1>0, <1>2, <3>1, <3>2
  <2>3. CASE s = Len(sessions) + 1 /\ Rotated(t)
    <3>1. r # task[t].arg /\ sessions'[s].family = sessions[task[t].arg].family
      BY <1>2, <2>3 DEF Rotated
    <3> QED BY <1>2, <1>b, <2>3, <3>1 DEF SessionsSound
  <2> QED BY <1>2, <2>1, <2>2, <2>3, LiveBefore
<1>3. ASSUME NEW r \in Ids(sessions)', NEW s \in Ids(sessions)', r # s,
             sessions'[r].state = "live", sessions'[s].state = "live"
      PROVE  sessions'[r].family # sessions'[s].family
  <2>1. \/ r \in Ids(sessions) /\ Live(r) /\ sessions'[r].family = sessions[r].family
        \/ r = Len(sessions) + 1
    BY <1>3, LiveBefore
  <2>2. \/ s \in Ids(sessions) /\ Live(s) /\ sessions'[s].family = sessions[s].family
        \/ s = Len(sessions) + 1
    BY <1>3, LiveBefore
  <2>3. CASE r \in Ids(sessions) /\ Live(r) /\ sessions'[r].family = sessions[r].family
    BY <1>2, <1>3, <2>3
  <2>4. CASE s \in Ids(sessions) /\ Live(s) /\ sessions'[s].family = sessions[s].family
    BY <1>2, <1>3, <2>4
  <2> QED BY <1>3, <2>1, <2>2, <2>3, <2>4
<1>4. ASSUME NEW s \in Ids(sessions)', sessions'[s].state = "live"
      PROVE  sessions'[s].family \notin ended'
  <2>1. CASE s = Len(sessions) + 1 /\ Opened(t)
    <3>1. ended' = ended /\ sessions'[s].family = Len(sessions) + 1 /\ Len(sessions) + 1 \notin Ids(sessions)
      BY <1>0, <2>1 DEF Opened
    <3> QED BY <3>1 DEF Typed, TypeOK
  <2>2. CASE s = Len(sessions) + 1 /\ Rotated(t)
    BY <1>b, <2>2 DEF Rotated, SessionsSound
  <2>3. ASSUME s \in Ids(sessions), Live(s), sessions'[s].family = sessions[s].family
        PROVE  sessions[s].family \notin ended'
    <3>1. sessions[s].family \notin ended
      BY <2>3 DEF SessionsSound
    <3>2. CASE ended' = ended
      BY <3>1, <3>2
    <3>3. CASE Cut(t) /\ CutFamilies(t) /\ CutSessions(t)
      <4>1. CASE task[t].op = "change"
        BY <3>1, <3>3, <4>1 DEF CutFamilies
      <4>5. CASE task[t].op \in {"reset", "status", "delete"}
        <5>1. EndsAll(task[t])
          BY <3>3, <4>5 DEF EndsAll, CutFamilies
        <5>2. task[t].op = "change"
          BY <1>4, <5>1, NothingLeft
        <5> QED BY <4>5, <5>2
      <4>2. CASE task[t].op = "reuse"
        <5>1. sessions[s].family # sessions[task[t].arg].family
          BY <1>0, <1>4, <2>3, <3>3, <4>2 DEF SessionHandler, CutSessions
        <5> QED BY <3>1, <3>3, <4>2, <5>1 DEF CutFamilies
      <4>3. CASE task[t].op = "logout"
        <5>1. sessions[s].family # sessions[task[t].arg].family
          BY <1>0, <1>4, <2>3, <3>3, <4>3 DEF SessionHandler, CutSessions
        <5> QED BY <3>1, <3>3, <4>3, <5>1 DEF CutFamilies
      <4>4. CASE task[t].op \in {"logout_all", "logout_others"}
        <5> SUFFICES ASSUME NEW r \in 1 .. seen[t].sessions, Other(r, task[t].arg)
                     PROVE  sessions[s].family # sessions[r].family
          BY <3>1, <3>3, <4>4 DEF CutFamilies
        <5>1. CASE s <= seen[t].sessions
          <6>1. s = task[t].arg
            BY <1>4, <2>3, <3>3, <4>4, <5>1 DEF CutSessions
          <6>2. s # ApiKey
            BY <1>0, <2>3 DEF ApiKey
          <6> QED BY <6>1, <6>2 DEF Other
        <5>2. CASE ~(s <= seen[t].sessions)
          <6>1. seen[t].sessions < sessions[s].family
            BY <1>0, <2>3, <4>4, <5>2 DEF SessionHandler
          <6>2. r \in Ids(sessions) /\ r <= seen[t].sessions /\ r \in Nat
            BY <1>0, <1>a, <4>4 DEF Prepared
          <6>3. sessions[r].family \in Nat /\ sessions[r].family <= r
            BY <6>2, FamilyBounds
          <6>4. sessions[s].family \in Nat
            BY <2>3, FamilyBounds
          <6> QED BY <1>a, <6>1, <6>2, <6>3, <6>4
        <5> QED BY <5>1, <5>2
      <4> QED BY <3>3, <4>1, <4>2, <4>3, <4>4, <4>5 DEF Cut, Ending
    <3> QED BY <1>0, <3>2, <3>3 DEF SessionEffect, Opened, Rotated
  <2> QED BY <1>4, <2>1, <2>2, <2>3, LiveBefore
<1>5. ASSUME NEW s \in Ids(sessions)', sessions'[s].state = "live"
      PROVE  sessions'[s].password = user'.password_hash
  <2>1. CASE EndsAll(task[t])
    BY <1>5, <2>1, NothingLeft
  <2>2. CASE ~EndsAll(task[t])
    <3>1. user'.password_hash = user.password_hash /\ task[t].op # "change"
      BY <1>0, <2>2 DEF UserEffect, EndsAll
    <3>2. CASE s \in Ids(sessions) /\ Live(s) /\ sessions'[s].password = sessions[s].password
      BY <3>1, <3>2 DEF SessionsSound
    <3>3. CASE s = Len(sessions) + 1 /\ Opened(t)
      BY <1>0, <3>1, <3>3 DEF Opened, SessionHandler
    <3>4. CASE s = Len(sessions) + 1 /\ Rotated(t)
      BY <1>b, <3>1, <3>4 DEF Rotated, SessionsSound
    <3> QED BY <1>5, <3>1, <3>2, <3>3, <3>4, LiveBefore
  <2> QED BY <2>1, <2>2
<1>6. ASSUME NEW s \in Ids(sessions)', sessions'[s].state = "live"
      PROVE  user'.status \notin Blocked
  <2>1. ASSUME user.status \in Blocked PROVE FALSE
    <3>1. CASE s \in Ids(sessions) /\ Live(s)
      BY <2>1, <3>1 DEF SessionsSound
    <3>2. CASE Opened(t) \/ Rotated(t)
      BY <1>0, <2>1, <3>2 DEF Opened, Rotated, SessionHandler
    <3> QED BY <1>6, <3>1, <3>2, LiveBefore
  <2>2. ASSUME user'.status \in Blocked PROVE FALSE
    <3>1. EndsAll(task[t]) /\ task[t].op \in {"delete", "status"}
      BY <2>1, <2>2, BlockingEndsAll
    <3>2. task[t].op = "change"
      BY <1>6, <3>1, NothingLeft
    <3> QED BY <3>1, <3>2
  <2> QED BY <2>2
<1>7. \A r \in Threads : SessionHandler(r)'
  BY <1>1, SessionHandlerKept
<1> QED BY <1>3, <1>4, <1>5, <1>6, <1>7 DEF SessionsSound, Live

LEMMA SessionsElse ==
  ASSUME Typed, SessionsSound, LockExpires \/ TicketExpires \/ UNCHANGED vars
  PROVE  SessionsSound'
<1>1. UNCHANGED <<sessions, task, seen, ended>>
  BY DEF LockExpires, TicketExpires, vars, rows
<1>2. user'.password_hash = user.password_hash /\ user'.status = user.status
  BY DEF LockExpires, TicketExpires, vars, rows, Typed, TypeOK, User
<1> QED BY <1>1, <1>2 DEF SessionsSound, SessionHandler, Live, Ids, EndsAll

-----------------------------------------------------------------------------
(* The second factor.                                                      *)

\* The backup codes that were not deleted.
Left == {c \in Ids(codes) : codes[c].state # "gone"}

FactorAgrees ==
  /\ Usable => user.mfa_enabled = TRUE
  /\ user.mfa_enabled = TRUE => method.exists = TRUE /\ method.disabled_at = FALSE
  /\ user.mfa_enabled = TRUE <=> Left # {}
  /\ \A c, d \in Left : c = d

\* What holds between the read of a handler of the second factor and its commit.
FactorHandler(t) ==
  /\ task[t].op = "setup" => (method.confirmed_at = TRUE => seen[t].method.confirmed_at = TRUE)
  /\ task[t].op = "confirm" =>
       /\ method.exists = TRUE
       /\ seen[t].method = method
       /\ seen[t].user.mfa_enabled = user.mfa_enabled
  /\ Disabling(t) => seen[t].user.mfa_enabled = TRUE
  /\ task[t].op = "regenerate" => user.mfa_enabled = TRUE
  /\ task[t].op \in Replacing \/ Disabling(t) => \A c \in Ids(codes) : c <= seen[t].codes

FactorSound == FactorAgrees /\ \A t \in Threads : FactorHandler(t)

\* What each handler commits to the row of the authenticator.
MethodEffect(t) ==
  \/ method' = method /\ task[t].op # "confirm" /\ ~Disabling(t)
  \/ /\ task[t].op = "setup"
     /\ method' = [exists |-> TRUE,
                   confirmed_at |-> method.confirmed_at /\ ~seen[t].method.confirmed_at,
                   disabled_at |-> method.disabled_at /\ ~seen[t].method.disabled_at]
  \/ /\ task[t].op = "confirm"
     /\ method' = [method EXCEPT !.confirmed_at = TRUE,
                                 !.disabled_at = method.disabled_at /\ ~seen[t].method.disabled_at]
  \/ Disabling(t) /\ method' = [method EXCEPT !.disabled_at = TRUE]

LEMMA MethodEffects ==
  ASSUME NEW t \in Threads, Commit(t)
  PROVE  MethodEffect(t)
<1>1. CASE \/ CommitVerify(t) \/ CommitWrongPassword(t) \/ CommitLogin(t)
           \/ CommitToken(t, "resend", "email_verification") \/ CommitToken(t, "forgot", "password_reset")
           \/ CommitRefresh(t) \/ CommitReuse(t) \/ CommitLogout(t)
           \/ CommitLogoutAll(t, "logout_all") \/ CommitLogoutAll(t, "logout_others")
           \/ CommitReset(t) \/ CommitChange(t) \/ CommitRequestEmail(t) \/ CommitConfirmEmail(t)
           \/ CommitStatus(t) \/ CommitUnlock(t) \/ CommitDelete(t) \/ CommitSuspend(t)
           \/ CommitRegenerate(t) \/ CommitChallenge(t) \/ CommitIssue(t)
  <2>1. method' = method
    BY <1>1 DEF CommitVerify, CommitWrongPassword, CommitLogin, CommitToken, CommitRefresh, CommitReuse,
       CommitLogout, CommitLogoutAll, CommitReset, CommitChange, CommitRequestEmail, CommitConfirmEmail,
       CommitStatus, CommitUnlock, CommitDelete, CommitSuspend, CommitRegenerate, CommitChallenge,
       CommitIssue, Refuse, rows
  <2>2. task[t].op # "confirm" /\ ~Disabling(t)
    BY <1>1 DEF CommitVerify, CommitWrongPassword, CommitLogin, CommitToken, CommitRefresh, CommitReuse,
       CommitLogout, CommitLogoutAll, CommitReset, CommitChange, CommitRequestEmail, CommitConfirmEmail,
       CommitStatus, CommitUnlock, CommitDelete, CommitSuspend, CommitRegenerate, CommitChallenge,
       CommitIssue, Committing, Disabling
  <2> QED BY <2>1, <2>2 DEF MethodEffect
<1>2. CASE CommitSetup(t)
  BY <1>2 DEF CommitSetup, Committing, Refuse, rows, MethodEffect, Disabling
<1>3. CASE CommitConfirm(t)
  BY <1>3 DEF CommitConfirm, Committing, MethodEffect
<1>4. CASE CommitDisable(t)
  BY <1>4 DEF CommitDisable, Committing, Refuse, rows, MethodEffect, Disabling
<1> QED BY <1>1, <1>2, <1>3, <1>4 DEF Commit

LEMMA FactorBegin ==
  ASSUME Typed, FactorSound, NEW t \in Threads, Begin(t)
  PROVE  FactorSound'
<1>1. PICK op, arg : op \in Ops \ {"idle", "issue"} /\ Load(t, op, arg) /\ Fits(op, arg)
  BY BeginFacts
<1>2. Loaded(t, op, arg)
  BY <1>1, LoadFacts
<1>3. user' = user /\ method' = method /\ codes' = codes
  BY <1>2 DEF Loaded
<1>4. FactorAgrees'
  BY <1>3 DEF FactorSound, FactorAgrees, Left, Ids, Usable
<1>5. ASSUME NEW r \in Threads \ {t}
      PROVE  FactorHandler(r)'
  <2>1. task'[r] = task[r] /\ seen'[r] = seen[r] /\ FactorHandler(r)
    BY <1>2 DEF Loaded, FactorSound
  <2> QED BY <1>3, <2>1 DEF FactorHandler, Disabling, Ids
<1>6. FactorHandler(t)'
  <2>1. /\ task'[t].op = op /\ task'[t].arg = arg
        /\ seen'[t].user = user /\ seen'[t].method = method /\ seen'[t].codes = Len(codes)
    BY <1>2 DEF Loaded
  <2>2. \A c \in Ids(codes) : c <= Len(codes)
    BY RowTypes DEF Typed
  <2>3. op = "disable" /\ arg = 0 => user.mfa_enabled = TRUE
    BY <1>1 DEF Fits, FactorSound, FactorAgrees
  <2> QED BY <1>1, <1>3, <2>1, <2>2, <2>3 DEF FactorHandler, Disabling, Fits, Ids, Replacing
<1> QED BY <1>4, <1>5, <1>6 DEF FactorSound

\* A commit leaves the factor in agreement.
LEMMA FactorStays ==
  ASSUME Typed, FactorSound, NEW t \in Threads, Commit(t)
  PROVE  FactorAgrees'
<1>0. /\ FactorColumn(t) /\ MethodEffect(t) /\ CodeEffect(t) /\ FactorHandler(t) /\ FactorAgrees
      /\ Prepared(t) /\ method \in MFAMethod /\ user.mfa_enabled \in BOOLEAN
      /\ task[t].op # "idle" => seen[t].user.mfa_enabled \in BOOLEAN
  BY UserEffects, MethodEffects, CodeEffects DEF UserEffect, FactorSound, Typed, TypeOK, User, Prepared
<1>1. CASE task[t].op = "confirm"
  <2>1. user'.mfa_enabled = TRUE
    BY <1>0, <1>1 DEF FactorColumn, FactorHandler
  <2>2. method' = [method EXCEPT !.confirmed_at = TRUE,
                                 !.disabled_at = method.disabled_at /\ ~seen[t].method.disabled_at]
    BY <1>0, <1>1 DEF MethodEffect, Disabling
  <2>3. seen[t].method = method /\ method.exists = TRUE
    BY <1>0, <1>1 DEF FactorHandler
  <2>4. method'.exists = TRUE /\ method'.disabled_at = FALSE
    BY <1>0, <2>2, <2>3 DEF MFAMethod
  <2>5. Left' = {Len(codes) + 1}
    BY <1>0, <1>1 DEF CodeEffect, Spent, Renewed, Disabling, FactorHandler, Replacing, Left, Ids
  <2> QED BY <2>1, <2>4, <2>5 DEF FactorAgrees
<1>2. CASE Disabling(t)
  <2>1. user'.mfa_enabled = FALSE
    BY <1>0, <1>2 DEF FactorColumn, FactorHandler
  <2>2. method' = [method EXCEPT !.disabled_at = TRUE]
    BY <1>0, <1>2 DEF MethodEffect, Disabling
  <2>3. method'.disabled_at = TRUE
    BY <1>0, <2>2 DEF MFAMethod
  <2>4. Left' = {}
    BY <1>0, <1>2 DEF CodeEffect, Spent, Renewed, Disabling, FactorHandler, Replacing, Left, Ids
  <2> QED BY <2>1, <2>3, <2>4 DEF FactorAgrees, Usable
<1>3. CASE task[t].op # "confirm" /\ ~Disabling(t)
  <2>1. user'.mfa_enabled = user.mfa_enabled
    BY <1>0, <1>3 DEF FactorColumn
  <2>2. /\ Left # {} <=> Left' # {}
        /\ \A c, d \in Left' : c = d
    <3>1. CASE UNCHANGED codes
      BY <1>0, <3>1 DEF Left, Ids, FactorAgrees
    <3>2. CASE Spent(t)
      <4>1. Left' = Left
        BY <3>2 DEF Spent, Left, Ids
      <4> QED BY <1>0, <4>1 DEF FactorAgrees
    <3>3. CASE Renewed(t)
      <4>1. task[t].op = "regenerate"
        BY <1>3, <3>3 DEF Renewed, Replacing
      <4>2. Left' = {Len(codes) + 1}
        BY <1>0, <1>3, <3>3, <4>1 DEF Renewed, FactorHandler, Replacing, Left, Ids
      <4>3. Left # {}
        BY <1>0, <4>1 DEF FactorHandler, FactorAgrees
      <4> QED BY <4>2, <4>3
    <3> QED BY <1>0, <3>1, <3>2, <3>3 DEF CodeEffect
  <2>3. /\ Usable' => user.mfa_enabled = TRUE
        /\ user.mfa_enabled = TRUE => method'.exists = TRUE /\ method'.disabled_at = FALSE
    <3>1. CASE method' = method
      BY <1>0, <3>1 DEF FactorAgrees, Usable
    <3>2. CASE task[t].op = "setup" /\ method' # method
      <4>1. method' = [exists |-> TRUE,
                       confirmed_at |-> method.confirmed_at /\ ~seen[t].method.confirmed_at,
                       disabled_at |-> method.disabled_at /\ ~seen[t].method.disabled_at]
        BY <1>0, <1>3, <3>2 DEF MethodEffect
      <4>2. method.confirmed_at = TRUE => seen[t].method.confirmed_at = TRUE
        BY <1>0, <3>2 DEF FactorHandler
      <4>3. method.confirmed_at \in BOOLEAN /\ method.disabled_at \in BOOLEAN
        BY <1>0 DEF MFAMethod
      <4>4. ~method'.confirmed_at
        BY <4>1, <4>2, <4>3
      <4>5. method'.exists = TRUE /\ (method.disabled_at = FALSE => method'.disabled_at = FALSE)
        BY <4>1, <4>3
      <4> QED BY <1>0, <4>4, <4>5 DEF FactorAgrees, Usable
    <3> QED BY <1>0, <1>3, <3>1, <3>2 DEF MethodEffect
  <2>4. user.mfa_enabled = TRUE <=> Left # {}
    BY <1>0 DEF FactorAgrees
  <2> QED BY <2>1, <2>2, <2>3, <2>4 DEF FactorAgrees
<1> QED BY <1>1, <1>2, <1>3

\* Of the handlers that do not conflict with it, none disturbs what it has read.
LEMMA FactorHandlerKept ==
  ASSUME Typed, FactorSound, Apart, NEW t \in Threads, Commit(t), NEW r \in Threads \ {t}
  PROVE  FactorHandler(r)'
<1>0. /\ FactorColumn(t) /\ MethodEffect(t) /\ CodeEffect(t) /\ FactorHandler(r) /\ Over(t)
      /\ method \in MFAMethod
  BY UserEffects, MethodEffects, CodeEffects, Ended DEF UserEffect, FactorSound, Typed, TypeOK
<1>1. task'[r] = task[r] /\ seen'[r] = seen[r]
  BY <1>0 DEF Over
<1>2. /\ Replacing \cap {task[t].op, task[r].op} # {}
           => ~({task[t].op, task[r].op} \subseteq Replacing \cup {"disable"})
      /\ {task[t].op, task[r].op} # {"setup", "confirm"}
  BY DEF Apart, Conflict
<1>3. CASE task[r].op = "setup"
  <2>1. task[t].op # "confirm"
    BY <1>2, <1>3
  <2>2. method'.confirmed_at = TRUE => method.confirmed_at = TRUE
    BY <1>0, <2>1 DEF MethodEffect, MFAMethod
  <2> QED BY <1>0, <1>1, <1>3, <2>2 DEF FactorHandler, Disabling, Replacing
<1>4. CASE task[r].op = "confirm"
  <2>1. task[t].op \notin {"confirm", "disable", "regenerate", "setup"} /\ ~Disabling(t)
    BY <1>2, <1>4 DEF Replacing, Disabling
  <2>2. method' = method /\ user'.mfa_enabled = user.mfa_enabled
    BY <1>0, <2>1 DEF MethodEffect, FactorColumn
  <2>3. Ids(codes)' = Ids(codes)
    BY <1>0, <2>1 DEF CodeEffect, Spent, Renewed, Replacing, Ids
  <2> QED BY <1>0, <1>1, <1>4, <2>2, <2>3 DEF FactorHandler, Disabling, Replacing
<1>5. CASE task[r].op = "disable"
  <2>1. task[t].op \notin Replacing
    BY <1>2, <1>5
  <2>2. Ids(codes)' = Ids(codes)
    BY <1>0, <2>1 DEF CodeEffect, Spent, Renewed, Ids
  <2> QED BY <1>0, <1>1, <1>5, <2>2 DEF FactorHandler, Disabling, Replacing
<1>6. CASE task[r].op = "regenerate"
  <2>1. task[t].op \notin {"confirm", "disable", "regenerate"} /\ ~Disabling(t)
    BY <1>2, <1>6 DEF Replacing, Disabling
  <2>2. user'.mfa_enabled = user.mfa_enabled
    BY <1>0, <2>1 DEF FactorColumn
  <2>3. Ids(codes)' = Ids(codes)
    BY <1>0, <2>1 DEF CodeEffect, Spent, Renewed, Replacing, Ids
  <2> QED BY <1>0, <1>1, <1>6, <2>2, <2>3 DEF FactorHandler, Disabling, Replacing
<1>7. CASE task[r].op \notin {"setup", "confirm", "disable", "regenerate"}
  BY <1>1, <1>7 DEF FactorHandler, Disabling, Replacing
<1> QED BY <1>3, <1>4, <1>5, <1>6, <1>7

LEMMA FactorCommit ==
  ASSUME Typed, FactorSound, Apart, NEW t \in Threads, Commit(t)
  PROVE  FactorSound'
<1>1. FactorHandler(t)'
  <2>1. task'[t].op \notin {"setup", "confirm", "disable", "regenerate"}
    BY Ended DEF Over, Idle
  <2> QED BY <2>1 DEF FactorHandler, Disabling, Replacing
<1> QED BY <1>1, FactorStays, FactorHandlerKept DEF FactorSound

LEMMA FactorElse ==
  ASSUME Typed, FactorSound, LockExpires \/ TicketExpires \/ UNCHANGED vars
  PROVE  FactorSound'
<1>1. UNCHANGED <<method, codes, task, seen>>
  BY DEF LockExpires, TicketExpires, vars, rows
<1>2. user'.mfa_enabled = user.mfa_enabled
  BY DEF LockExpires, TicketExpires, vars, rows, Typed, TypeOK, User
<1> QED BY <1>1, <1>2 DEF FactorSound, FactorAgrees, FactorHandler, Disabling, Left, Usable, Ids

-----------------------------------------------------------------------------
(* What an account promises, until two handlers that conflict overlap.     *)

Inv == Typed /\ (~collided => Apart /\ Locks /\ TokensOnce /\ CodesOnce /\ SessionsSound /\ FactorSound)

LEMMA InvInit == Init => Inv
<1> SUFFICES ASSUME Init PROVE Inv
  OBVIOUS
<1>1. Typed
  BY TypedInit
<1>2. /\ \A t \in Threads : task[t] = Idle /\ task[t].op = "idle"
      /\ misses = 0 /\ MaxFailures \in Nat \ {0} /\ Ids(sessions) = {} /\ Ids(codes) = {}
      /\ \A i \in Ids(tokens) : i = 1 /\ tokens[i].uses = 0
  BY MaxFailuresIsPositive DEF Init, Idle, Ids
<1>3. user.failed_login_count = 0
  BY DEF Init
<1>4. Apart
  BY <1>2 DEF Apart, Conflict, Crosses, Ends, Counting, Replacing
<1>5. Locks
  BY <1>2, <1>3 DEF Locks
<1>6. TokensOnce
  BY <1>2 DEF TokensOnce, TokenHandler, Consumers
<1>7. CodesOnce
  BY <1>2 DEF CodesOnce
<1>8. SessionsSound
  BY <1>2 DEF SessionsSound, SessionHandler
<1>9. FactorSound
  <2>1. method = NoMethod /\ user.mfa_enabled = FALSE
    BY DEF Init
  <2>2. FactorAgrees
    BY <1>2, <2>1 DEF FactorAgrees, Usable, NoMethod, Left
  <2>3. \A t \in Threads : FactorHandler(t)
    BY <1>2 DEF FactorHandler, Disabling, Replacing
  <2> QED BY <2>2, <2>3 DEF FactorSound
<1> QED BY <1>1, <1>4, <1>5, <1>6, <1>7, <1>8, <1>9 DEF Inv

LEMMA InvStep ==
  ASSUME Inv, [Next]_vars
  PROVE  Inv' /\ (~collided' => ~collided)
<1>1. ASSUME NEW t \in Threads, Begin(t)
      PROVE  Inv' /\ (~collided' => ~collided)
  <2>1. ~collided' => ~collided
    <3>1. PICK op, arg : op \in Ops \ {"idle", "issue"} /\ Load(t, op, arg)
      BY <1>1, BeginFacts
    <3>2. Loaded(t, op, arg)
      BY <3>1, LoadFacts DEF Inv
    <3> QED BY <3>2 DEF Loaded
  <2> QED BY <1>1, <2>1, TypedBegin, ApartBegin, LocksBegin, TokensBegin, CodesBegin, SessionsBegin,
       FactorBegin DEF Inv
<1>2. ASSUME NEW t \in Threads, Commit(t)
      PROVE  Inv' /\ (~collided' => ~collided)
  <2>1. collided' = collided
    BY <1>2, Ended DEF Inv, Over
  <2> QED BY <1>2, <2>1, TypedCommit, ApartCommit, LocksCommit, TokensCommit, CodesCommit, SessionsCommit,
       FactorCommit DEF Inv
<1>3. ASSUME LockExpires \/ TicketExpires \/ UNCHANGED vars
      PROVE  Inv' /\ (~collided' => ~collided)
  <2>1. UNCHANGED <<collided, tokens, codes, task, seen>>
    BY <1>3 DEF LockExpires, TicketExpires, vars, rows
  <2>2. TokensOnce /\ CodesOnce => TokensOnce' /\ CodesOnce'
    BY <2>1 DEF TokensOnce, TokenHandler, CodesOnce, Ids
  <2> QED BY <1>3, <2>1, <2>2, TypedElse, ApartElse, LocksElse, SessionsElse, FactorElse DEF Inv
<1> QED BY <1>1, <1>2, <1>3 DEF Next

LEMMA AlwaysInv == Spec => []Inv
  BY InvInit, InvStep, PTL DEF Spec

\* Of the sessions that rotation derived from one login at most one can be
\* refreshed (rotate_refresh_token).
THEOREM OneLive == Spec => []OneLivePerFamily
<1>1. Inv => OneLivePerFamily
  BY DEF Inv, SessionsSound, OneLivePerFamily
<1> QED BY <1>1, AlwaysInv, PTL

\* Until two handlers that conflict overlap: once what is current in a login was
\* logged out or revoked, or its reuse was detected, or the password was reset, or
\* the account locked, disabled or deleted, nothing of that login is refreshed.
THEOREM FamilyEnds == Spec => []EndedFamilyStaysEnded
<1>1. Inv => EndedFamilyStaysEnded
  BY DEF Inv, SessionsSound, EndedFamilyStaysEnded
<1> QED BY <1>1, AlwaysInv, PTL

\* A change or reset of the password ends the sessions opened with the old one.
THEOREM PasswordEnds == Spec => []PasswordEndsSessions
<1>1. Inv => PasswordEndsSessions
  BY DEF Inv, SessionsSound, PasswordEndsSessions
<1> QED BY <1>1, AlwaysInv, PTL

\* Until two handlers that conflict overlap, there is no session as long as the
\* status says that the account is disabled or deleted.
THEOREM BlockedOut == Spec => []BlockedHasNoSession
<1>1. Inv => BlockedHasNoSession
  BY DEF Inv, SessionsSound, BlockedHasNoSession, Blocked
<1> QED BY <1>1, AlwaysInv, PTL

\* Tokens and backup codes are used once (consume_one_time_token, verify_mfa_code).
THEOREM Once == Spec => []UsedOnce
<1>1. Inv => UsedOnce
  <2> SUFFICES ASSUME Inv, ~collided
               PROVE  /\ \A i \in Ids(tokens) : tokens[i].uses <= 1
                      /\ \A c \in Ids(codes) : codes[c].uses <= 1
                      /\ \A i, j \in Ids(tokens) :
                           /\ tokens[i].purpose = tokens[j].purpose /\ tokens[i].purpose # "email_change"
                           /\ i # j
                           => tokens[i].used \/ tokens[j].used
    BY DEF UsedOnce
  <2>1. TokensOnce /\ CodesOnce
    BY DEF Inv
  <2> QED BY <2>1 DEF TokensOnce, CodesOnce
<1> QED BY <1>1, AlwaysInv, PTL

\* Until two handlers that conflict overlap, an authenticator that is accepted is
\* asked for at each login, one that is asked for was not disabled, and there is one
\* batch of backup codes exactly as long as it is asked for (app/routes/mfa.py).
THEOREM SecondFactor == Spec => []SecondFactorAgrees
<1>1. Inv => SecondFactorAgrees
  <2> SUFFICES ASSUME Inv, ~collided PROVE SecondFactorAgrees
    BY DEF SecondFactorAgrees
  <2>1. FactorAgrees /\ user.mfa_enabled \in BOOLEAN
    BY DEF Inv, FactorSound, Typed, TypeOK, User
  <2> QED BY <2>1 DEF FactorAgrees, SecondFactorAgrees, Left
<1> QED BY <1>1, AlwaysInv, PTL

\* MaxFailures wrong passwords in a row lock the account (validate_login_user).
THEOREM Locked == Spec => []FailuresLock
<1>1. Inv => FailuresLock
  BY DEF Inv, Locks, FailuresLock
<1> QED BY <1>1, AlwaysInv, PTL
=============================================================================

------------------------------- MODULE Accounts -------------------------------
(***************************************************************************)
(* The administrators' accounts (src/api/routes/auth.py, on top of         *)
(* src/api/auth.py, dependencies.py, totp_utils.py, registration_utils.py  *)
(* and the bootstrap of run_api.py): an invitation buys an account, which  *)
(* is enrolled in TOTP and receives backup codes, logs in in two steps,    *)
(* and may recover from a lost password until that has been done.          *)
(*                                                                         *)
(* The endpoints are plain functions, run by a pool of threads, each with  *)
(* a database session of its own at READ COMMITTED.  A request reads what  *)
(* it needs, then takes its time (bcrypt, the lookup of a leaked           *)
(* password), then writes in one transaction the columns it has changed    *)
(* and no others.  So a request is two or three steps here, and requests   *)
(* overlap as they like.  SELECT ... FOR UPDATE in totp/verify orders the  *)
(* commits of two verifications; the object it returns is the one this     *)
(* session has loaded already, with the values of that first reading.      *)
(*                                                                         *)
(* Any request may fail or be lost with the process (nothing of it is      *)
(* committed then), and any answer may be lost after the commit.  What a   *)
(* request is refused for changes nothing, and only shows as a step that   *)
(* is not enabled or as Fail.  A token that expires is one that nobody     *)
(* presents any more.  Users without a TOTP secret are older than this     *)
(* code, and left out; so is the WebSocket, which asks a token for its     *)
(* scope and life only and changes nothing here: Broadcast has its         *)
(* clients.                                                                *)
(***************************************************************************)
EXTENDS Naturals, FiniteSets, Functions

CONSTANTS
  Names,                \* usernames
  Invitations,          \* invitation tokens, in use one after another
  Threads,              \* of the API's pool
  Nothing,              \* stands for no user and for no item
  CodesPerSet,          \* backup codes made at a time (10 in the code)
  MaxAttempts,          \* wrong recovery codes before the lock (5 in the code)
  TicksPerSecond,       \* readings of the clock a token's iat does not tell apart
  TicksPerStep,         \* of one TOTP code (30 seconds)
  Operations,           \* the kinds of request the clients of this instance make
  MaxTime,              \* bound: ticks
  MaxSets,              \* bound: sets of backup codes, of all accounts together
  MaxPasswords,         \* bound: passwords of one account
  MaxTokens             \* bound: tokens the clients keep at a time

AllOperations == {"register", "login", "enrol", "totp", "backup", "recovery",
                  "reset", "regenerate"}

ASSUME AccountsAssumption ==
  /\ Operations \subseteq AllOperations
  /\ Nothing \notin Names \cup Invitations
  /\ {CodesPerSet, MaxAttempts, TicksPerSecond, TicksPerStep, MaxPasswords}
       \subseteq Nat \ {0}
  /\ {MaxTime, MaxSets, MaxTokens} \subseteq Nat

VARIABLES
  clock,
  rows,                 \* the user table, by username
  invitations,          \* "none", "free", "expired" or "used"
  sets,                 \* sets of backup codes an account has been given
  unused,               \* the backup codes stored with used = False
  requests,             \* what each thread is at
  tokens,               \* the JWTs the clients hold
  informed,             \* accounts whose registration was answered: somebody
                        \* has their TOTP secret and their recovery code
  past                  \* history; see NoPast

vars == <<clock, rows, invitations, sets, unused, requests, tokens, informed, past>>

Time == 0 .. MaxTime
Never == MaxTime + 1
Second(t) == t \div TicksPerSecond
Step(t) == t \div TicksPerStep

(* Passwords are numbered in the order in which they come into force. *)
Row == [password : 1 .. MaxPasswords, changedAt : Time \cup {Never},
        enrolled : BOOLEAN, lastUsed : Time \cup {Never},
        recoveryUsed : BOOLEAN, attempts : 0 .. MaxAttempts]

NewRow == [password |-> 1, changedAt |-> Never, enrolled |-> FALSE,
           lastUsed |-> Never, recoveryUsed |-> FALSE, attempts |-> 0]

Codes == Names \X (1 .. MaxSets) \X (1 .. CodesPerSet)
CodesOf(n) == {c \in Codes : c[1] = n}
SetOf(n, k) == {c \in Codes : c[1] = n /\ c[2] = k}

Items == Invitations \cup Codes

(* Names, invitations, codes, the TOTP steps of an account and no user are *)
(* told apart.                                                             *)
ASSUME KindsAssumption ==
  /\ Names \cap (Items \cup (Names \X Nat)) = {}
  /\ Invitations \cap (Codes \cup (Names \X Nat)) = {}
  /\ Nothing \notin Codes \cup (Names \X Nat) \cup Row

(* proof: history, the password in force when the login behind this token  *)
(* was checked; late: history, a reset of the password was under way or    *)
(* came in while the token was being issued.                               *)
Token == [name : Names, scope : {"pending_totp", "full_access", "password_reset"},
          at : Time, proof : 1 .. MaxPasswords, late : BOOLEAN]

(* item: the invitation or backup code it is about; read: the one value    *)
(* of its first reading that it uses later; at: its reading of the clock;  *)
(* marked: codes its uncommitted UPDATE has retired; proof: its token's;   *)
(* late: history, a commit has overtaken it.                               *)
Request == [op : AllOperations, step : {"read", "stamped", "loaded", "retired"},
            name : Names, item : Items \cup {Nothing},
            read : 0 .. MaxAttempts \cup Time \cup {Never}, at : Time,
            marked : SUBSET Codes, proof : 1 .. MaxPasswords, late : BOOLEAN]

Idle == [op |-> "none"]

(* spent: invitations, backup codes and <<account, TOTP step>> pairs that  *)
(* were accepted; respent: accepted again; contested: accepted while       *)
(* another request was at the same, and accounts whose last set of codes   *)
(* was committed by a request that another set had overtaken; buyers: the  *)
(* invitation of each account; failures: wrong recovery codes answered, up *)
(* to MaxAttempts; miscounted: accounts where two of those overlapped.     *)
NoPast == [spent |-> {}, respent |-> {}, contested |-> {},
           buyers |-> [n \in Names |-> Nothing],
           failures |-> [n \in Names |-> 0], miscounted |-> {}]

TypeOK ==
  /\ clock \in Time
  /\ rows \in [Names -> Row \cup {Nothing}]
  /\ invitations \in [Invitations -> {"none", "free", "expired", "used"}]
  /\ sets \in [Names -> 0 .. MaxSets]
  /\ unused \subseteq {c \in Codes : c[2] <= sets[c[1]]}
  /\ requests \in [Threads -> Request \cup {Idle}]
  /\ tokens \subseteq Token /\ Cardinality(tokens) <= MaxTokens
  /\ informed \subseteq {n \in Names : rows[n] # Nothing}
  /\ past.respent \subseteq past.spent

Init ==
  /\ clock = 0
  /\ rows = [n \in Names |-> Nothing]
  /\ \E i \in Invitations :
       invitations = [j \in Invitations |-> IF j = i THEN "free" ELSE "none"]
  /\ sets = [n \in Names |-> 0]
  /\ unused = {}
  /\ requests = [h \in Threads |-> Idle]
  /\ tokens = {}
  /\ informed = {}
  /\ past = NoPast
-----------------------------------------------------------------------------
(* A request begins, goes on, ends.                                        *)

Free(h) == requests[h] = Idle

(* Thread h takes up a request of kind op. *)
Begins(h, op) == Free(h) /\ op \in Operations

At(h, op, step) ==
  requests[h] # Idle /\ requests[h].op = op /\ requests[h].step = step

NewRequest(op, n, read, proof) ==
  [op |-> op, step |-> "read", name |-> n, item |-> Nothing, read |-> read,
   at |-> 0, marked |-> {}, proof |-> proof, late |-> FALSE]

(* Nothing but the request itself has moved. *)
OnlyTheRequest ==
  UNCHANGED <<clock, rows, invitations, sets, unused, tokens, informed, past>>

(* The requests of other threads at the same item; at one of ops for n.    *)
Rivals(h) == {g \in Threads \ {h} : /\ requests[g] # Idle
                                    /\ requests[g].item = requests[h].item}

Others(h, ops, n) ==
  {g \in Threads \ {h} : /\ requests[g] # Idle
                         /\ requests[g].op \in ops /\ requests[g].name = n}

(* Request h is over; those of the threads in overtaken have missed its commit. *)
End(h, overtaken) ==
  requests' = [g \in Threads |->
                 IF g = h THEN Idle
                 ELSE IF g \in overtaken THEN [requests[g] EXCEPT !.late = TRUE]
                 ELSE requests[g]]

(* create_token, and the answer that carries the token: it arrives or not. *)
Answer(h, scope, proof, late) ==
  LET n == requests[h].name
      token == [name |-> n, scope |-> scope, at |-> clock, proof |-> proof,
                late |-> late \/ \E g \in Others(h, {"reset"}, n) :
                                   requests[g].step = "stamped"]
  IN  tokens' \in {ts \in {tokens, tokens \cup {token}} : Cardinality(ts) <= MaxTokens}

(* x is accepted, while the requests of rivals are at it too. *)
Accept(x, rivals) ==
  [past EXCEPT !.spent = @ \cup {x},
               !.respent = @ \cup ({x} \cap past.spent),
               !.contested = IF rivals = {} THEN @ ELSE @ \cup {x}]
-----------------------------------------------------------------------------
(* Registration.                                                           *)

(* The invitation is free, the username too, the password long enough. *)
ReadInvitation(h, i, n) ==
  /\ Begins(h, "register") /\ invitations[i] = "free" /\ rows[n] = Nothing
  /\ requests' = [requests EXCEPT ![h] =
                    [NewRequest("register", n, 0, 1) EXCEPT !.item = i]]
  /\ OnlyTheRequest

(* The answer, with all that anybody will ever know of the secret and of   *)
(* the recovery code, arrives or not.                                      *)
AnswerRegistration(h) ==
  \/ Answer(h, "pending_totp", 1, FALSE) /\ informed' = informed \cup {requests[h].name}
  \/ UNCHANGED <<tokens, informed>>

(* Mutant: the invitation is marked before the unique index on username    *)
(* has had its say.                                                        *)
MarkInvitationFirst(h) ==
  /\ At(h, "register", "read")
  /\ invitations' = [invitations EXCEPT ![requests[h].item] = "used"]
  /\ IF rows[requests[h].name] = Nothing
       THEN /\ rows' = [rows EXCEPT ![requests[h].name] = NewRow]
            /\ past' = [past EXCEPT !.buyers[requests[h].name] = requests[h].item]
            /\ AnswerRegistration(h)
       ELSE UNCHANGED <<rows, past, tokens, informed>>
  /\ End(h, {})
  /\ UNCHANGED <<clock, sets, unused>>

(* The new user and the used invitation are one commit; the unique index   *)
(* on username has the last word about the name, nobody has one about the  *)
(* invitation.                                                             *)
CommitRegistration(h) ==
  /\ At(h, "register", "read")
  /\ LET n == requests[h].name
         i == requests[h].item
     IN  /\ rows[n] = Nothing
         /\ rows' = [rows EXCEPT ![n] = NewRow]
         /\ invitations' = [invitations EXCEPT ![i] = "used"]
         /\ past' = [Accept(i, Rivals(h)) EXCEPT !.buyers[n] = i]
  /\ AnswerRegistration(h)
  /\ End(h, {})
  /\ UNCHANGED <<clock, sets, unused>>
-----------------------------------------------------------------------------
(* Login, and the requests that show a token.                              *)

(* Credentials as they stand; checking them takes bcrypt a while. *)
CheckPassword(h, n) ==
  /\ Begins(h, "login") /\ rows[n] # Nothing
  /\ requests' = [requests EXCEPT ![h] =
                    NewRequest("login", n, 0, rows[n].password)]
  /\ OnlyTheRequest

(* TOTP, or its enrolment, is still to come. *)
Login(h) ==
  /\ At(h, "login", "read")
  /\ Answer(h, "pending_totp", requests[h].proof, requests[h].late)
  /\ End(h, {})
  /\ UNCHANGED <<clock, rows, invitations, sets, unused, informed, past>>

(* Mutant: the token is not held against the password's last change. *)
IsAnyones(t) == rows[t.name] # Nothing

(* What get_current_user asks of a token, whatever its scope; the          *)
(* WebSocket and reset-password do not.  iat is the beginning of its       *)
(* second, password_changed_at an instant within one: at the beginning     *)
(* itself once in a million, and left out.                                 *)
IsCurrent(t) ==
  \/ rows[t.name].changedAt = Never
  \/ Second(t.at) > Second(rows[t.name].changedAt)

(* get_current_user: the user is read, the token held against it.  With    *)
(* read, what the endpoint will use of that row.                           *)
Resolve(h, t, op, read, late) ==
  /\ Begins(h, op) /\ IsCurrent(t)
  /\ requests' = [requests EXCEPT ![h] =
       [NewRequest(op, t.name, read, t.proof) EXCEPT !.late = late]]
  /\ OnlyTheRequest

BeginEnrolment(h, t) ==
  /\ ~rows[t.name].enrolled
  /\ Resolve(h, t, "enrol", 0, FALSE)

BeginTotp(h, t) ==
  /\ rows[t.name].enrolled
  /\ Resolve(h, t, "totp", rows[t.name].lastUsed, t.late)

BeginBackup(h, t) == Resolve(h, t, "backup", 0, t.late)

(* A session that has passed the second step, and the present password. *)
BeginRegeneration(h, t) ==
  /\ t.scope = "full_access"
  /\ Resolve(h, t, "regenerate", 0, FALSE)
-----------------------------------------------------------------------------
(* TOTP and the backup codes.                                              *)

(* The first code is right; the hashing of ten backup codes begins. *)
StampEnrolment(h) ==
  /\ At(h, "enrol", "read") /\ requests[h].name \in informed
  /\ requests' = [requests EXCEPT ![h].step = "stamped", ![h].at = clock]
  /\ OnlyTheRequest

(* A new set of codes is committed, unless the bound is reached; whoever   *)
(* else is making one has been overtaken.                                  *)
SetMakers(h) == Others(h, {"enrol", "regenerate"}, requests[h].name)

SetsLeft(n) == sets[n] < MaxSets /\ FoldFunction(+, 0, sets) < MaxSets

AddSet(h, left) ==
  LET n == requests[h].name
  IN  /\ SetsLeft(n)
      /\ sets' = [sets EXCEPT ![n] = @ + 1]
      /\ unused' = left \cup SetOf(n, sets[n] + 1)

Crowded(h, contested) ==
  IF requests[h].late THEN contested \cup {requests[h].name}
                      ELSE contested \ {requests[h].name}

CommitEnrolment(h) ==
  /\ At(h, "enrol", "stamped")
  /\ LET n == requests[h].name
         at == requests[h].at
     IN  /\ rows' = [rows EXCEPT ![n].enrolled = TRUE, ![n].lastUsed = at]
         /\ past' = [Accept(<<n, Step(at)>>, Others(h, {"enrol", "totp"}, n))
                       EXCEPT !.contested = Crowded(h, @)]
  /\ AddSet(h, unused)
  /\ End(h, SetMakers(h))
  /\ UNCHANGED <<clock, invitations, tokens, informed>>

(* Mutant: the last use is not asked. *)
IsRightCode(n, lastUsed) == n \in informed

(* verify_totp_code: only somebody with the secret has a right code, which *)
(* is that of the present time step, the one before or the one after; none *)
(* was accepted in the present step before lastUsed was read.  Which of    *)
(* the three it is makes no difference to the code, nor here.              *)
IsNewCode(n, lastUsed) ==
  n \in informed /\ (lastUsed # Never => Step(lastUsed) # Step(clock))

(* The row is locked, the code held against the values of the first        *)
(* reading.                                                                *)
VerifyTotp(h) ==
  /\ At(h, "totp", "read") /\ IsNewCode(requests[h].name, requests[h].read)
  /\ LET n == requests[h].name
     IN  /\ rows' = [rows EXCEPT ![n].lastUsed = clock]
         /\ past' = Accept(<<n, Step(clock)>>, Others(h, {"enrol", "totp"}, n))
  /\ Answer(h, "full_access", requests[h].proof, requests[h].late)
  /\ End(h, {})
  /\ UNCHANGED <<clock, invitations, sets, unused, informed>>

(* The unused codes are loaded, and one of them is the one presented. *)
LoadCodes(h, c) ==
  /\ At(h, "backup", "read")
  /\ c \in unused \cap CodesOf(requests[h].name)
  /\ requests' = [requests EXCEPT ![h].step = "loaded", ![h].item = c]
  /\ OnlyTheRequest

(* Mutant: the code is accepted, and not marked. *)
SpendCodeUnmarked(h) ==
  /\ At(h, "backup", "loaded")
  /\ past' = Accept(requests[h].item, Rivals(h))
  /\ Answer(h, "full_access", requests[h].proof, requests[h].late)
  /\ End(h, {})
  /\ UNCHANGED <<clock, rows, invitations, sets, unused, informed>>

(* It is marked as used, whatever has become of it since. *)
SpendCode(h) ==
  /\ At(h, "backup", "loaded")
  /\ unused' = unused \ {requests[h].item}
  /\ past' = Accept(requests[h].item, Rivals(h))
  /\ Answer(h, "full_access", requests[h].proof, requests[h].late)
  /\ End(h, {})
  /\ UNCHANGED <<clock, rows, invitations, sets, informed>>

(* The bulk UPDATE of regenerate-backup-codes sees the codes that are      *)
(* committed and unused now; nobody sees it before its commit.             *)
RetireCodes(h) ==
  /\ At(h, "regenerate", "read")
  /\ requests' = [requests EXCEPT ![h].step = "retired",
                                  ![h].marked = unused \cap CodesOf(requests[h].name)]
  /\ OnlyTheRequest

(* Mutant: the codes to retire are those of the account at the commit, the *)
(* new ones among them.                                                    *)
CommitCodesThenRetire(h) ==
  /\ At(h, "regenerate", "retired") /\ SetsLeft(requests[h].name)
  /\ sets' = [sets EXCEPT ![requests[h].name] = @ + 1]
  /\ unused' = unused \ CodesOf(requests[h].name)
  /\ past' = [past EXCEPT !.contested = Crowded(h, @)]
  /\ End(h, SetMakers(h))
  /\ UNCHANGED <<clock, rows, invitations, tokens, informed>>

CommitCodes(h) ==
  /\ At(h, "regenerate", "retired")
  /\ AddSet(h, unused \ requests[h].marked)
  /\ past' = [past EXCEPT !.contested = Crowded(h, @)]
  /\ End(h, SetMakers(h))
  /\ UNCHANGED <<clock, rows, invitations, tokens, informed>>
-----------------------------------------------------------------------------
(* Recovery and the new password.                                          *)

(* Mutant: nothing is said of a code that has been tried too often. *)
ReadRecoveryUnlocked(h, n) ==
  /\ Begins(h, "recovery") /\ rows[n] # Nothing /\ ~rows[n].recoveryUsed
  /\ requests' = [requests EXCEPT ![h] =
                    NewRequest("recovery", n, rows[n].attempts, rows[n].password)]
  /\ OnlyTheRequest

ReadRecovery(h, n) ==
  /\ Begins(h, "recovery") /\ rows[n] # Nothing
  /\ ~rows[n].recoveryUsed /\ rows[n].attempts < MaxAttempts
  /\ requests' = [requests EXCEPT ![h] =
                    NewRequest("recovery", n, rows[n].attempts, rows[n].password)]
  /\ OnlyTheRequest

(* Mutant: the whole row is saved, as it was read. *)
CountFailureWholeRow(h) ==
  /\ At(h, "recovery", "read")
  /\ LET n == requests[h].name
     IN  rows' = [rows EXCEPT ![n].attempts = requests[h].read + 1,
                              ![n].recoveryUsed = FALSE]
  /\ End(h, {})
  /\ UNCHANGED <<clock, invitations, sets, unused, tokens, informed, past>>

Failed(h) ==
  LET n == requests[h].name
  IN  [past EXCEPT !.failures[n] = IF @ < MaxAttempts THEN @ + 1 ELSE @,
                   !.miscounted = IF requests[h].late THEN @ \cup {n} ELSE @]

(* Mutant: a wrong code is answered without being counted. *)
CountNothing(h) ==
  /\ At(h, "recovery", "read")
  /\ past' = Failed(h)
  /\ End(h, Others(h, {"recovery"}, requests[h].name))
  /\ UNCHANGED <<clock, rows, invitations, sets, unused, tokens, informed>>

(* A wrong code: the number that was read, and one more. *)
CountFailure(h) ==
  /\ At(h, "recovery", "read")
  /\ rows' = [rows EXCEPT ![requests[h].name].attempts = requests[h].read + 1]
  /\ past' = Failed(h)
  /\ End(h, Others(h, {"recovery"}, requests[h].name))
  /\ UNCHANGED <<clock, invitations, sets, unused, tokens, informed>>

(* The right one, which only somebody informed has; nothing is stored. *)
IssueReset(h) ==
  /\ At(h, "recovery", "read") /\ requests[h].name \in informed
  /\ Answer(h, "password_reset", requests[h].proof, requests[h].late)
  /\ End(h, {})
  /\ UNCHANGED <<clock, rows, invitations, sets, unused, informed, past>>

(* The token's scope is all that is asked of it: one that has changed the  *)
(* password may change it again.                                           *)
ReadForReset(h, t) ==
  /\ Begins(h, "reset") /\ t.scope = "password_reset"
  /\ requests' = [requests EXCEPT ![h] =
                    NewRequest("reset", t.name, rows[t.name].attempts, t.proof)]
  /\ OnlyTheRequest

(* The new password is hashed, and the time of the change taken. *)
StampReset(h) ==
  /\ At(h, "reset", "read")
  /\ requests' = [requests EXCEPT ![h].step = "stamped", ![h].at = clock]
  /\ OnlyTheRequest

(* The commit.  A column set to the value it was read with is not written: *)
(* attempts stays what it is if it was read as zero.  The row is read      *)
(* again for the token's scope.                                            *)
CommitReset(h) ==
  /\ At(h, "reset", "stamped")
  /\ LET n == requests[h].name
     IN  /\ rows[n].password < MaxPasswords
         /\ rows' = [rows EXCEPT
                       ![n].password = @ + 1,
                       ![n].changedAt = requests[h].at,
                       ![n].recoveryUsed = TRUE,
                       ![n].attempts = IF requests[h].read = 0 THEN @ ELSE 0]
         /\ Answer(h, IF rows[n].enrolled THEN "full_access" ELSE "pending_totp",
                   rows[n].password + 1, FALSE)
         /\ End(h, Others(h, AllOperations, n))
  /\ UNCHANGED <<clock, invitations, sets, unused, informed, past>>
-----------------------------------------------------------------------------
(* What happens around the requests.                                       *)

(* The request is refused, or raises: its transaction is rolled back. *)
Fail(h) ==
  /\ ~Free(h)
  /\ End(h, {})
  /\ OnlyTheRequest

(* While there is no user, each start of the API makes an invitation. *)
Bootstrap ==
  IF \A n \in Names : rows[n] = Nothing
    THEN \E i \in Invitations :
           /\ invitations[i] = "none"
           /\ invitations' = [invitations EXCEPT ![i] = "free"]
    ELSE UNCHANGED invitations

(* The process dies with all its requests and is started again. *)
Restart ==
  /\ \E h \in Threads : ~Free(h)
  /\ requests' = [h \in Threads |-> Idle]
  /\ Bootstrap
  /\ UNCHANGED <<clock, rows, sets, unused, tokens, informed, past>>

(* An invitation's 24 hours are over. *)
Expire(i) ==
  /\ invitations[i] = "free"
  /\ invitations' = [invitations EXCEPT ![i] = "expired"]
  /\ UNCHANGED <<clock, rows, sets, unused, requests, tokens, informed, past>>

(* A token expires, or the client forgets it. *)
Discard(t) ==
  /\ tokens' = tokens \ {t}
  /\ UNCHANGED <<clock, rows, invitations, sets, unused, requests, informed, past>>

Tick ==
  /\ clock < MaxTime
  /\ clock' = clock + 1
  /\ UNCHANGED <<rows, invitations, sets, unused, requests, tokens, informed, past>>

Register(h) ==
  \/ \E i \in Invitations, n \in Names : ReadInvitation(h, i, n)
  \/ CommitRegistration(h)

Enter(h) ==
  \/ \E n \in Names : CheckPassword(h, n)
  \/ Login(h)
  \/ \E t \in tokens : BeginTotp(h, t)
  \/ VerifyTotp(h)

BackupCodes(h) ==
  \/ \E t \in tokens :
       BeginEnrolment(h, t) \/ BeginBackup(h, t) \/ BeginRegeneration(h, t)
  \/ StampEnrolment(h) \/ CommitEnrolment(h)
  \/ (\E c \in unused : LoadCodes(h, c)) \/ SpendCode(h)
  \/ RetireCodes(h) \/ CommitCodes(h)

Recovery(h) ==
  \/ \E n \in Names : ReadRecovery(h, n)
  \/ CountFailure(h) \/ IssueReset(h)
  \/ \E t \in tokens : ReadForReset(h, t)
  \/ StampReset(h) \/ CommitReset(h)

Next ==
  \/ \E h \in Threads :
       Register(h) \/ Enter(h) \/ BackupCodes(h) \/ Recovery(h) \/ Fail(h)
  \/ Restart
  \/ \E i \in Invitations : Expire(i)
  \/ \E t \in tokens : Discard(t)
  \/ Tick

Spec == Init /\ [][Next]_vars
-----------------------------------------------------------------------------
(* Properties.                                                             *)

(* Whatever is to be used once - an invitation, a backup code, a time step *)
(* for a TOTP code to be accepted in - is used once, unless two requests   *)
(* were at it at the same time; and an accepted invitation or backup code  *)
(* is marked as used, whichever requests overlapped and whatever was lost. *)
SingleUse ==
  /\ past.respent \subseteq past.contested
  /\ past.spent \cap unused = {}
  /\ \A i \in Invitations \cap past.spent : invitations[i] = "used"

(* An invitation is used up by an account, and no account is made without  *)
(* one: failures, crashes and overlapping registrations included.          *)
UsedInvitationsMadeAccounts ==
  /\ {i \in Invitations : invitations[i] = "used"}
       = {past.buyers[n] : n \in {m \in Names : rows[m] # Nothing}}
  /\ \A n \in Names : rows[n] = Nothing => past.buyers[n] = Nothing

(* The backup codes handed out last work until they are accepted, whatever *)
(* enrolment, regeneration or use they were committed next to; those of    *)
(* earlier sets do not, unless two sets were being made at the same time.  *)
CodesAreLive ==
  \A n \in Names :
    /\ sets[n] > 0 => SetOf(n, sets[n]) \subseteq unused \cup past.spent
    /\ \/ n \in past.contested
       \/ unused \cap CodesOf(n) \subseteq SetOf(n, sets[n])

(* get_current_user, on which every REST endpoint for a user depends but   *)
(* reset-password, admits a token only while the password behind it is in  *)
(* force, and refuses it in that time only within the second of the        *)
(* password's change, however many resets overlap or follow with one reset *)
(* token; a token issued while a reset was under way is beyond the former. *)
(* reset-password and the WebSocket promise no such thing: they admit      *)
(* tokens of their scope, after a change of the password as before it.     *)
CurrentTokensFollowThePassword ==
  \A t \in tokens :
    LET row == rows[t.name]
    IN  /\ IsCurrent(t) /\ ~t.late => t.proof = row.password
        /\ t.proof = row.password
             => IsCurrent(t) \/ Second(t.at) = Second(row.changedAt)

(* As long as a recovery code can be used, its count is that of the wrong  *)
(* ones, and less only where two of those overlapped.                      *)
AttemptsAreFailures ==
  \A n \in Names :
    rows[n] # Nothing /\ ~rows[n].recoveryUsed =>
      /\ rows[n].attempts <= past.failures[n]
      /\ n \notin past.miscounted => rows[n].attempts = past.failures[n]

(* No request, however late, takes back what another has committed: an     *)
(* account stays, stays enrolled, its recovery code stays used and the     *)
(* password that ended it stays; a used invitation stays used; a used      *)
(* backup code too.                                                        *)
AccountsOnlyAdvance == [][
  /\ \A n \in Names : rows[n] # Nothing =>
       /\ rows'[n] # Nothing
       /\ rows[n].enrolled => rows'[n].enrolled
       /\ rows[n].recoveryUsed => rows'[n].recoveryUsed
       /\ rows[n].password <= rows'[n].password
  /\ \A i \in Invitations : invitations[i] = "used" => invitations'[i] = "used"
  /\ \A c \in unused' \ unused : c[2] > sets[c[1]] ]_vars

(* dependencies.py:98, "Invalidar tokens emitidos antes de un cambio":     *)
(* what is invalidated was issued before the change; a token issued after  *)
(* it, the one that reset-password answers with for a start, is admitted.  *)
FreshTokensAreAdmitted ==
  \A t \in tokens :
    rows[t.name].changedAt # Never /\ t.at > rows[t.name].changedAt => IsCurrent(t)
=============================================================================

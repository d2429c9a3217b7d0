---------------------------- MODULE AccountsProofs ----------------------------
(***************************************************************************)
(* Proofs about Accounts, for any names, invitations, threads, sizes and   *)
(* bounds, and any number of overlapping requests.                         *)
(*                                                                         *)
(* A request acts on what it read steps ago, so every invariant says what  *)
(* such a reading is still good for: either nothing has overtaken it, or   *)
(* its late mark, or the contested mark of what it is about, says so.      *)
(***************************************************************************)
EXTENDS Accounts, FiniteSetTheorems, TLAPS

Busy(h) == requests[h] # Idle

Things == Items \cup (Names \X Nat)

Past == [spent : SUBSET Things, respent : SUBSET Things,
         contested : SUBSET (Things \cup Names),
         buyers : [Names -> Invitations \cup {Nothing}],
         failures : [Names -> 0 .. MaxAttempts], miscounted : SUBSET Names]

(* A request is about a user that exists, unless it is to make one, and    *)
(* some only begin for an enrolled one.                                    *)
RequestsFit ==
  \A h \in Threads : Busy(h) =>
    /\ requests[h].op = "register" => requests[h].item \in Invitations
    /\ requests[h].op # "register" => rows[requests[h].name] # Nothing
    /\ requests[h].op = "recovery" => requests[h].read < MaxAttempts
    /\ requests[h].op = "totp" => requests[h].read \in Time \cup {Never}
    /\ requests[h].step = "loaded" =>
         /\ requests[h].item \in CodesOf(requests[h].name)
         /\ requests[h].item[2] <= sets[requests[h].name]
    /\ requests[h].op \in {"totp", "regenerate"} \/ requests[h].step = "loaded"
         => rows[requests[h].name].enrolled

TokensFit ==
  /\ IsFiniteSet(tokens)
  /\ \A t \in tokens : /\ rows[t.name] # Nothing
                       /\ t.scope = "full_access" => rows[t.name].enrolled

SetsFit == \A n \in Names : sets[n] > 0 => rows[n] # Nothing /\ rows[n].enrolled

(* Nothing that was stamped lies in the future. *)
TimesFit ==
  /\ \A n \in Names : rows[n] # Nothing =>
       /\ rows[n].lastUsed # Never => rows[n].lastUsed <= clock
       /\ rows[n].changedAt # Never => rows[n].changedAt <= clock
  /\ \A t \in tokens : t.at <= clock
  /\ \A h \in Threads : Busy(h) =>
       /\ requests[h].at <= clock
       /\ requests[h].op = "totp" /\ requests[h].read # Never
            => requests[h].read <= clock

Types == TypeOK /\ past \in Past
Base == Types /\ RequestsFit /\ TokensFit /\ SetsFit /\ TimesFit

UsesFit ==
  /\ SingleUse
  /\ \A h \in Threads : Busy(h) /\ requests[h].item \in past.spent
                          => requests[h].item \in past.contested
  /\ \A c \in past.spent \cap Codes : c[2] <= sets[c[1]]
  /\ \A n \in Names, s \in Nat : <<n, s>> \in past.spent =>
       /\ rows[n] # Nothing /\ rows[n].enrolled
       /\ s <= Step(clock)
       /\ \/ <<n, s>> \in past.contested
          \/ /\ rows[n].lastUsed # Never /\ s <= Step(rows[n].lastUsed)
             /\ \A h \in Threads : Busy(h) /\ requests[h].name = n =>
                  /\ requests[h].op # "enrol"
                  /\ requests[h].op = "totp" =>
                       requests[h].read # Never /\ s <= Step(requests[h].read)

CodesFit ==
  /\ CodesAreLive
  /\ \A h \in Threads : Busy(h) =>
       /\ requests[h].op = "enrol" /\ ~requests[h].late
            => sets[requests[h].name] = 0
       /\ requests[h].op = "regenerate" /\ requests[h].step = "retired" =>
            /\ requests[h].marked \subseteq CodesOf(requests[h].name)
            /\ requests[h].late \/ unused \cap CodesOf(requests[h].name)
                                     \subseteq requests[h].marked

(* The requests that issue a token for the password they have seen. *)
EntryOps == {"login", "totp", "backup", "recovery"}

SessionsFit ==
  /\ \A t \in tokens :
       /\ IsCurrent(t) /\ ~t.late => t.proof = rows[t.name].password
       /\ t.proof <= rows[t.name].password
       /\ t.proof = rows[t.name].password /\ rows[t.name].changedAt # Never
            => rows[t.name].changedAt <= t.at
  /\ \A h \in Threads : Busy(h) =>
       /\ requests[h].op # "register"
            => requests[h].proof <= rows[requests[h].name].password
       /\ requests[h].op \in EntryOps /\ ~requests[h].late
            => requests[h].proof = rows[requests[h].name].password
       /\ requests[h].op = "reset" /\ requests[h].step = "stamped" =>
            \A t \in tokens : t.name = requests[h].name /\ ~t.late
                                => t.at <= requests[h].at

AttemptsFit ==
  /\ AttemptsAreFailures
  /\ \A n \in Names : rows[n] = Nothing => past.failures[n] = 0
  /\ \A h \in Threads : Busy(h) /\ requests[h].op = "recovery" =>
       /\ requests[h].read <= past.failures[requests[h].name]
       /\ ~requests[h].late
            => requests[h].read = rows[requests[h].name].attempts
-----------------------------------------------------------------------------
(* What the constants and the types give. *)

LEMMA Numbers ==
  /\ CodesPerSet \in Nat \ {0} /\ MaxAttempts \in Nat \ {0}
  /\ TicksPerSecond \in Nat \ {0} /\ TicksPerStep \in Nat \ {0}
  /\ MaxTime \in Nat /\ MaxSets \in Nat /\ MaxPasswords \in Nat \ {0}
  /\ MaxTokens \in Nat
  BY AccountsAssumption

(* Seconds and TOTP steps follow the clock. *)
LEMMA DivisionIsMonotone ==
  ASSUME NEW a \in Nat, NEW b \in Nat, NEW d \in Nat \ {0}, a <= b
  PROVE  /\ a \div d \in Nat /\ b \div d \in Nat
         /\ a \div d <= b \div d
  OBVIOUS

LEMMA RequestsAreBusy == Idle \notin Request
<1> SUFFICES ASSUME Idle \in Request PROVE FALSE
  OBVIOUS
<1>1. Idle.op \in AllOperations
  BY DEF Request
<1> QED
  BY <1>1 DEF Idle, AllOperations

LEMMA BusyIsTyped ==
  ASSUME Types, NEW h \in Threads, Busy(h)
  PROVE  requests[h] \in Request
  BY DEF Types, TypeOK, Busy

LEMMA RowIsTyped ==
  ASSUME Types, NEW n \in Names, rows[n] # Nothing
  PROVE  rows[n] \in Row
  BY DEF Types, TypeOK

(* Names, invitations, codes and TOTP steps do not meet. *)
LEMMA KindsDiffer ==
  /\ \A n \in Names, s \in Nat : <<n, s>> \in Things /\ <<n, s>> \notin Codes
  /\ \A i \in Invitations : i \in Things /\ i \notin Codes
  /\ \A i \in Invitations, n \in Names, s \in Nat : i # <<n, s>>
  /\ \A x \in Things : x \notin Names
  /\ Nothing \notin Things
<1>1. \A n \in Names, s \in Nat : <<n, s>> \notin Codes
  BY DEF Codes
<1> QED
  BY <1>1, KindsAssumption, AccountsAssumption DEF Things, Items
-----------------------------------------------------------------------------
(* A request as it begins ... *)
Shows(r, t) == t.name = r.name /\ t.proof = r.proof

Begun(r) ==
  /\ r \in Request /\ r.step = "read" /\ r.at = 0
  /\ r.op = "register" =>
       /\ r.item \in Invitations /\ invitations[r.item] = "free"
       /\ rows[r.name] = Nothing
  /\ r.op # "register" => r.item = Nothing /\ rows[r.name] # Nothing
  /\ r.op \in {"login", "recovery"} => r.proof = rows[r.name].password
  /\ r.op = "recovery" =>
       /\ r.read = rows[r.name].attempts /\ r.read < MaxAttempts
       /\ ~rows[r.name].recoveryUsed
  /\ r.op = "reset" => \E t \in tokens : Shows(r, t)
  /\ r.op \in {"totp", "backup"} =>
       \E t \in tokens : Shows(r, t) /\ IsCurrent(t) /\ (t.late => r.late)
  /\ r.op = "enrol" =>
       ~rows[r.name].enrolled /\ \E t \in tokens : Shows(r, t)
  /\ r.op = "totp" =>
       rows[r.name].enrolled /\ r.read = rows[r.name].lastUsed
  /\ r.op = "regenerate" =>
       \E t \in tokens : Shows(r, t) /\ t.scope = "full_access"

(* ... and as it goes on to its next step. *)
Continued(h, r) ==
  /\ Busy(h) /\ r \in Request
  /\ r.op = requests[h].op /\ r.name = requests[h].name
  /\ r.read = requests[h].read /\ r.proof = requests[h].proof
  /\ r.late = requests[h].late
  /\ \/ /\ r.step = "stamped" /\ r.op \in {"enrol", "reset"}
        /\ r.at = clock /\ r.item = requests[h].item
     \/ /\ r.step = "loaded" /\ r.op = "backup" /\ r.at = requests[h].at
        /\ r.item \in unused \cap CodesOf(r.name)
     \/ /\ r.step = "retired" /\ r.op = "regenerate"
        /\ r.at = requests[h].at /\ r.item = requests[h].item
        /\ r.marked = unused \cap CodesOf(r.name)

Preparation(h, r) ==
  /\ requests' = [requests EXCEPT ![h] = r]
  /\ OnlyTheRequest
  /\ Begun(r) \/ Continued(h, r)

(* The requests of a step that only reads. *)
LEMMA NewRequestForm ==
  ASSUME NEW op \in AllOperations, NEW n \in Names, NEW proof \in 1 .. MaxPasswords,
         NEW read \in 0 .. MaxAttempts \cup Time \cup {Never}
  PROVE  /\ NewRequest(op, n, read, proof)
              = [op |-> op, step |-> "read", name |-> n, item |-> Nothing,
                 read |-> read, at |-> 0, marked |-> {}, proof |-> proof,
                 late |-> FALSE]
         /\ NewRequest(op, n, read, proof) \in Request
  BY Numbers DEF NewRequest, Request, Time

LEMMA InvitationRead ==
  ASSUME Base, NEW h \in Threads, NEW i \in Invitations, NEW n \in Names,
         ReadInvitation(h, i, n)
  PROVE  \E r : Preparation(h, r)
<1> DEFINE q == NewRequest("register", n, 0, 1)
           r == [q EXCEPT !.item = i]
<1>1. /\ q \in Request /\ q.op = "register" /\ q.step = "read" /\ q.at = 0
      /\ q.name = n
  BY NewRequestForm, Numbers DEF AllOperations
<1> HIDE DEF q
<1>2. /\ r \in Request /\ r.op = "register" /\ r.step = "read" /\ r.at = 0
      /\ r.name = n /\ r.item = i
  BY <1>1 DEF Request, Items
<1>3. requests' = [requests EXCEPT ![h] = r] /\ OnlyTheRequest
  BY DEF ReadInvitation, q
<1> HIDE DEF r
<1>4. Begun(r)
  BY <1>2 DEF ReadInvitation, Begun
<1>5. Preparation(h, r)
  BY <1>3, <1>4 DEF Preparation
<1> QED
  BY <1>5

LEMMA PasswordChecked ==
  ASSUME Base, NEW h \in Threads, NEW n \in Names,
         CheckPassword(h, n) \/ ReadRecovery(h, n)
  PROVE  \E r : Preparation(h, r)
<1>1. rows[n] # Nothing /\ rows[n] \in Row
  BY RowIsTyped DEF CheckPassword, ReadRecovery, Base
<1>2. /\ rows[n].password \in 1 .. MaxPasswords
      /\ rows[n].attempts \in 0 .. MaxAttempts
  BY <1>1 DEF Row
<1>3. CASE CheckPassword(h, n)
  <2> DEFINE r == NewRequest("login", n, 0, rows[n].password)
  <2>1. /\ r \in Request /\ r.op = "login" /\ r.step = "read" /\ r.at = 0
        /\ r.name = n /\ r.item = Nothing /\ r.proof = rows[n].password
    BY <1>2, NewRequestForm, Numbers DEF AllOperations
  <2> HIDE DEF r
  <2>2. Begun(r)
    BY <1>1, <2>1 DEF Begun
  <2> QED
    BY <1>3, <2>2 DEF CheckPassword, Preparation, r
<1>4. CASE ReadRecovery(h, n)
  <2> DEFINE r == NewRequest("recovery", n, rows[n].attempts, rows[n].password)
  <2>1. /\ r \in Request /\ r.op = "recovery" /\ r.step = "read" /\ r.at = 0
        /\ r.name = n /\ r.item = Nothing /\ r.proof = rows[n].password
        /\ r.read = rows[n].attempts
    BY <1>2, NewRequestForm DEF AllOperations
  <2> HIDE DEF r
  <2>2. Begun(r)
    BY <1>1, <1>4, <2>1 DEF Begun, ReadRecovery
  <2> QED
    BY <1>4, <2>2 DEF ReadRecovery, Preparation, r
<1> QED
  BY <1>3, <1>4

(* A request that shows a token. *)
LEMMA TokenShown ==
  ASSUME Base, NEW h \in Threads, NEW t \in tokens,
         \/ BeginEnrolment(h, t) \/ BeginTotp(h, t) \/ BeginBackup(h, t)
         \/ BeginRegeneration(h, t) \/ ReadForReset(h, t)
  PROVE  \E r : Preparation(h, r)
<1> DEFINE TakesUp(op, read, late) ==
             \E r : /\ requests' = [requests EXCEPT ![h] = r] /\ OnlyTheRequest
                   /\ r \in Request /\ r.op = op /\ r.step = "read" /\ r.at = 0
                   /\ r.item = Nothing /\ r.read = read /\ Shows(r, t)
                   /\ r.late = late
<1>1. /\ t \in Token /\ t.name \in Names /\ t.proof \in 1 .. MaxPasswords
      /\ rows[t.name] # Nothing /\ rows[t.name] \in Row
  BY RowIsTyped DEF Base, Types, TypeOK, Token, TokensFit
<1>2. /\ rows[t.name].lastUsed \in Time \cup {Never}
      /\ rows[t.name].attempts \in 0 .. MaxAttempts
  BY <1>1 DEF Row
<1>3. t.late \in BOOLEAN
  BY <1>1 DEF Token
<1>4. ASSUME NEW op \in AllOperations, NEW late \in BOOLEAN,
             NEW read \in 0 .. MaxAttempts \cup Time \cup {Never},
             Resolve(h, t, op, read, late)
      PROVE  TakesUp(op, read, late)
  <2> DEFINE q == NewRequest(op, t.name, read, t.proof)
             r == [q EXCEPT !.late = late]
  <2>1. /\ q \in Request /\ q.op = op /\ q.step = "read" /\ q.at = 0
        /\ q.item = Nothing /\ q.read = read /\ Shows(q, t)
    BY <1>1, NewRequestForm DEF Shows
  <2> HIDE DEF q
  <2>2. /\ r \in Request /\ r.op = op /\ r.step = "read" /\ r.at = 0
        /\ r.item = Nothing /\ r.read = read /\ Shows(r, t) /\ r.late = late
    BY <2>1 DEF Request, Shows
  <2>3. requests' = [requests EXCEPT ![h] = r] /\ OnlyTheRequest
    BY <1>4 DEF Resolve, q
  <2> HIDE DEF r
  <2> QED
    BY <2>2, <2>3
<1> HIDE DEF TakesUp
<1>o. /\ {"enrol", "totp", "backup", "regenerate", "reset"} \subseteq AllOperations
      /\ 0 \in 0 .. MaxAttempts \cup Time \cup {Never}
      /\ rows[t.name].lastUsed \in 0 .. MaxAttempts \cup Time \cup {Never}
  BY <1>2, Numbers DEF AllOperations
<1>5. CASE BeginEnrolment(h, t)
  <2>0. Resolve(h, t, "enrol", 0, FALSE)
    BY <1>5 DEF BeginEnrolment
  <2>t. TakesUp("enrol", 0, FALSE)
    BY <1>3, <1>4, <1>o, <2>0
  <2>1. PICK r : /\ requests' = [requests EXCEPT ![h] = r] /\ OnlyTheRequest
                 /\ r \in Request /\ r.op = "enrol" /\ r.step = "read" /\ r.at = 0
                 /\ r.item = Nothing /\ Shows(r, t)
    BY <2>t DEF TakesUp
  <2> QED
    BY <1>1, <1>5, <2>1 DEF BeginEnrolment, Begun, Shows, Preparation
<1>6. CASE BeginTotp(h, t)
  <2>0. Resolve(h, t, "totp", rows[t.name].lastUsed, t.late)
    BY <1>6 DEF BeginTotp
  <2>t. TakesUp("totp", rows[t.name].lastUsed, t.late)
    BY <1>3, <1>4, <1>o, <2>0
  <2>1. PICK r : /\ requests' = [requests EXCEPT ![h] = r] /\ OnlyTheRequest
                 /\ r \in Request /\ r.op = "totp" /\ r.step = "read" /\ r.at = 0
                 /\ r.item = Nothing /\ Shows(r, t) /\ r.late = t.late
                 /\ r.read = rows[t.name].lastUsed
    BY <2>t DEF TakesUp
  <2> QED
    BY <1>1, <1>6, <2>1 DEF BeginTotp, Resolve, Begun, Shows, Preparation
<1>7. CASE BeginBackup(h, t)
  <2>0. Resolve(h, t, "backup", 0, t.late)
    BY <1>7 DEF BeginBackup
  <2>t. TakesUp("backup", 0, t.late)
    BY <1>3, <1>4, <1>o, <2>0
  <2>1. PICK r : /\ requests' = [requests EXCEPT ![h] = r] /\ OnlyTheRequest
                 /\ r \in Request /\ r.op = "backup" /\ r.step = "read" /\ r.at = 0
                 /\ r.item = Nothing /\ Shows(r, t) /\ r.late = t.late
    BY <2>t DEF TakesUp
  <2> QED
    BY <1>1, <1>7, <2>1 DEF BeginBackup, Resolve, Begun, Shows, Preparation
<1>8. CASE BeginRegeneration(h, t)
  <2>0. Resolve(h, t, "regenerate", 0, FALSE)
    BY <1>8 DEF BeginRegeneration
  <2>t. TakesUp("regenerate", 0, FALSE)
    BY <1>3, <1>4, <1>o, <2>0
  <2>1. PICK r : /\ requests' = [requests EXCEPT ![h] = r] /\ OnlyTheRequest
                 /\ r \in Request /\ r.op = "regenerate" /\ r.step = "read"
                 /\ r.at = 0 /\ r.item = Nothing /\ Shows(r, t)
    BY <2>t DEF TakesUp
  <2> QED
    BY <1>1, <1>8, <2>1 DEF BeginRegeneration, Begun, Shows, Preparation
<1>9. CASE ReadForReset(h, t)
  <2> DEFINE r == NewRequest("reset", t.name, rows[t.name].attempts, t.proof)
  <2>1. /\ r \in Request /\ r.op = "reset" /\ r.step = "read" /\ r.at = 0
        /\ r.item = Nothing /\ Shows(r, t)
    BY <1>1, <1>2, NewRequestForm DEF AllOperations, Shows
  <2> HIDE DEF r
  <2>2. Begun(r)
    BY <1>1, <2>1 DEF Begun, Shows
  <2> QED
    BY <1>9, <2>2 DEF ReadForReset, Preparation, r
<1> QED
  BY <1>5, <1>6, <1>7, <1>8, <1>9

(* A request that goes on. *)
LEMMA RequestGoesOn ==
  ASSUME Base, NEW h \in Threads,
         \/ StampEnrolment(h) \/ StampReset(h) \/ RetireCodes(h)
         \/ \E c \in unused : LoadCodes(h, c)
  PROVE  \E r : Preparation(h, r)
<1> DEFINE q == requests[h]
<1>1. Busy(h) /\ q \in Request
  BY BusyIsTyped DEF Base, StampEnrolment, StampReset, RetireCodes, LoadCodes, At, Busy
<1>2. clock \in Time /\ unused \subseteq Codes /\ requests \in [Threads -> Request \cup {Idle}]
  BY DEF Base, Types, TypeOK
<1>3. CASE StampEnrolment(h) \/ StampReset(h)
  <2> DEFINE r == [q EXCEPT !.step = "stamped", !.at = clock]
  <2>1. /\ r \in Request /\ r.op = q.op /\ r.name = q.name /\ r.read = q.read
        /\ r.proof = q.proof /\ r.late = q.late /\ r.item = q.item
        /\ r.step = "stamped" /\ r.at = clock
    BY <1>1, <1>2 DEF Request
  <2>2. requests' = [requests EXCEPT ![h] = r] /\ OnlyTheRequest
    BY <1>2, <1>3 DEF StampEnrolment, StampReset
  <2>3. q.op \in {"enrol", "reset"}
    BY <1>3 DEF StampEnrolment, StampReset, At
  <2> HIDE DEF r
  <2> QED
    BY <1>1, <2>1, <2>2, <2>3 DEF Preparation, Continued
<1>4. CASE RetireCodes(h)
  <2> DEFINE r == [q EXCEPT !.step = "retired", !.marked = unused \cap CodesOf(q.name)]
  <2>1. /\ r \in Request /\ r.op = q.op /\ r.name = q.name /\ r.read = q.read
        /\ r.proof = q.proof /\ r.late = q.late /\ r.item = q.item
        /\ r.step = "retired" /\ r.at = q.at
        /\ r.marked = unused \cap CodesOf(q.name)
    BY <1>1, <1>2 DEF Request
  <2>2. requests' = [requests EXCEPT ![h] = r] /\ OnlyTheRequest
    BY <1>2, <1>4 DEF RetireCodes
  <2>3. q.op = "regenerate"
    BY <1>4 DEF RetireCodes, At
  <2> HIDE DEF r
  <2> QED
    BY <1>1, <2>1, <2>2, <2>3 DEF Preparation, Continued
<1>5. ASSUME NEW c \in unused, LoadCodes(h, c)
      PROVE  \E r : Preparation(h, r)
  <2> DEFINE r == [q EXCEPT !.step = "loaded", !.item = c]
  <2>1. /\ r \in Request /\ r.op = q.op /\ r.name = q.name /\ r.read = q.read
        /\ r.proof = q.proof /\ r.late = q.late /\ r.at = q.at
        /\ r.step = "loaded" /\ r.item = c
    BY <1>1, <1>2 DEF Request, Items
  <2>2. requests' = [requests EXCEPT ![h] = r] /\ OnlyTheRequest
    BY <1>2, <1>5 DEF LoadCodes
  <2>3. q.op = "backup" /\ c \in unused \cap CodesOf(q.name)
    BY <1>5 DEF LoadCodes, At
  <2> HIDE DEF r
  <2> QED
    BY <1>1, <2>1, <2>2, <2>3 DEF Preparation, Continued
<1> QED
  BY <1>3, <1>4, <1>5
-----------------------------------------------------------------------------
(* What a commit and its answer do, in terms of fields. *)

(* No request begins, none changes but for its late mark. *)
OthersGoOn(h, overtaken) ==
  /\ requests' \in [Threads -> Request \cup {Idle}]
  /\ \A g \in Threads : Busy(g)' =>
       /\ g # h /\ Busy(g) /\ requests'[g] \in Request
       /\ requests'[g].op = requests[g].op
       /\ requests'[g].step = requests[g].step
       /\ requests'[g].name = requests[g].name
       /\ requests'[g].item = requests[g].item
       /\ requests'[g].read = requests[g].read
       /\ requests'[g].at = requests[g].at
       /\ requests'[g].marked = requests[g].marked
       /\ requests'[g].proof = requests[g].proof
       /\ requests[g].late \/ g \in overtaken => requests'[g].late

LEMMA EndForm ==
  ASSUME Types, NEW h \in Threads, NEW overtaken, End(h, overtaken)
  PROVE  OthersGoOn(h, overtaken)
<1> DEFINE Overtaken(r) == [r EXCEPT !.late = TRUE]
<1>1. requests \in [Threads -> Request \cup {Idle}]
  BY DEF Types, TypeOK
<1>2. ASSUME NEW r \in Request
      PROVE  LET s == Overtaken(r)
             IN  /\ s \in Request /\ s.op = r.op /\ s.step = r.step
                 /\ s.name = r.name /\ s.item = r.item /\ s.read = r.read
                 /\ s.at = r.at /\ s.marked = r.marked /\ s.proof = r.proof
                 /\ s.late
  BY <1>2 DEF Request
<1>3. Overtaken(Idle) = Idle
  BY DEF Idle
<1>4. /\ requests' = [g \in Threads |-> requests'[g]]
      /\ \A g \in Threads :
           requests'[g] = IF g = h THEN Idle
                          ELSE IF g \in overtaken THEN Overtaken(requests[g])
                          ELSE requests[g]
  BY DEF End
<1> HIDE DEF Overtaken
<1>5. ASSUME NEW g \in Threads, Busy(g)'
      PROVE  /\ g # h /\ Busy(g) /\ requests[g] \in Request
             /\ requests'[g] = IF g \in overtaken THEN Overtaken(requests[g])
                                                  ELSE requests[g]
  BY <1>1, <1>3, <1>4, <1>5 DEF Busy
<1>6. \A g \in Threads : requests'[g] \in Request \cup {Idle}
  BY <1>1, <1>2, <1>3, <1>4
<1>7. requests' \in [Threads -> Request \cup {Idle}]
  BY <1>4, <1>6
<1>8. ASSUME NEW g \in Threads, Busy(g)', g \in overtaken
      PROVE  requests'[g] = Overtaken(requests[g])
  BY <1>5, <1>8
<1>9. ASSUME NEW g \in Threads, Busy(g)', g \notin overtaken
      PROVE  requests'[g] = requests[g]
  BY <1>5, <1>9
<1> QED
  BY <1>2, <1>5, <1>7, <1>8, <1>9 DEF OthersGoOn

(* The tokens, if an answer with one arrives. *)
Issued(h, token, scope, proof, late) ==
  /\ token \in Token
  /\ token.name = requests[h].name /\ token.scope = scope
  /\ token.at = clock /\ token.proof = proof
  /\ late => token.late
  /\ \A g \in Threads \ {h} :
       Busy(g) /\ requests[g].op = "reset" /\ requests[g].name = token.name
         /\ requests[g].step = "stamped" => token.late

TokensGrow(h, scope, proof, late) ==
  /\ IsFiniteSet(tokens') /\ Cardinality(tokens') <= MaxTokens
  /\ \A t \in tokens' \ tokens : Issued(h, t, scope, proof, late)

LEMMA AnswerForm ==
  ASSUME Base, NEW h \in Threads, Busy(h), NEW late \in BOOLEAN,
         NEW scope \in {"pending_totp", "full_access", "password_reset"},
         NEW proof \in 1 .. MaxPasswords, Answer(h, scope, proof, late)
  PROVE  TokensGrow(h, scope, proof, late)
<1> DEFINE n == requests[h].name
           overtaking == \E g \in Others(h, {"reset"}, n) : requests[g].step = "stamped"
           token == [name |-> n, scope |-> scope, at |-> clock, proof |-> proof,
                     late |-> late \/ overtaking]
<1>1. n \in Names /\ clock \in Time
  BY BusyIsTyped DEF Base, Types, TypeOK, Request
<1>2. (late \/ overtaking) \in BOOLEAN
  OBVIOUS
<1> HIDE DEF overtaking
<1>3. token \in Token
  BY <1>1, <1>2 DEF Token
<1>4. /\ token.late = (late \/ overtaking) /\ token.name = n
      /\ token.scope = scope /\ token.at = clock /\ token.proof = proof
  OBVIOUS
<1>5. ASSUME NEW g \in Threads \ {h}, Busy(g), requests[g].op = "reset",
             requests[g].name = n, requests[g].step = "stamped"
      PROVE  overtaking
  BY <1>5 DEF overtaking, Others, Busy
<1>6. tokens' \in {tokens, tokens \cup {token}} /\ Cardinality(tokens') <= MaxTokens
  BY DEF Answer, overtaking
<1> HIDE DEF token
<1>7. IsFiniteSet(tokens')
  <2>1. IsFiniteSet(tokens)
    BY DEF Base, TokensFit
  <2> QED
    BY <1>6, <2>1, FS_AddElement
<1>8. Issued(h, token, scope, proof, late)
  BY <1>3, <1>4, <1>5 DEF Issued
<1> QED
  BY <1>6, <1>7, <1>8 DEF TokensGrow

(* What is accepted joins the history. *)
LEMMA AcceptForm ==
  ASSUME past \in Past, NEW x \in Things, NEW rivals
  PROVE  LET q == Accept(x, rivals)
         IN  /\ q \in Past
             /\ q.spent = past.spent \cup {x}
             /\ q.respent = past.respent \cup ({x} \cap past.spent)
             /\ q.contested = IF rivals = {} THEN past.contested
                                             ELSE past.contested \cup {x}
             /\ q.buyers = past.buyers /\ q.failures = past.failures
             /\ q.miscounted = past.miscounted
  BY DEF Accept, Past

(* The request that commits. *)
LEMMA CommittingForm ==
  ASSUME Base, NEW h \in Threads, NEW op, NEW step, At(h, op, step)
  PROVE  /\ Busy(h) /\ requests[h].op = op /\ requests[h].step = step
         /\ requests[h] \in Request /\ requests[h].name \in Names
         /\ requests[h].proof \in 1 .. MaxPasswords
         /\ requests[h].late \in BOOLEAN /\ requests[h].at \in Time
         /\ op # "register" => /\ rows[requests[h].name] # Nothing
                               /\ rows[requests[h].name] \in Row
<1>1. Busy(h) /\ requests[h] \in Request
  BY BusyIsTyped DEF At, Busy, Base
<1>2. requests[h].op = op /\ requests[h].step = step
  BY DEF At
<1>3. /\ requests[h].name \in Names /\ requests[h].proof \in 1 .. MaxPasswords
      /\ requests[h].late \in BOOLEAN /\ requests[h].at \in Time
  BY <1>1 DEF Request
<1>4. op # "register" => rows[requests[h].name] # Nothing
  BY <1>1, <1>2 DEF Base, RequestsFit
<1> QED
  BY <1>1, <1>2, <1>3, <1>4, RowIsTyped DEF Base

(* One row changes, the others do not. *)
OnlyRow(n) ==
  /\ rows' \in [Names -> Row \cup {Nothing}] /\ rows'[n] # Nothing
  /\ rows'[n] \in Row
  /\ \A m \in Names \ {n} : rows'[m] = rows[m]

Advances(n) ==
  /\ OnlyRow(n)
  /\ rows[n].enrolled => rows'[n].enrolled
  /\ rows[n].recoveryUsed => rows'[n].recoveryUsed
  /\ rows[n].password <= rows'[n].password

LEMMA RegistrationForm ==
  ASSUME Base, NEW h \in Threads, CommitRegistration(h)
  PROVE  LET n == requests[h].name
             i == requests[h].item
         IN  /\ i \in Invitations /\ i \in Things
             /\ rows[n] = Nothing /\ OnlyRow(n) /\ rows'[n] = NewRow
             /\ invitations' = [invitations EXCEPT ![i] = "used"]
             /\ past' \in Past
             /\ past'.spent = past.spent \cup {i}
             /\ past'.respent = past.respent \cup ({i} \cap past.spent)
             /\ past'.contested = IF Rivals(h) = {} THEN past.contested
                                                    ELSE past.contested \cup {i}
             /\ past'.buyers = [past.buyers EXCEPT ![n] = i]
             /\ past'.failures = past.failures
             /\ past'.miscounted = past.miscounted
             /\ TokensGrow(h, "pending_totp", 1, FALSE)
             /\ informed' \subseteq informed \cup {n}
             /\ OthersGoOn(h, {})
             /\ UNCHANGED <<clock, sets, unused>>
<1> DEFINE n == requests[h].name
           i == requests[h].item
           q == Accept(i, Rivals(h))
<1>1. /\ Busy(h) /\ requests[h].op = "register" /\ requests[h] \in Request
      /\ n \in Names
  BY CommittingForm DEF CommitRegistration
<1>2. i \in Invitations /\ i \in Things
  BY <1>1, KindsDiffer DEF Base, RequestsFit
<1>3. rows \in [Names -> Row \cup {Nothing}] /\ past \in Past
  BY DEF Base, Types, TypeOK
<1>4. NewRow \in Row /\ NewRow # Nothing
  <2>1. NewRow \in Row
    BY Numbers DEF NewRow, Row
  <2>2. Nothing \notin Row
    BY KindsAssumption
  <2> QED
    BY <2>1, <2>2
<1>5. rows[n] = Nothing /\ OnlyRow(n) /\ rows'[n] = NewRow
  BY <1>1, <1>3, <1>4 DEF CommitRegistration, OnlyRow
<1>6. past' = [q EXCEPT !.buyers[n] = i]
  BY DEF CommitRegistration
<1>7. /\ q \in Past
      /\ q.spent = past.spent \cup {i}
      /\ q.respent = past.respent \cup ({i} \cap past.spent)
      /\ q.contested = IF Rivals(h) = {} THEN past.contested
                                         ELSE past.contested \cup {i}
      /\ q.buyers = past.buyers /\ q.failures = past.failures
      /\ q.miscounted = past.miscounted
  BY <1>2, <1>3, AcceptForm
<1> HIDE DEF q
<1>8. /\ past' \in Past /\ past'.spent = q.spent /\ past'.respent = q.respent
      /\ past'.contested = q.contested
      /\ past'.buyers = [q.buyers EXCEPT ![n] = i]
      /\ past'.failures = q.failures /\ past'.miscounted = q.miscounted
  BY <1>1, <1>2, <1>6, <1>7 DEF Past
<1>9. TokensGrow(h, "pending_totp", 1, FALSE) /\ informed' \subseteq informed \cup {n}
  <2>1. CASE Answer(h, "pending_totp", 1, FALSE) /\ informed' = informed \cup {n}
    <3>1. FALSE \in BOOLEAN /\ 1 \in 1 .. MaxPasswords
      BY Numbers
    <3>2. Answer(h, "pending_totp", 1, FALSE)
      BY <2>1
    <3>3. TokensGrow(h, "pending_totp", 1, FALSE)
      BY <1>1, <3>1, <3>2, AnswerForm
    <3> QED
      BY <2>1, <3>3
  <2>2. CASE UNCHANGED <<tokens, informed>>
    BY <2>2 DEF Base, TokensFit, Types, TypeOK, TokensGrow
  <2> QED
    BY <2>1, <2>2 DEF CommitRegistration, AnswerRegistration
<1>10. OthersGoOn(h, {})
  BY EndForm DEF CommitRegistration, Base
<1> QED
  BY <1>2, <1>5, <1>7, <1>8, <1>9, <1>10 DEF CommitRegistration

LEMMA LoginForm ==
  ASSUME Base, NEW h \in Threads, Login(h) \/ IssueReset(h)
  PROVE  /\ Busy(h) /\ requests[h].op \in {"login", "recovery"}
         /\ \E scope \in {"pending_totp", "password_reset"} :
              TokensGrow(h, scope, requests[h].proof, requests[h].late)
         /\ OthersGoOn(h, {})
         /\ UNCHANGED <<clock, rows, invitations, sets, unused, informed, past>>
<1>1. CASE Login(h)
  <2>1. Answer(h, "pending_totp", requests[h].proof, requests[h].late)
    BY <1>1 DEF Login
  <2>2. TokensGrow(h, "pending_totp", requests[h].proof, requests[h].late)
    BY <1>1, <2>1, CommittingForm, AnswerForm DEF Login
  <2> QED
    BY <1>1, <2>2, EndForm, CommittingForm DEF Login, Base
<1>2. CASE IssueReset(h)
  <2>1. Answer(h, "password_reset", requests[h].proof, requests[h].late)
    BY <1>2 DEF IssueReset
  <2>2. TokensGrow(h, "password_reset", requests[h].proof, requests[h].late)
    BY <1>2, <2>1, CommittingForm, AnswerForm DEF IssueReset
  <2> QED
    BY <1>2, <2>2, EndForm, CommittingForm DEF IssueReset, Base
<1> QED
  BY <1>1, <1>2

LEMMA EnrolmentForm ==
  ASSUME Base, NEW h \in Threads, CommitEnrolment(h)
  PROVE  LET n == requests[h].name
             at == requests[h].at
             x == <<n, Step(at)>>
             rivals == Others(h, {"enrol", "totp"}, n)
         IN  /\ Busy(h) /\ requests[h].op = "enrol" /\ n \in Names
             /\ x \in Things /\ Step(at) \in Nat
             /\ rows[n] # Nothing /\ Advances(n)
             /\ rows'[n].enrolled /\ rows'[n].lastUsed = at
             /\ rows'[n].changedAt = rows[n].changedAt
             /\ rows'[n].password = rows[n].password
             /\ rows'[n].attempts = rows[n].attempts
             /\ rows'[n].recoveryUsed = rows[n].recoveryUsed
             /\ past' \in Past
             /\ past'.spent = past.spent \cup {x}
             /\ past'.respent = past.respent \cup ({x} \cap past.spent)
             /\ past'.contested =
                  Crowded(h, IF rivals = {} THEN past.contested
                                            ELSE past.contested \cup {x})
             /\ past'.buyers = past.buyers
             /\ past'.failures = past.failures
             /\ past'.miscounted = past.miscounted
             /\ AddSet(h, unused)
             /\ OthersGoOn(h, SetMakers(h))
             /\ UNCHANGED <<clock, invitations, tokens, informed>>
<1> DEFINE n == requests[h].name
           at == requests[h].at
           x == <<n, Step(at)>>
           rivals == Others(h, {"enrol", "totp"}, n)
           q == Accept(x, rivals)
           r == rows[n]
<1>1. /\ Busy(h) /\ requests[h].op = "enrol" /\ n \in Names
      /\ at \in Time /\ r # Nothing /\ r \in Row
  BY CommittingForm DEF CommitEnrolment
<1>2. Step(at) \in Nat /\ x \in Things
  BY <1>1, Numbers, DivisionIsMonotone, KindsDiffer DEF Step, Time
<1>3. rows \in [Names -> Row \cup {Nothing}] /\ past \in Past
  BY DEF Base, Types, TypeOK
<1> DEFINE new == [r EXCEPT !.enrolled = TRUE, !.lastUsed = at]
<1>4. /\ new \in Row /\ new.enrolled /\ new.lastUsed = at
      /\ new.changedAt = r.changedAt /\ new.password = r.password
      /\ new.attempts = r.attempts /\ new.recoveryUsed = r.recoveryUsed
  BY <1>1 DEF Row
<1>5. rows' = [rows EXCEPT ![n] = new]
  BY <1>1, <1>3 DEF CommitEnrolment
<1>6. Nothing \notin Row /\ r.password \in Nat
  BY <1>1, KindsAssumption DEF Row
<1> HIDE DEF new
<1>7. /\ Advances(n) /\ rows'[n] = new
  BY <1>1, <1>3, <1>4, <1>5, <1>6 DEF Advances, OnlyRow
<1>8. /\ q \in Past
      /\ q.spent = past.spent \cup {x}
      /\ q.respent = past.respent \cup ({x} \cap past.spent)
      /\ q.contested = IF rivals = {} THEN past.contested
                                      ELSE past.contested \cup {x}
      /\ q.buyers = past.buyers /\ q.failures = past.failures
      /\ q.miscounted = past.miscounted
  BY <1>2, <1>3, AcceptForm
<1>9. past' = [q EXCEPT !.contested = Crowded(h, q.contested)]
  BY <1>8 DEF CommitEnrolment
<1> HIDE DEF q, x, rivals
<1>10. /\ past' \in Past /\ past'.spent = q.spent /\ past'.respent = q.respent
       /\ past'.contested = Crowded(h, q.contested)
       /\ past'.buyers = q.buyers
       /\ past'.failures = q.failures /\ past'.miscounted = q.miscounted
  BY <1>1, <1>8, <1>9 DEF Past, Crowded
<1>11. OthersGoOn(h, SetMakers(h))
  BY EndForm DEF CommitEnrolment, Base
<1> QED
  BY <1>1, <1>2, <1>4, <1>7, <1>8, <1>10, <1>11 DEF CommitEnrolment, x, rivals

LEMMA VerificationForm ==
  ASSUME Base, NEW h \in Threads, VerifyTotp(h)
  PROVE  LET n == requests[h].name
             x == <<n, Step(clock)>>
             rivals == Others(h, {"enrol", "totp"}, n)
         IN  /\ Busy(h) /\ requests[h].op = "totp" /\ n \in Names
             /\ x \in Things /\ Step(clock) \in Nat
             /\ rows[n] # Nothing /\ Advances(n) /\ rows[n].enrolled
             /\ rows'[n].enrolled /\ rows'[n].lastUsed = clock
             /\ rows'[n].changedAt = rows[n].changedAt
             /\ rows'[n].password = rows[n].password
             /\ rows'[n].attempts = rows[n].attempts
             /\ rows'[n].recoveryUsed = rows[n].recoveryUsed
             /\ past' \in Past
             /\ past'.spent = past.spent \cup {x}
             /\ past'.respent = past.respent \cup ({x} \cap past.spent)
             /\ past'.contested = IF rivals = {} THEN past.contested
                                                 ELSE past.contested \cup {x}
             /\ past'.buyers = past.buyers
             /\ past'.failures = past.failures
             /\ past'.miscounted = past.miscounted
             /\ TokensGrow(h, "full_access", requests[h].proof, requests[h].late)
             /\ OthersGoOn(h, {})
             /\ UNCHANGED <<clock, invitations, sets, unused, informed>>
<1> DEFINE n == requests[h].name
           x == <<n, Step(clock)>>
           rivals == Others(h, {"enrol", "totp"}, n)
           r == rows[n]
<1>1. /\ Busy(h) /\ requests[h].op = "totp" /\ n \in Names
      /\ r # Nothing /\ r \in Row
  BY CommittingForm DEF VerifyTotp
<1>2. clock \in Time /\ Step(clock) \in Nat /\ x \in Things
  BY <1>1, Numbers, DivisionIsMonotone, KindsDiffer
  DEF Step, Time, Base, Types, TypeOK
<1>3. rows \in [Names -> Row \cup {Nothing}] /\ past \in Past
  BY DEF Base, Types, TypeOK
<1> DEFINE new == [r EXCEPT !.lastUsed = clock]
<1>4. /\ new \in Row /\ new.lastUsed = clock /\ new.enrolled = r.enrolled
      /\ new.changedAt = r.changedAt /\ new.password = r.password
      /\ new.attempts = r.attempts /\ new.recoveryUsed = r.recoveryUsed
  BY <1>1, <1>2 DEF Row
<1>5. rows' = [rows EXCEPT ![n] = new]
  BY <1>1, <1>3 DEF VerifyTotp
<1>6. Nothing \notin Row /\ r.password \in Nat
  BY <1>1, KindsAssumption DEF Row
<1>e. r.enrolled
  BY <1>1 DEF Base, RequestsFit
<1> HIDE DEF new
<1>7. /\ Advances(n) /\ rows'[n] = new
  BY <1>1, <1>3, <1>4, <1>5, <1>6 DEF Advances, OnlyRow
<1>8. /\ past' \in Past
      /\ past'.spent = past.spent \cup {x}
      /\ past'.respent = past.respent \cup ({x} \cap past.spent)
      /\ past'.contested = IF rivals = {} THEN past.contested
                                          ELSE past.contested \cup {x}
      /\ past'.buyers = past.buyers /\ past'.failures = past.failures
      /\ past'.miscounted = past.miscounted
  BY <1>2, <1>3, AcceptForm DEF VerifyTotp
<1>9. TokensGrow(h, "full_access", requests[h].proof, requests[h].late)
  <2>1. Answer(h, "full_access", requests[h].proof, requests[h].late)
    BY DEF VerifyTotp
  <2> QED
    BY <2>1, CommittingForm, AnswerForm DEF VerifyTotp
<1>10. OthersGoOn(h, {})
  BY EndForm DEF VerifyTotp, Base
<1> QED
  BY <1>1, <1>2, <1>e, <1>4, <1>7, <1>8, <1>9, <1>10 DEF VerifyTotp

LEMMA SpendingForm ==
  ASSUME Base, NEW h \in Threads, SpendCode(h)
  PROVE  LET c == requests[h].item
         IN  /\ Busy(h) /\ requests[h].op = "backup" /\ requests[h].step = "loaded"
             /\ requests[h].name \in Names
             /\ c \in CodesOf(requests[h].name) /\ c \in Things /\ c \in Codes
             /\ c[2] <= sets[requests[h].name]
             /\ rows[requests[h].name] # Nothing /\ rows[requests[h].name].enrolled
             /\ past' \in Past
             /\ past'.spent = past.spent \cup {c}
             /\ past'.respent = past.respent \cup ({c} \cap past.spent)
             /\ past'.contested = IF Rivals(h) = {} THEN past.contested
                                                    ELSE past.contested \cup {c}
             /\ past'.buyers = past.buyers
             /\ past'.failures = past.failures
             /\ past'.miscounted = past.miscounted
             /\ TokensGrow(h, "full_access", requests[h].proof, requests[h].late)
             /\ OthersGoOn(h, {})
             /\ unused' = unused \ {c}
             /\ UNCHANGED <<clock, rows, invitations, sets, informed>>
<1> DEFINE c == requests[h].item
<1>1. /\ Busy(h) /\ requests[h].op = "backup" /\ requests[h].step = "loaded"
      /\ requests[h].name \in Names /\ rows[requests[h].name] # Nothing
  BY CommittingForm DEF SpendCode
<1>2. /\ c \in CodesOf(requests[h].name) /\ c[2] <= sets[requests[h].name]
      /\ rows[requests[h].name].enrolled
  BY <1>1 DEF Base, RequestsFit
<1>3. c \in Codes /\ c \in Things /\ past \in Past
  BY <1>2 DEF CodesOf, Things, Items, Base, Types
<1>4. /\ past' \in Past
      /\ past'.spent = past.spent \cup {c}
      /\ past'.respent = past.respent \cup ({c} \cap past.spent)
      /\ past'.contested = IF Rivals(h) = {} THEN past.contested
                                             ELSE past.contested \cup {c}
      /\ past'.buyers = past.buyers /\ past'.failures = past.failures
      /\ past'.miscounted = past.miscounted
  BY <1>3, AcceptForm DEF SpendCode
<1>5. TokensGrow(h, "full_access", requests[h].proof, requests[h].late)
  <2>1. Answer(h, "full_access", requests[h].proof, requests[h].late)
    BY DEF SpendCode
  <2> QED
    BY <2>1, CommittingForm, AnswerForm DEF SpendCode
<1>6. OthersGoOn(h, {})
  BY EndForm DEF SpendCode, Base
<1> QED
  BY <1>1, <1>2, <1>3, <1>4, <1>5, <1>6 DEF SpendCode

LEMMA RegenerationForm ==
  ASSUME Base, NEW h \in Threads, CommitCodes(h)
  PROVE  /\ Busy(h) /\ requests[h].op = "regenerate"
         /\ requests[h].step = "retired" /\ requests[h].name \in Names
         /\ rows[requests[h].name] # Nothing /\ rows[requests[h].name].enrolled
         /\ past' \in Past
         /\ past'.spent = past.spent /\ past'.respent = past.respent
         /\ past'.contested = Crowded(h, past.contested)
         /\ past'.buyers = past.buyers
         /\ past'.failures = past.failures
         /\ past'.miscounted = past.miscounted
         /\ AddSet(h, unused \ requests[h].marked)
         /\ OthersGoOn(h, SetMakers(h))
         /\ UNCHANGED <<clock, rows, invitations, tokens, informed>>
<1>1. /\ Busy(h) /\ requests[h].op = "regenerate" /\ requests[h].step = "retired"
      /\ requests[h].name \in Names /\ rows[requests[h].name] # Nothing
  BY CommittingForm DEF CommitCodes
<1>2. rows[requests[h].name].enrolled
  BY <1>1 DEF Base, RequestsFit
<1>3. past \in Past
  BY DEF Base, Types
<1>4. past' = [past EXCEPT !.contested = Crowded(h, past.contested)]
  BY <1>3 DEF CommitCodes
<1>5. /\ past' \in Past /\ past'.spent = past.spent
      /\ past'.respent = past.respent
      /\ past'.contested = Crowded(h, past.contested)
      /\ past'.buyers = past.buyers
      /\ past'.failures = past.failures /\ past'.miscounted = past.miscounted
  BY <1>1, <1>3, <1>4 DEF Past, Crowded
<1>6. OthersGoOn(h, SetMakers(h))
  BY EndForm DEF CommitCodes, Base
<1> QED
  BY <1>1, <1>2, <1>5, <1>6 DEF CommitCodes

LEMMA FailureForm ==
  ASSUME Base, NEW h \in Threads, CountFailure(h)
  PROVE  LET n == requests[h].name
         IN  /\ Busy(h) /\ requests[h].op = "recovery" /\ n \in Names
             /\ rows[n] # Nothing /\ Advances(n)
             /\ requests[h].read \in 0 .. (MaxAttempts - 1)
             /\ rows'[n].attempts = requests[h].read + 1
             /\ rows'[n].enrolled = rows[n].enrolled
             /\ rows'[n].lastUsed = rows[n].lastUsed
             /\ rows'[n].changedAt = rows[n].changedAt
             /\ rows'[n].password = rows[n].password
             /\ rows'[n].recoveryUsed = rows[n].recoveryUsed
             /\ past' \in Past
             /\ past'.spent = past.spent /\ past'.respent = past.respent
             /\ past'.contested = past.contested
             /\ past'.buyers = past.buyers
             /\ past'.failures =
                  [past.failures EXCEPT ![n] = IF @ < MaxAttempts THEN @ + 1 ELSE @]
             /\ past'.miscounted = IF requests[h].late
                                   THEN past.miscounted \cup {n} ELSE past.miscounted
             /\ OthersGoOn(h, Others(h, {"recovery"}, n))
             /\ UNCHANGED <<clock, invitations, sets, unused, tokens, informed>>
<1> DEFINE n == requests[h].name
           r == rows[n]
           read == requests[h].read
<1>1. /\ Busy(h) /\ requests[h].op = "recovery" /\ n \in Names
      /\ r # Nothing /\ r \in Row /\ requests[h] \in Request
  BY CommittingForm DEF CountFailure
<1>2. read \in 0 .. (MaxAttempts - 1)
  BY <1>1, Numbers DEF Base, RequestsFit, Request, Time, Never
<1>3. rows \in [Names -> Row \cup {Nothing}] /\ past \in Past
  BY DEF Base, Types, TypeOK
<1> DEFINE new == [r EXCEPT !.attempts = read + 1]
<1>4. /\ new \in Row /\ new.attempts = read + 1 /\ new.enrolled = r.enrolled
      /\ new.lastUsed = r.lastUsed
      /\ new.changedAt = r.changedAt /\ new.password = r.password
      /\ new.recoveryUsed = r.recoveryUsed
  BY <1>1, <1>2, Numbers DEF Row
<1>5. rows' = [rows EXCEPT ![n] = new]
  BY <1>1, <1>3 DEF CountFailure
<1>6. Nothing \notin Row /\ r.password \in Nat
  BY <1>1, KindsAssumption DEF Row
<1> HIDE DEF new
<1>7. /\ Advances(n) /\ rows'[n] = new
  BY <1>1, <1>3, <1>4, <1>5, <1>6 DEF Advances, OnlyRow
<1> DEFINE counted == [past.failures EXCEPT ![n] = IF @ < MaxAttempts THEN @ + 1 ELSE @]
           missed == IF requests[h].late THEN past.miscounted \cup {n}
                                         ELSE past.miscounted
<1>8. past.failures \in [Names -> 0 .. MaxAttempts] /\ past.miscounted \subseteq Names
  BY <1>3 DEF Past
<1>9. counted \in [Names -> 0 .. MaxAttempts] /\ missed \subseteq Names
  BY <1>1, <1>8, Numbers
<1>10. past' = [past EXCEPT !.failures = counted, !.miscounted = missed]
  BY <1>3, <1>8 DEF CountFailure, Failed, Past
<1> HIDE DEF counted, missed
<1>11. /\ past' \in Past
       /\ past'.spent = past.spent /\ past'.respent = past.respent
       /\ past'.contested = past.contested /\ past'.buyers = past.buyers
       /\ past'.failures = counted /\ past'.miscounted = missed
  BY <1>3, <1>9, <1>10 DEF Past
<1>12. OthersGoOn(h, Others(h, {"recovery"}, n))
  BY EndForm DEF CountFailure, Base
<1> QED
  BY <1>1, <1>2, <1>4, <1>7, <1>11, <1>12 DEF CountFailure, counted, missed

LEMMA ResetForm ==
  ASSUME Base, NEW h \in Threads, CommitReset(h)
  PROVE  LET n == requests[h].name
         IN  /\ Busy(h) /\ requests[h].op = "reset"
             /\ requests[h].step = "stamped" /\ n \in Names
             /\ requests[h].at \in Time
             /\ rows[n] # Nothing /\ Advances(n)
             /\ rows[n].password \in Nat
             /\ rows'[n].password = rows[n].password + 1
             /\ rows'[n].changedAt = requests[h].at
             /\ rows'[n].recoveryUsed
             /\ rows'[n].enrolled = rows[n].enrolled
             /\ rows'[n].lastUsed = rows[n].lastUsed
             /\ \E scope \in {"full_access", "pending_totp"} :
                  /\ scope = "full_access" => rows[n].enrolled
                  /\ TokensGrow(h, scope, rows[n].password + 1, FALSE)
             /\ OthersGoOn(h, Others(h, AllOperations, n))
             /\ UNCHANGED <<clock, invitations, sets, unused, informed, past>>
<1> DEFINE n == requests[h].name
           r == rows[n]
           at == requests[h].at
           left == IF requests[h].read = 0 THEN r.attempts ELSE 0
<1>1. /\ Busy(h) /\ requests[h].op = "reset" /\ requests[h].step = "stamped"
      /\ n \in Names /\ at \in Time
      /\ r # Nothing /\ r \in Row /\ requests[h] \in Request
  BY CommittingForm DEF CommitReset
<1>2. rows \in [Names -> Row \cup {Nothing}]
  BY DEF Base, Types, TypeOK
<1>3. /\ r.password \in Nat /\ r.password + 1 \in 1 .. MaxPasswords
      /\ left \in 0 .. MaxAttempts
  BY <1>1, Numbers DEF CommitReset, Row
<1> DEFINE new == [r EXCEPT !.password = r.password + 1, !.changedAt = at,
                            !.recoveryUsed = TRUE, !.attempts = left]
<1>4. rows' = [rows EXCEPT ![n] = new]
  BY <1>1, <1>2 DEF CommitReset
<1> HIDE DEF left
<1>5. /\ new \in Row /\ new.password = r.password + 1 /\ new.changedAt = at
      /\ new.recoveryUsed /\ new.enrolled = r.enrolled
      /\ new.lastUsed = r.lastUsed
  BY <1>1, <1>3 DEF Row
<1>6. Nothing \notin Row
  BY KindsAssumption
<1> HIDE DEF new
<1>7. /\ Advances(n) /\ rows'[n] = new
  BY <1>1, <1>2, <1>3, <1>4, <1>5, <1>6 DEF Advances, OnlyRow
<1> DEFINE scope == IF r.enrolled THEN "full_access" ELSE "pending_totp"
<1>8. /\ scope \in {"full_access", "pending_totp"}
      /\ scope = "full_access" => r.enrolled
  OBVIOUS
<1>9. Answer(h, scope, r.password + 1, FALSE)
  BY DEF CommitReset
<1> HIDE DEF scope
<1>10. TokensGrow(h, scope, r.password + 1, FALSE)
  <2>1. FALSE \in BOOLEAN /\ scope \in {"pending_totp", "full_access", "password_reset"}
    BY <1>8
  <2> QED
    BY <1>1, <1>3, <1>9, <2>1, AnswerForm
<1>11. OthersGoOn(h, Others(h, AllOperations, n))
  BY EndForm DEF CommitReset, Base
<1> QED
  BY <1>1, <1>3, <1>5, <1>7, <1>8, <1>10, <1>11 DEF CommitReset
-----------------------------------------------------------------------------
(* Types, and that what requests and tokens are about is there.            *)

LEMMA InitBase == Init => Base
<1> SUFFICES ASSUME Init PROVE Base
  OBVIOUS
<1>1. past \in Past
  BY Numbers DEF Init, NoPast, Past
<1>2. TypeOK
  <2>1. /\ clock \in Time /\ rows \in [Names -> Row \cup {Nothing}]
        /\ invitations \in [Invitations -> {"none", "free", "expired", "used"}]
        /\ sets \in [Names -> 0 .. MaxSets]
        /\ requests \in [Threads -> Request \cup {Idle}]
    BY Numbers DEF Init, Time
  <2>2. tokens \subseteq Token /\ Cardinality(tokens) <= MaxTokens
    BY Numbers, FS_EmptySet DEF Init
  <2>3. past.respent \subseteq past.spent
    BY DEF Init, NoPast
  <2> QED
    BY <2>1, <2>2, <2>3 DEF Init, TypeOK
<1>3. RequestsFit /\ SetsFit
  BY DEF Init, RequestsFit, SetsFit, Busy
<1>4. TokensFit
  BY FS_EmptySet DEF Init, TokensFit
<1>5. TimesFit
  BY DEF Init, TimesFit, Busy
<1> QED
  BY <1>1, <1>2, <1>3, <1>4, <1>5 DEF Base, Types

(* Requests that only go on stay fit while accounts advance. *)
LEMMA RequestsStayFit ==
  ASSUME Base, NEW h \in Threads, NEW overtaken, OthersGoOn(h, overtaken),
         \A n \in Names : rows[n] # Nothing =>
           rows'[n] # Nothing /\ (rows[n].enrolled => rows'[n].enrolled),
         sets' \in [Names -> 0 .. MaxSets],
         \A n \in Names : sets[n] <= sets'[n],
         clock' \in Time, clock <= clock'
  PROVE  /\ RequestsFit'
         /\ \A g \in Threads : Busy(g)' =>
              /\ requests'[g].at <= clock'
              /\ requests'[g].op = "totp" /\ requests'[g].read # Never
                   => requests'[g].read <= clock'
<1>1. ASSUME NEW g \in Threads, Busy(g)'
      PROVE  /\ requests'[g].op = "register" => requests'[g].item \in Invitations
             /\ requests'[g].op # "register" => rows'[requests'[g].name] # Nothing
             /\ requests'[g].op = "recovery" => requests'[g].read < MaxAttempts
             /\ requests'[g].op = "totp" => requests'[g].read \in Time \cup {Never}
             /\ requests'[g].step = "loaded" =>
                  /\ requests'[g].item \in CodesOf(requests'[g].name)
                  /\ requests'[g].item[2] <= sets'[requests'[g].name]
             /\ requests'[g].op \in {"totp", "regenerate"} \/ requests'[g].step = "loaded"
                  => rows'[requests'[g].name].enrolled
             /\ requests'[g].at <= clock'
             /\ requests'[g].op = "totp" /\ requests'[g].read # Never
                  => requests'[g].read <= clock'
  <2> DEFINE r == requests[g]
             q == requests'[g]
  <2>1. /\ Busy(g) /\ r \in Request
        /\ q.op = r.op /\ q.step = r.step /\ q.name = r.name
        /\ q.item = r.item /\ q.read = r.read /\ q.at = r.at
    BY <1>1, BusyIsTyped DEF OthersGoOn, Base
  <2>2. /\ r.op = "register" => r.item \in Invitations
        /\ r.op # "register" => rows[r.name] # Nothing
        /\ r.op = "recovery" => r.read < MaxAttempts
        /\ r.op = "totp" => r.read \in Time \cup {Never}
        /\ r.step = "loaded" =>
             r.item \in CodesOf(r.name) /\ r.item[2] <= sets[r.name]
        /\ r.op \in {"totp", "regenerate"} \/ r.step = "loaded"
             => rows[r.name].enrolled
    BY <2>1 DEF Base, RequestsFit
  <2>3. /\ r.at <= clock
        /\ r.op = "totp" /\ r.read # Never => r.read <= clock
    BY <2>1 DEF Base, TimesFit
  <2>4. /\ r.name \in Names /\ r.at \in Time /\ clock \in Time
        /\ sets \in [Names -> 0 .. MaxSets]
    BY <2>1 DEF Request, Base, Types, TypeOK
  <2>5. r.step = "loaded" => r.item[2] \in Nat
    BY <2>2 DEF CodesOf, Codes
  <2> HIDE DEF r, q
  <2>6. /\ r.op # "register" => rows'[q.name] # Nothing
        /\ r.op \in {"totp", "regenerate"} \/ r.step = "loaded"
             => rows'[q.name].enrolled
    <3>1. r.step = "loaded" => r.op # "register"
      BY <2>1, <2>2, <2>4, KindsAssumption DEF CodesOf
    <3> QED
      BY <2>1, <2>2, <2>4, <3>1
  <2>7. r.step = "loaded" => q.item[2] <= sets'[q.name]
    BY <2>1, <2>2, <2>4, <2>5
  <2>8. /\ q.at <= clock'
        /\ q.op = "totp" /\ q.read # Never => q.read <= clock'
    BY <2>1, <2>2, <2>3, <2>4, Numbers DEF Time, Never
  <2> QED
    BY <2>1, <2>2, <2>6, <2>7, <2>8 DEF r, q
<1> QED
  BY <1>1 DEF RequestsFit, Busy

(* Tokens that are issued for an account that is there fit. *)
LEMMA TokensStayFit ==
  ASSUME Base, NEW h \in Threads, NEW scope, NEW proof, NEW late,
         Busy(h), TokensGrow(h, scope, proof, late),
         \A n \in Names : rows[n] # Nothing =>
           rows'[n] # Nothing /\ (rows[n].enrolled => rows'[n].enrolled),
         rows'[requests[h].name] # Nothing,
         scope = "full_access" => rows'[requests[h].name].enrolled,
         UNCHANGED clock
  PROVE  /\ tokens' \subseteq Token /\ Cardinality(tokens') <= MaxTokens
         /\ TokensFit' /\ \A t \in tokens' : t.at <= clock'
<1>1. ASSUME NEW t \in tokens'
      PROVE  /\ t \in Token /\ rows'[t.name] # Nothing
             /\ t.scope = "full_access" => rows'[t.name].enrolled
             /\ t.at <= clock'
  <2>1. CASE t \in tokens
    <3>1. /\ t \in Token /\ t.name \in Names /\ rows[t.name] # Nothing
          /\ t.scope = "full_access" => rows[t.name].enrolled
          /\ t.at <= clock
      BY <2>1 DEF Base, Types, TypeOK, Token, TokensFit, TimesFit
    <3> QED
      BY <3>1
  <2>2. CASE t \notin tokens
    <3>1. Issued(h, t, scope, proof, late)
      BY <2>2 DEF TokensGrow
    <3>2. clock \in Nat
      BY Numbers DEF Base, Types, TypeOK, Time
    <3> QED
      BY <3>1, <3>2 DEF Issued
  <2> QED
    BY <2>1, <2>2
<1> QED
  BY <1>1 DEF TokensGrow, TokensFit

(* A request fits when it begins, and when it goes on. *)
LEMMA PreparedFits ==
  ASSUME Base, NEW h \in Threads, NEW r, Preparation(h, r)
  PROVE  /\ r \in Request /\ r # Idle
         /\ r.op = "register" => r.item \in Invitations
         /\ r.op # "register" => rows[r.name] # Nothing
         /\ r.op = "recovery" => r.read < MaxAttempts
         /\ r.op = "totp" => r.read \in Time \cup {Never}
         /\ r.step = "loaded" =>
              r.item \in CodesOf(r.name) /\ r.item[2] <= sets[r.name]
         /\ r.op \in {"totp", "regenerate"} \/ r.step = "loaded"
              => rows[r.name].enrolled
         /\ r.at <= clock
         /\ r.op = "totp" /\ r.read # Never => r.read <= clock
<1> DEFINE q == requests[h]
<1>1. r \in Request /\ r # Idle /\ r.name \in Names
  <2>1. r \in Request
    BY DEF Preparation, Begun, Continued
  <2> QED
    BY <2>1, RequestsAreBusy DEF Request
<1>2. clock \in Time /\ clock \in Nat /\ 0 <= clock
  BY Numbers DEF Base, Types, TypeOK, Time
<1>3. CASE Begun(r)
  <2>1. r.step = "read" /\ r.at = 0
    BY <1>3 DEF Begun
  <2>2. /\ r.op = "register" => r.item \in Invitations
        /\ r.op # "register" => rows[r.name] # Nothing
        /\ r.op = "recovery" => r.read < MaxAttempts
    BY <1>3 DEF Begun
  <2>3. ASSUME r.op = "totp"
        PROVE  /\ r.read \in Time \cup {Never} /\ rows[r.name].enrolled
               /\ r.read # Never => r.read <= clock
    <3>1. /\ r.read = rows[r.name].lastUsed /\ rows[r.name] # Nothing
          /\ rows[r.name].enrolled
      BY <1>3, <2>3 DEF Begun
    <3>2. rows[r.name] \in Row
      BY <1>1, <3>1, RowIsTyped DEF Base
    <3> QED
      BY <1>1, <3>1, <3>2 DEF Row, Base, TimesFit
  <2>4. ASSUME r.op = "regenerate"
        PROVE  rows[r.name].enrolled
    BY <1>3, <2>4 DEF Begun, Shows, Base, TokensFit
  <2> QED
    BY <1>1, <1>2, <2>1, <2>2, <2>3, <2>4
<1>4. CASE Continued(h, r)
  <2>1. /\ Busy(h) /\ q \in Request /\ r.op = q.op /\ r.name = q.name
        /\ r.read = q.read
    BY <1>4, BusyIsTyped DEF Continued, Base
  <2>2. /\ q.op # "register" => rows[q.name] # Nothing
        /\ q.op = "recovery" => q.read < MaxAttempts
        /\ q.op = "totp" => q.read \in Time \cup {Never}
        /\ q.op \in {"totp", "regenerate"} => rows[q.name].enrolled
    BY <2>1 DEF Base, RequestsFit
  <2>3. /\ q.at <= clock
        /\ q.op = "totp" /\ q.read # Never => q.read <= clock
    BY <2>1 DEF Base, TimesFit
  <2>4. r.op # "register" /\ r.op # "totp" /\ r.op # "recovery"
    BY <1>4 DEF Continued
  <2>5. r.at <= clock
    BY <1>2, <1>4, <2>3 DEF Continued
  <2>6. ASSUME r.step = "loaded"
        PROVE  /\ r.item \in CodesOf(r.name) /\ r.item[2] <= sets[r.name]
               /\ rows[r.name].enrolled
    <3>1. r.item \in unused /\ r.item \in CodesOf(r.name)
      BY <1>4, <2>6 DEF Continued
    <3>2. r.item \in Codes /\ r.item[1] = r.name /\ r.item[2] <= sets[r.item[1]]
      BY <3>1 DEF CodesOf, Base, Types, TypeOK
    <3>3. r.item[2] \in Nat /\ r.item[2] > 0
      BY <3>2 DEF Codes
    <3>4. sets[r.name] \in Nat
      BY <1>1, Numbers DEF Base, Types, TypeOK
    <3> QED
      BY <1>1, <3>1, <3>2, <3>3, <3>4 DEF Base, SetsFit
  <2> QED
    BY <1>1, <2>1, <2>2, <2>3, <2>4, <2>5, <2>6
<1> QED
  BY <1>3, <1>4 DEF Preparation

LEMMA PreparationKeepsBase ==
  ASSUME Base, NEW h \in Threads, NEW r, Preparation(h, r)
  PROVE  Base'
<1>1. requests \in [Threads -> Request \cup {Idle}]
  BY DEF Base, Types, TypeOK
<1>2. /\ requests' = [requests EXCEPT ![h] = r]
      /\ UNCHANGED <<clock, rows, invitations, sets, unused, tokens, informed, past>>
  BY DEF Preparation, OnlyTheRequest
<1>3. /\ requests' \in [Threads -> Request \cup {Idle}]
      /\ requests'[h] = r
      /\ \A g \in Threads \ {h} : requests'[g] = requests[g]
  BY <1>1, <1>2, PreparedFits
<1>4. TypeOK'
  BY <1>2, <1>3 DEF Base, Types, TypeOK
<1>5. RequestsFit'
  <2>1. ASSUME NEW g \in Threads, Busy(g)'
        PROVE  /\ requests'[g].op = "register" => requests'[g].item \in Invitations
               /\ requests'[g].op # "register" => rows[requests'[g].name] # Nothing
               /\ requests'[g].op = "recovery" => requests'[g].read < MaxAttempts
               /\ requests'[g].op = "totp" => requests'[g].read \in Time \cup {Never}
               /\ requests'[g].step = "loaded" =>
                    /\ requests'[g].item \in CodesOf(requests'[g].name)
                    /\ requests'[g].item[2] <= sets[requests'[g].name]
               /\ requests'[g].op \in {"totp", "regenerate"}
                    \/ requests'[g].step = "loaded"
                    => rows[requests'[g].name].enrolled
    <3>1. CASE g = h
      BY <1>3, <3>1, PreparedFits
    <3>2. CASE g # h
      <4>1. requests'[g] = requests[g] /\ Busy(g)
        BY <1>3, <2>1, <3>2 DEF Busy
      <4> QED
        BY <4>1 DEF Base, RequestsFit
    <3> QED
      BY <3>1, <3>2
  <2> QED
    BY <1>2, <2>1 DEF RequestsFit, Busy
<1>6. TimesFit'
  <2>1. ASSUME NEW g \in Threads, Busy(g)'
        PROVE  /\ requests'[g].at <= clock
               /\ requests'[g].op = "totp" /\ requests'[g].read # Never
                    => requests'[g].read <= clock
    <3>1. CASE g = h
      BY <1>3, <3>1, PreparedFits
    <3>2. CASE g # h
      BY <1>3, <2>1, <3>2 DEF Base, TimesFit, Busy
    <3> QED
      BY <3>1, <3>2
  <2> QED
    BY <1>2, <2>1 DEF Base, TimesFit, Busy
<1> QED
  BY <1>2, <1>4, <1>5, <1>6 DEF Base, Types, TokensFit, SetsFit

(* Requests are dropped one at a time or all at once. *)
Dropped ==
  /\ \E h \in Threads : OthersGoOn(h, {})
  /\ UNCHANGED <<clock, rows, sets, unused, tokens, informed, past>>
  /\ \A i \in Invitations : invitations'[i] = "used" <=> invitations[i] = "used"
  /\ invitations' \in [Invitations -> {"none", "free", "expired", "used"}]

LEMMA DropForm ==
  ASSUME Base, (\E h \in Threads : Fail(h)) \/ Restart
  PROVE  Dropped
<1>1. ASSUME NEW h \in Threads, Fail(h)
      PROVE  Dropped
  <2>1. OthersGoOn(h, {})
    BY <1>1, EndForm DEF Fail, Base
  <2> QED
    BY <1>1, <2>1 DEF Fail, OnlyTheRequest, Dropped, Base, Types, TypeOK
<1>2. CASE Restart
  <2>1. \E h \in Threads : OthersGoOn(h, {})
    BY <1>2 DEF Restart, OthersGoOn, Busy
  <2>2. /\ \A i \in Invitations : invitations'[i] = "used" <=> invitations[i] = "used"
        /\ invitations' \in [Invitations -> {"none", "free", "expired", "used"}]
    BY <1>2 DEF Restart, Bootstrap, Base, Types, TypeOK
  <2> QED
    BY <1>2, <2>1, <2>2 DEF Restart, Dropped
<1> QED
  BY <1>1, <1>2

(* What a commit has to see to. *)
RowsFit ==
  /\ rows' \in [Names -> Row \cup {Nothing}]
  /\ \A n \in Names :
       /\ rows[n] # Nothing =>
            rows'[n] # Nothing /\ (rows[n].enrolled => rows'[n].enrolled)
       /\ rows'[n] # Nothing =>
            /\ rows'[n].lastUsed # Never => rows'[n].lastUsed <= clock
            /\ rows'[n].changedAt # Never => rows'[n].changedAt <= clock

CodesGrow ==
  /\ sets' \in [Names -> 0 .. MaxSets]
  /\ \A n \in Names : sets[n] <= sets'[n]
  /\ unused' \subseteq {c \in Codes : c[2] <= sets'[c[1]]}
  /\ \A n \in Names : sets'[n] > 0 => rows'[n] # Nothing /\ rows'[n].enrolled

LEMMA CommitKeepsBase ==
  ASSUME Base, NEW h \in Threads, NEW overtaken, OthersGoOn(h, overtaken),
         RowsFit, CodesGrow, UNCHANGED clock,
         invitations' \in [Invitations -> {"none", "free", "expired", "used"}],
         informed' \subseteq {n \in Names : rows'[n] # Nothing},
         past' \in Past, past'.respent \subseteq past'.spent,
         tokens' \subseteq Token, Cardinality(tokens') <= MaxTokens,
         TokensFit', \A t \in tokens' : t.at <= clock'
  PROVE  Base'
<1>1. clock \in Time /\ clock <= clock
  BY Numbers DEF Base, Types, TypeOK, Time
<1>2. /\ RequestsFit'
      /\ \A g \in Threads : Busy(g)' =>
           /\ requests'[g].at <= clock'
           /\ requests'[g].op = "totp" /\ requests'[g].read # Never
                => requests'[g].read <= clock'
  BY <1>1, RequestsStayFit DEF RowsFit, CodesGrow
<1>3. TimesFit'
  BY <1>2 DEF TimesFit, RowsFit, Busy
<1>4. SetsFit'
  BY DEF SetsFit, CodesGrow
<1>5. TypeOK'
  BY <1>1 DEF TypeOK, RowsFit, CodesGrow, OthersGoOn
<1> QED
  BY <1>2, <1>3, <1>4, <1>5 DEF Base, Types

LEMMA RowsUnchangedFit ==
  ASSUME Base, UNCHANGED rows
  PROVE  RowsFit
  BY DEF Base, Types, TypeOK, TimesFit, RowsFit

(* The columns that say when a row was written. *)
LEMMA OneRowFits ==
  ASSUME Base, NEW n \in Names, Advances(n), rows[n] # Nothing,
         rows'[n].lastUsed # Never => rows'[n].lastUsed <= clock,
         rows'[n].changedAt # Never => rows'[n].changedAt <= clock
  PROVE  RowsFit
<1>1. /\ rows' \in [Names -> Row \cup {Nothing}] /\ rows'[n] # Nothing
      /\ \A m \in Names \ {n} : rows'[m] = rows[m]
      /\ rows[n].enrolled => rows'[n].enrolled
  BY DEF Advances, OnlyRow
<1> QED
  BY <1>1 DEF Base, TimesFit, RowsFit

LEMMA CodesUnchangedGrow ==
  ASSUME Base, RowsFit, UNCHANGED sets, unused' \subseteq unused
  PROVE  CodesGrow
<1>1. \A n \in Names : sets[n] \in 0 .. MaxSets
  BY DEF Base, Types, TypeOK
<1>2. \A n \in Names : sets[n] <= sets[n]
  BY <1>1, Numbers
<1>3. \A n \in Names : sets'[n] > 0 => rows'[n] # Nothing /\ rows'[n].enrolled
  BY DEF Base, SetsFit, RowsFit
<1> QED
  BY <1>2, <1>3 DEF Base, Types, TypeOK, CodesGrow

(* A new set of codes: its number is the next one, and it is unused. *)
LEMMA AddSetForm ==
  ASSUME Base, NEW h \in Threads, Busy(h), NEW left, left \subseteq unused,
         AddSet(h, left), RowsFit, rows'[requests[h].name] # Nothing,
         rows'[requests[h].name].enrolled
  PROVE  LET n == requests[h].name
         IN  /\ n \in Names /\ sets[n] \in Nat
             /\ sets' = [sets EXCEPT ![n] = sets[n] + 1]
             /\ sets'[n] = sets[n] + 1
             /\ sets[n] + 1 \in 1 .. MaxSets
             /\ unused' = left \cup SetOf(n, sets[n] + 1)
             /\ CodesGrow
<1> DEFINE n == requests[h].name
<1>1. n \in Names
  BY BusyIsTyped DEF Base, Request
<1>2. /\ sets \in [Names -> 0 .. MaxSets]
      /\ unused \subseteq {c \in Codes : c[2] <= sets[c[1]]}
  BY DEF Base, Types, TypeOK
<1>3. /\ sets[n] \in Nat /\ sets[n] < MaxSets
      /\ sets' = [sets EXCEPT ![n] = sets[n] + 1]
      /\ unused' = left \cup SetOf(n, sets[n] + 1)
  <2>1. SetsLeft(n) => sets[n] < MaxSets
    BY DEF SetsLeft
  <2>2. sets[n] \in Nat
    BY <1>1, <1>2, Numbers
  <2> QED
    BY <2>1, <2>2 DEF AddSet
<1>4. /\ sets' \in [Names -> 0 .. MaxSets] /\ sets'[n] = sets[n] + 1
      /\ \A m \in Names \ {n} : sets'[m] = sets[m]
  BY <1>1, <1>2, <1>3, Numbers
<1>5. ASSUME NEW m \in Names
      PROVE  sets[m] \in Nat /\ sets[m] <= sets'[m]
  BY <1>2, <1>3, <1>4, Numbers
<1>6. ASSUME NEW c \in unused'
      PROVE  c \in Codes /\ c[2] <= sets'[c[1]]
  <2>1. CASE c \in unused
    <3>1. c \in Codes /\ c[2] <= sets[c[1]]
      BY <1>2, <2>1
    <3>2. c[1] \in Names /\ c[2] \in Nat
      BY <3>1 DEF Codes
    <3>3. sets[c[1]] <= sets'[c[1]] /\ sets[c[1]] \in Nat /\ sets'[c[1]] \in Nat
      BY <1>4, <1>5, <3>2
    <3> QED
      BY <3>1, <3>2, <3>3
  <2>2. CASE c \in SetOf(n, sets[n] + 1)
    BY <1>3, <1>4, <2>2 DEF SetOf
  <2> QED
    BY <1>3, <1>6, <2>1, <2>2
<1>7. \A m \in Names : sets'[m] > 0 => rows'[m] # Nothing /\ rows'[m].enrolled
  BY <1>1, <1>4 DEF Base, SetsFit, RowsFit
<1>8. CodesGrow
  BY <1>4, <1>5, <1>6, <1>7 DEF CodesGrow
<1> QED
  BY <1>1, <1>3, <1>4, <1>8, Numbers

LEMMA RegistrationKeepsBase ==
  ASSUME Base, NEW h \in Threads, CommitRegistration(h)
  PROVE  Base'
<1> DEFINE n == requests[h].name
<1>1. n \in Names /\ Busy(h)
  BY CommittingForm DEF CommitRegistration
<1>2. /\ requests[h].item \in Invitations /\ rows[n] = Nothing
      /\ OnlyRow(n) /\ rows'[n] = NewRow /\ past' \in Past
      /\ invitations' = [invitations EXCEPT ![requests[h].item] = "used"]
      /\ past'.spent = past.spent \cup {requests[h].item}
      /\ past'.respent = past.respent \cup ({requests[h].item} \cap past.spent)
      /\ TokensGrow(h, "pending_totp", 1, FALSE)
      /\ informed' \subseteq informed \cup {n} /\ OthersGoOn(h, {})
      /\ UNCHANGED <<clock, sets, unused>>
  BY RegistrationForm
<1>3. NewRow.lastUsed = Never /\ NewRow.changedAt = Never
  BY DEF NewRow
<1>4. RowsFit
  BY <1>1, <1>2, <1>3 DEF OnlyRow, Base, TimesFit, RowsFit
<1>5. CodesGrow
  BY <1>2, <1>4, CodesUnchangedGrow
<1>6. /\ tokens' \subseteq Token /\ Cardinality(tokens') <= MaxTokens
      /\ TokensFit' /\ \A t \in tokens' : t.at <= clock'
  BY <1>1, <1>2, <1>4, TokensStayFit DEF RowsFit, OnlyRow
<1>7. invitations' \in [Invitations -> {"none", "free", "expired", "used"}]
  BY <1>2 DEF Base, Types, TypeOK
<1>8. informed' \subseteq {m \in Names : rows'[m] # Nothing}
  BY <1>1, <1>2, <1>4 DEF Base, Types, TypeOK, RowsFit, OnlyRow
<1>9. past'.respent \subseteq past'.spent
  BY <1>2 DEF Base, Types, TypeOK
<1> QED
  BY <1>2, <1>4, <1>5, <1>6, <1>7, <1>8, <1>9, CommitKeepsBase

(* The commits that leave the rows alone. *)
LEMMA EntryKeepsBase ==
  ASSUME Base, NEW h \in Threads, Login(h) \/ IssueReset(h) \/ SpendCode(h)
  PROVE  Base'
<1> DEFINE n == requests[h].name
<1>1. n \in Names /\ Busy(h) /\ rows[n] # Nothing
  BY CommittingForm DEF Login, IssueReset, SpendCode
<1>2. /\ OthersGoOn(h, {})
      /\ UNCHANGED <<clock, rows, invitations, sets, informed>>
      /\ past' \in Past /\ past'.respent \subseteq past'.spent
      /\ unused' \subseteq unused
      /\ \E scope : /\ TokensGrow(h, scope, requests[h].proof, requests[h].late)
                    /\ scope = "full_access" => rows[n].enrolled
  <2>1. CASE Login(h) \/ IssueReset(h)
    BY <2>1, LoginForm DEF Base, Types, TypeOK
  <2>2. CASE SpendCode(h)
    BY <2>2, SpendingForm DEF Base, Types, TypeOK
  <2> QED
    BY <2>1, <2>2
<1>3. RowsFit
  BY <1>2, RowsUnchangedFit
<1>4. CodesGrow
  BY <1>2, <1>3, CodesUnchangedGrow
<1>5. PICK scope : /\ TokensGrow(h, scope, requests[h].proof, requests[h].late)
                   /\ scope = "full_access" => rows[n].enrolled
  BY <1>2
<1>6. /\ tokens' \subseteq Token /\ Cardinality(tokens') <= MaxTokens
      /\ TokensFit' /\ \A t \in tokens' : t.at <= clock'
  BY <1>1, <1>2, <1>5, TokensStayFit
<1>7. /\ invitations' \in [Invitations -> {"none", "free", "expired", "used"}]
      /\ informed' \subseteq {m \in Names : rows'[m] # Nothing}
  BY <1>2 DEF Base, Types, TypeOK
<1> QED
  BY <1>2, <1>3, <1>4, <1>6, <1>7, CommitKeepsBase

(* The tokens of a commit that issues none. *)
LEMMA TokensUnchangedFit ==
  ASSUME Base, RowsFit, tokens' \subseteq tokens, UNCHANGED clock
  PROVE  /\ tokens' \subseteq Token /\ Cardinality(tokens') <= MaxTokens
         /\ TokensFit' /\ \A t \in tokens' : t.at <= clock'
<1>1. IsFiniteSet(tokens) /\ Cardinality(tokens) <= MaxTokens
  BY DEF Base, TokensFit, Types, TypeOK
<1>2. IsFiniteSet(tokens') /\ Cardinality(tokens') <= Cardinality(tokens)
  BY <1>1, FS_Subset
<1>3. Cardinality(tokens') \in Nat /\ Cardinality(tokens) \in Nat
  BY <1>1, <1>2, FS_CardinalityType
<1>4. Cardinality(tokens') <= MaxTokens
  BY <1>1, <1>2, <1>3, Numbers
<1>5. \A t \in tokens' :
        /\ t \in Token /\ rows'[t.name] # Nothing /\ t.at <= clock
        /\ t.scope = "full_access" => rows'[t.name].enrolled
  BY DEF Base, Types, TypeOK, Token, TokensFit, TimesFit, RowsFit
<1> QED
  BY <1>2, <1>4, <1>5 DEF TokensFit

LEMMA EnrolmentKeepsBase ==
  ASSUME Base, NEW h \in Threads, CommitEnrolment(h)
  PROVE  Base'
<1> DEFINE n == requests[h].name
<1>1. /\ Busy(h) /\ n \in Names /\ rows[n] # Nothing /\ Advances(n)
      /\ rows'[n].enrolled /\ rows'[n].lastUsed = requests[h].at
      /\ rows'[n].changedAt = rows[n].changedAt
      /\ past' \in Past /\ past'.respent \subseteq past'.spent
      /\ AddSet(h, unused) /\ OthersGoOn(h, SetMakers(h))
      /\ UNCHANGED <<clock, invitations, tokens, informed>>
  BY EnrolmentForm DEF Base, Types, TypeOK
<1>2. RowsFit
  <2>1. requests[h].at <= clock
    BY <1>1 DEF Base, TimesFit
  <2>2. rows[n].changedAt # Never => rows[n].changedAt <= clock
    BY <1>1 DEF Base, TimesFit
  <2> QED
    BY <1>1, <2>1, <2>2, OneRowFits
<1>3. CodesGrow
  BY <1>1, <1>2, AddSetForm DEF Advances, OnlyRow
<1>4. /\ invitations' \in [Invitations -> {"none", "free", "expired", "used"}]
      /\ informed' \subseteq {m \in Names : rows'[m] # Nothing}
  BY <1>1, <1>2 DEF Base, Types, TypeOK, RowsFit
<1> QED
  BY <1>1, <1>2, <1>3, <1>4, TokensUnchangedFit, CommitKeepsBase

LEMMA RegenerationKeepsBase ==
  ASSUME Base, NEW h \in Threads, CommitCodes(h)
  PROVE  Base'
<1> DEFINE n == requests[h].name
<1>1. /\ Busy(h) /\ n \in Names /\ rows[n] # Nothing /\ rows[n].enrolled
      /\ past' \in Past /\ past'.respent \subseteq past'.spent
      /\ AddSet(h, unused \ requests[h].marked) /\ OthersGoOn(h, SetMakers(h))
      /\ UNCHANGED <<clock, rows, invitations, tokens, informed>>
  BY RegenerationForm DEF Base, Types, TypeOK
<1>2. RowsFit
  BY <1>1, RowsUnchangedFit
<1>3. CodesGrow
  BY <1>1, <1>2, AddSetForm
<1>4. /\ invitations' \in [Invitations -> {"none", "free", "expired", "used"}]
      /\ informed' \subseteq {m \in Names : rows'[m] # Nothing}
  BY <1>1 DEF Base, Types, TypeOK
<1> QED
  BY <1>1, <1>2, <1>3, <1>4, TokensUnchangedFit, CommitKeepsBase

LEMMA VerificationKeepsBase ==
  ASSUME Base, NEW h \in Threads, VerifyTotp(h)
  PROVE  Base'
<1> DEFINE n == requests[h].name
<1>1. /\ Busy(h) /\ n \in Names /\ rows[n] # Nothing /\ Advances(n)
      /\ rows'[n].enrolled /\ rows'[n].lastUsed = clock
      /\ rows'[n].changedAt = rows[n].changedAt
      /\ past' \in Past /\ past'.respent \subseteq past'.spent
      /\ TokensGrow(h, "full_access", requests[h].proof, requests[h].late)
      /\ OthersGoOn(h, {})
      /\ UNCHANGED <<clock, invitations, sets, unused, informed>>
  BY VerificationForm DEF Base, Types, TypeOK
<1>2. RowsFit
  <2>1. clock <= clock
    BY Numbers DEF Base, Types, TypeOK, Time
  <2>2. rows[n].changedAt # Never => rows[n].changedAt <= clock
    BY <1>1 DEF Base, TimesFit
  <2> QED
    BY <1>1, <2>1, <2>2, OneRowFits
<1>3. CodesGrow
  BY <1>1, <1>2, CodesUnchangedGrow
<1>4. /\ invitations' \in [Invitations -> {"none", "free", "expired", "used"}]
      /\ informed' \subseteq {m \in Names : rows'[m] # Nothing}
  BY <1>1, <1>2 DEF Base, Types, TypeOK, RowsFit
<1>5. /\ tokens' \subseteq Token /\ Cardinality(tokens') <= MaxTokens
      /\ TokensFit' /\ \A t \in tokens' : t.at <= clock'
  BY <1>1, <1>2, TokensStayFit DEF RowsFit, Advances, OnlyRow
<1> QED
  BY <1>1, <1>2, <1>3, <1>4, <1>5, CommitKeepsBase

LEMMA RecoveryKeepsBase ==
  ASSUME Base, NEW h \in Threads, CountFailure(h) \/ CommitReset(h)
  PROVE  Base'
<1> DEFINE n == requests[h].name
<1>1. /\ Busy(h) /\ n \in Names /\ rows[n] # Nothing /\ Advances(n)
      /\ rows'[n].lastUsed = rows[n].lastUsed
      /\ rows'[n].changedAt \in {rows[n].changedAt, requests[h].at}
      /\ past' \in Past /\ past'.respent \subseteq past'.spent
      /\ \E overtaken : OthersGoOn(h, overtaken)
      /\ UNCHANGED <<clock, invitations, sets, unused, informed>>
  <2>1. CASE CountFailure(h)
    BY <2>1, FailureForm DEF Base, Types, TypeOK
  <2>2. CASE CommitReset(h)
    BY <2>2, ResetForm DEF Base, Types, TypeOK
  <2> QED
    BY <2>1, <2>2
<1>2. RowsFit
  <2>1. requests[h].at <= clock
    BY <1>1 DEF Base, TimesFit
  <2>2. /\ rows[n].changedAt # Never => rows[n].changedAt <= clock
        /\ rows[n].lastUsed # Never => rows[n].lastUsed <= clock
    BY <1>1 DEF Base, TimesFit
  <2> QED
    BY <1>1, <2>1, <2>2, OneRowFits
<1>3. CodesGrow
  BY <1>1, <1>2, CodesUnchangedGrow
<1>4. /\ invitations' \in [Invitations -> {"none", "free", "expired", "used"}]
      /\ informed' \subseteq {m \in Names : rows'[m] # Nothing}
  BY <1>1, <1>2 DEF Base, Types, TypeOK, RowsFit
<1>5. /\ tokens' \subseteq Token /\ Cardinality(tokens') <= MaxTokens
      /\ TokensFit' /\ \A t \in tokens' : t.at <= clock'
  <2>1. CASE CountFailure(h)
    BY <1>1, <1>2, <2>1, FailureForm, TokensUnchangedFit
  <2>2. CASE CommitReset(h)
    <3>1. PICK scope \in {"full_access", "pending_totp"} :
            /\ scope = "full_access" => rows[n].enrolled
            /\ TokensGrow(h, scope, rows[n].password + 1, FALSE)
      BY <2>2, ResetForm
    <3> QED
      BY <1>1, <1>2, <3>1, TokensStayFit DEF RowsFit, Advances, OnlyRow
  <2> QED
    BY <2>1, <2>2
<1>6. PICK overtaken : OthersGoOn(h, overtaken)
  BY <1>1
<1> QED
  BY <1>1, <1>2, <1>3, <1>4, <1>5, <1>6, CommitKeepsBase

(* Every step prepares a request, drops some, commits one, or is time's. *)
Commit(h) ==
  \/ CommitRegistration(h) \/ Login(h) \/ VerifyTotp(h) \/ CommitEnrolment(h)
  \/ SpendCode(h) \/ CommitCodes(h) \/ CountFailure(h) \/ IssueReset(h)
  \/ CommitReset(h)

Passing ==
  \/ \E i \in Invitations : Expire(i)
  \/ \E t \in tokens : Discard(t)
  \/ Tick

LEMMA StepCases ==
  ASSUME Base, Next
  PROVE  \/ \E h \in Threads : \E r : Preparation(h, r)
         \/ Dropped
         \/ \E h \in Threads : Commit(h)
         \/ Passing
<1>1. CASE Restart
  BY <1>1, DropForm
<1>2. CASE (\E i \in Invitations : Expire(i)) \/ (\E t \in tokens : Discard(t)) \/ Tick
  BY <1>2 DEF Passing
<1>3. ASSUME NEW h \in Threads,
             Register(h) \/ Enter(h) \/ BackupCodes(h) \/ Recovery(h) \/ Fail(h)
      PROVE  (\E r : Preparation(h, r)) \/ Commit(h) \/ Dropped
  <2>1. CASE Fail(h)
    BY <2>1, DropForm
  <2>2. CASE Register(h)
    BY <2>2, InvitationRead DEF Register, Commit
  <2>3. CASE Enter(h)
    BY <2>3, PasswordChecked, TokenShown DEF Enter, Commit
  <2>4. CASE BackupCodes(h)
    BY <2>4, TokenShown, RequestGoesOn DEF BackupCodes, Commit
  <2>5. CASE Recovery(h)
    BY <2>5, PasswordChecked, TokenShown, RequestGoesOn DEF Recovery, Commit
  <2> QED
    BY <1>3, <2>1, <2>2, <2>3, <2>4, <2>5
<1> QED
  BY <1>1, <1>2, <1>3 DEF Next

LEMMA BaseStep == Base /\ [Next]_vars => Base'
<1> SUFFICES ASSUME Base, [Next]_vars PROVE Base'
  OBVIOUS
<1>1. ASSUME NEW h \in Threads, NEW r, Preparation(h, r)
      PROVE  Base'
  BY <1>1, PreparationKeepsBase
<1>2. CASE Dropped
  <2>1. PICK h \in Threads : OthersGoOn(h, {})
    BY <1>2 DEF Dropped
  <2>2. RowsFit
    BY <1>2, RowsUnchangedFit DEF Dropped
  <2>3. CodesGrow
    BY <1>2, <2>2, CodesUnchangedGrow DEF Dropped
  <2>4. /\ past' \in Past /\ past'.respent \subseteq past'.spent
        /\ informed' \subseteq {m \in Names : rows'[m] # Nothing}
    BY <1>2 DEF Dropped, Base, Types, TypeOK
  <2> QED
    BY <1>2, <2>1, <2>2, <2>3, <2>4, TokensUnchangedFit, CommitKeepsBase
    DEF Dropped
<1>3. ASSUME NEW h \in Threads, Commit(h)
      PROVE  Base'
  BY <1>3, RegistrationKeepsBase, EntryKeepsBase, EnrolmentKeepsBase,
     RegenerationKeepsBase, VerificationKeepsBase, RecoveryKeepsBase DEF Commit
<1>4. ASSUME NEW i \in Invitations, Expire(i)
      PROVE  Base'
  <2>1. TypeOK'
    BY <1>4 DEF Expire, Base, Types, TypeOK
  <2> QED
    BY <1>4, <2>1
    DEF Expire, Base, Types, RequestsFit, TokensFit, SetsFit, TimesFit, Busy
<1>5. ASSUME NEW t \in tokens, Discard(t)
      PROVE  Base'
  <2>1. /\ tokens' \subseteq Token /\ Cardinality(tokens') <= MaxTokens
        /\ TokensFit' /\ \A u \in tokens' : u.at <= clock'
    BY <1>5, RowsUnchangedFit, TokensUnchangedFit DEF Discard
  <2>2. TypeOK'
    BY <1>5, <2>1 DEF Discard, Base, Types, TypeOK
  <2> QED
    BY <1>5, <2>1, <2>2
    DEF Discard, Base, Types, RequestsFit, SetsFit, TimesFit, Busy
<1>6. CASE Tick
  <2>1. clock \in Nat /\ clock' \in Time /\ clock' = clock + 1
    BY <1>6, Numbers DEF Tick, Base, Types, TypeOK, Time
  <2>2. TypeOK'
    BY <1>6, <2>1 DEF Tick, Base, Types, TypeOK
  <2>3. TimesFit'
    <3>1. ASSUME NEW a \in Nat, a <= clock
          PROVE  a <= clock'
      BY <2>1, <3>1
    <3>2. ASSUME NEW n \in Names, rows[n] # Nothing
          PROVE  /\ rows[n].lastUsed # Never => rows[n].lastUsed <= clock'
                 /\ rows[n].changedAt # Never => rows[n].changedAt <= clock'
      BY <2>1, <3>1, <3>2, RowIsTyped, Numbers DEF Base, TimesFit, Row, Time
    <3>3. \A t \in tokens : t.at <= clock'
      BY <2>1, <3>1 DEF Base, Types, TypeOK, Token, TimesFit, Time
    <3>4. ASSUME NEW g \in Threads, Busy(g)
          PROVE  /\ requests[g].at <= clock'
                 /\ requests[g].op = "totp" /\ requests[g].read # Never
                      => requests[g].read <= clock'
      <4>1. /\ requests[g].at \in Nat
            /\ requests[g].op = "totp" /\ requests[g].read # Never
                 => requests[g].read \in Nat
        BY <3>4, BusyIsTyped, Numbers DEF Base, RequestsFit, Request, Time
      <4> QED
        BY <3>1, <3>4, <4>1 DEF Base, TimesFit
    <3> QED
      BY <1>6, <3>2, <3>3, <3>4 DEF Tick, TimesFit, Busy
  <2> QED
    BY <1>6, <2>2, <2>3
    DEF Tick, Base, Types, RequestsFit, TokensFit, SetsFit, Busy
<1>7. CASE UNCHANGED vars
  <2>1. TypeOK'
    BY <1>7 DEF vars, Base, Types, TypeOK
  <2> QED
    BY <1>7, <2>1
    DEF vars, Base, Types, RequestsFit, TokensFit, SetsFit, TimesFit, Busy
<1> QED
  BY <1>1, <1>2, <1>3, <1>4, <1>5, <1>6, <1>7, StepCases DEF Passing

LEMMA BaseHolds == Spec => []Base
  BY InitBase, BaseStep, PTL DEF Spec

(* Every column, request and token keeps its type, whichever requests      *)
(* overlap: nobody is counted past the lock, nothing refers to an account  *)
(* that is not there, no backup code comes from a set that was never made. *)
THEOREM AccountsTypes == Spec => []TypeOK
<1>1. Base => TypeOK
  BY DEF Base, Types
<1> QED
  BY <1>1, BaseHolds, PTL
-----------------------------------------------------------------------------
(* Accounts and invitations. *)

(* What holds of an account goes on to hold. *)
RowsAdvance ==
  \A n \in Names : rows[n] # Nothing =>
    /\ rows'[n] # Nothing
    /\ rows[n].enrolled => rows'[n].enrolled
    /\ rows[n].recoveryUsed => rows'[n].recoveryUsed
    /\ rows[n].password <= rows'[n].password

LEMMA UnchangedAdvance ==
  ASSUME Base, UNCHANGED rows
  PROVE  RowsAdvance
<1>1. ASSUME NEW n \in Names, rows[n] # Nothing
      PROVE  rows[n].password <= rows[n].password
  <2>1. rows[n].password \in Nat
    BY <1>1, RowIsTyped DEF Base, Row
  <2> QED
    BY <2>1
<1> QED
  BY <1>1 DEF RowsAdvance

LEMMA OneAdvances ==
  ASSUME Base, NEW n \in Names, OnlyRow(n), rows[n] = Nothing \/ Advances(n)
  PROVE  RowsAdvance
<1>1. ASSUME NEW m \in Names, rows[m] # Nothing
      PROVE  rows[m].password <= rows[m].password
  <2>1. rows[m].password \in Nat
    BY <1>1, RowIsTyped DEF Base, Row
  <2> QED
    BY <2>1
<1> QED
  BY <1>1 DEF RowsAdvance, Advances, OnlyRow

(* Only a registration makes an account and uses an invitation. *)
LEMMA CommitsOfAccounts ==
  ASSUME Base, NEW h \in Threads, Commit(h), ~CommitRegistration(h)
  PROVE  /\ RowsAdvance
         /\ \A n \in Names : rows'[n] = Nothing <=> rows[n] = Nothing
         /\ UNCHANGED invitations
         /\ past'.buyers = past.buyers
<1>1. CASE Login(h) \/ IssueReset(h)
  BY <1>1, LoginForm, UnchangedAdvance
<1>2. CASE SpendCode(h)
  BY <1>2, SpendingForm, UnchangedAdvance
<1>3. CASE CommitCodes(h)
  BY <1>3, RegenerationForm, UnchangedAdvance
<1>4. ASSUME NEW n \in Names, rows[n] # Nothing, Advances(n)
      PROVE  /\ RowsAdvance
             /\ \A m \in Names : rows'[m] = Nothing <=> rows[m] = Nothing
  BY <1>4, OneAdvances DEF Advances, OnlyRow
<1>5. CASE CommitEnrolment(h)
  BY <1>4, <1>5, EnrolmentForm
<1>6. CASE VerifyTotp(h)
  BY <1>4, <1>6, VerificationForm
<1>7. CASE CountFailure(h)
  BY <1>4, <1>7, FailureForm
<1>8. CASE CommitReset(h)
  BY <1>4, <1>8, ResetForm
<1> QED
  BY <1>1, <1>2, <1>3, <1>5, <1>6, <1>7, <1>8 DEF Commit

(* The codes that become unused are those of a set that was just added. *)
LEMMA NewCodes ==
  ASSUME Base, NEW h \in Threads, Commit(h)
  PROVE  \A c \in unused' \ unused : c[2] > sets[c[1]]
<1> DEFINE n == requests[h].name
<1>1. ASSUME NEW left, left \subseteq unused, AddSet(h, left), Busy(h)
      PROVE  \A c \in unused' \ unused : c[2] > sets[c[1]]
  <2>1. n \in Names /\ sets[n] \in Nat
    BY <1>1, BusyIsTyped, Numbers DEF Base, Types, TypeOK, Request
  <2>2. unused' = left \cup SetOf(n, sets[n] + 1)
    BY <1>1 DEF AddSet
  <2> QED
    BY <1>1, <2>1, <2>2 DEF SetOf
<1>2. CASE CommitEnrolment(h)
  BY <1>1, <1>2, EnrolmentForm
<1>3. CASE CommitCodes(h)
  BY <1>1, <1>3, RegenerationForm
<1>4. CASE CommitRegistration(h)
  BY <1>4, RegistrationForm
<1>5. CASE Login(h) \/ IssueReset(h)
  BY <1>5, LoginForm
<1>6. CASE VerifyTotp(h) \/ SpendCode(h)
  BY <1>6, VerificationForm, SpendingForm
<1>7. CASE CountFailure(h) \/ CommitReset(h)
  BY <1>7, FailureForm, ResetForm
<1> QED
  BY <1>2, <1>3, <1>4, <1>5, <1>6, <1>7 DEF Commit

(* A late commit takes nothing back: whatever a request read before other  *)
(* requests committed, its own commit only writes the columns it has       *)
(* changed, and those only ever in one direction.                          *)
THEOREM CommitsAdvance == Spec => AccountsOnlyAdvance
<1> DEFINE Advance ==
      /\ \A n \in Names : rows[n] # Nothing =>
           /\ rows'[n] # Nothing
           /\ rows[n].enrolled => rows'[n].enrolled
           /\ rows[n].recoveryUsed => rows'[n].recoveryUsed
           /\ rows[n].password <= rows'[n].password
      /\ \A i \in Invitations : invitations[i] = "used" => invitations'[i] = "used"
      /\ \A c \in unused' \ unused : c[2] > sets[c[1]]
<1>1. Base /\ Next => Advance
  <2> SUFFICES ASSUME Base, Next
               PROVE  /\ RowsAdvance
                      /\ \A i \in Invitations :
                           invitations[i] = "used" => invitations'[i] = "used"
                      /\ \A c \in unused' \ unused : c[2] > sets[c[1]]
    BY DEF RowsAdvance
  <2>1. ASSUME NEW h \in Threads, NEW r, Preparation(h, r)
        PROVE  UNCHANGED <<rows, invitations, unused>>
    BY <2>1 DEF Preparation, OnlyTheRequest
  <2>2. CASE Dropped
    BY <2>2, UnchangedAdvance DEF Dropped
  <2>3. ASSUME NEW h \in Threads, CommitRegistration(h)
        PROVE  /\ RowsAdvance /\ UNCHANGED unused
               /\ \A i \in Invitations :
                    invitations[i] = "used" => invitations'[i] = "used"
    <3>1. requests[h].name \in Names
      BY <2>3, CommittingForm DEF CommitRegistration
    <3>2. RowsAdvance /\ UNCHANGED unused
      BY <2>3, <3>1, RegistrationForm, OneAdvances
    <3>3. invitations' = [invitations EXCEPT ![requests[h].item] = "used"]
      BY <2>3, RegistrationForm
    <3>4. invitations \in [Invitations -> {"none", "free", "expired", "used"}]
      BY DEF Base, Types, TypeOK
    <3> QED
      BY <3>2, <3>3, <3>4
  <2>4. ASSUME NEW h \in Threads, Commit(h), ~CommitRegistration(h)
        PROVE  RowsAdvance /\ UNCHANGED invitations
    BY <2>4, CommitsOfAccounts
  <2>5. ASSUME NEW h \in Threads, Commit(h)
        PROVE  \A c \in unused' \ unused : c[2] > sets[c[1]]
    BY <2>5, NewCodes
  <2>6. CASE Passing
    <3>1. UNCHANGED <<rows, unused>>
      BY <2>6 DEF Passing, Expire, Discard, Tick
    <3>2. \A i \in Invitations : invitations[i] = "used" => invitations'[i] = "used"
      BY <2>6 DEF Passing, Expire, Discard, Tick, Base, Types, TypeOK
    <3> QED
      BY <3>1, <3>2, UnchangedAdvance
  <2>7. ASSUME UNCHANGED <<rows, invitations, unused>>
        PROVE  /\ RowsAdvance
               /\ \A i \in Invitations :
                    invitations[i] = "used" => invitations'[i] = "used"
               /\ \A c \in unused' \ unused : c[2] > sets[c[1]]
    BY <2>7, UnchangedAdvance
  <2> QED
    BY <2>1, <2>2, <2>3, <2>4, <2>5, <2>6, <2>7, StepCases
<1>2. Base /\ [Next]_vars => [Advance]_vars
  BY <1>1
<1> QED
  BY <1>2, BaseHolds, PTL DEF Spec, AccountsOnlyAdvance

(* The invitations that are used up and the accounts match: a registration *)
(* commits both or neither, and nothing else touches either.               *)
THEOREM InvitationsMakeAccounts == Spec => []UsedInvitationsMadeAccounts
<1> DEFINE Used == {i \in Invitations : invitations[i] = "used"}
           Bought == {past.buyers[n] : n \in {m \in Names : rows[m] # Nothing}}
<1>1. Init => UsedInvitationsMadeAccounts
  BY DEF Init, NoPast, UsedInvitationsMadeAccounts
<1>2. Base /\ UsedInvitationsMadeAccounts /\ [Next]_vars
        => UsedInvitationsMadeAccounts'
  <2> SUFFICES ASSUME Base, UsedInvitationsMadeAccounts, [Next]_vars
               PROVE  UsedInvitationsMadeAccounts'
    OBVIOUS
  <2>1. ASSUME past'.buyers = past.buyers,
               \A n \in Names : rows'[n] = Nothing <=> rows[n] = Nothing,
               \A i \in Invitations : invitations'[i] = "used" <=> invitations[i] = "used"
        PROVE  UsedInvitationsMadeAccounts'
    <3>1. Used' = Used
      BY <2>1
    <3>2. Bought' = Bought
      BY <2>1
    <3> QED
      BY <2>1, <3>1, <3>2 DEF UsedInvitationsMadeAccounts
  <2>2. ASSUME NEW h \in Threads, NEW r, Preparation(h, r)
        PROVE  UsedInvitationsMadeAccounts'
    BY <2>1, <2>2 DEF Preparation, OnlyTheRequest
  <2>3. CASE Dropped
    BY <2>1, <2>3 DEF Dropped
  <2>4. ASSUME NEW h \in Threads, Commit(h), ~CommitRegistration(h)
        PROVE  UsedInvitationsMadeAccounts'
    BY <2>1, <2>4, CommitsOfAccounts
  <2>5. ASSUME NEW h \in Threads, CommitRegistration(h)
        PROVE  UsedInvitationsMadeAccounts'
    <3> DEFINE n == requests[h].name
               i == requests[h].item
    <3>1. n \in Names
      BY <2>5, CommittingForm DEF CommitRegistration
    <3>2. /\ i \in Invitations /\ rows[n] = Nothing /\ OnlyRow(n)
          /\ invitations' = [invitations EXCEPT ![i] = "used"]
          /\ past'.buyers = [past.buyers EXCEPT ![n] = i]
      BY <2>5, RegistrationForm
    <3>3. /\ invitations \in [Invitations -> {"none", "free", "expired", "used"}]
          /\ past.buyers \in [Names -> Invitations \cup {Nothing}]
      BY DEF Base, Types, TypeOK, Past
    <3>4. Used' = Used \cup {i}
      BY <3>2, <3>3
    <3>5. Bought' = Bought \cup {i}
      <4>1. /\ rows'[n] # Nothing /\ past'.buyers[n] = i
            /\ \A m \in Names \ {n} : /\ past'.buyers[m] = past.buyers[m]
                                      /\ rows'[m] = rows[m]
        BY <3>1, <3>2, <3>3 DEF OnlyRow
      <4> QED
        BY <3>1, <3>2, <4>1
    <3>6. \A m \in Names : rows'[m] = Nothing => past'.buyers[m] = Nothing
      BY <3>1, <3>2, <3>3 DEF OnlyRow, UsedInvitationsMadeAccounts
    <3> QED
      BY <3>4, <3>5, <3>6 DEF UsedInvitationsMadeAccounts
  <2>6. CASE Passing
    <3>1. UNCHANGED <<rows, past>>
      BY <2>6 DEF Passing, Expire, Discard, Tick
    <3>2. \A i \in Invitations : invitations'[i] = "used" <=> invitations[i] = "used"
      BY <2>6 DEF Passing, Expire, Discard, Tick, Base, Types, TypeOK
    <3> QED
      BY <2>1, <3>1, <3>2
  <2>7. CASE UNCHANGED vars
    BY <2>1, <2>7 DEF vars
  <2> QED
    BY <2>2, <2>3, <2>4, <2>5, <2>6, <2>7, StepCases
<1> QED
  BY <1>1, <1>2, BaseHolds, PTL DEF Spec
-----------------------------------------------------------------------------
(* Steps that leave passwords and recovery codes alone: all but three      *)
(* kinds of commit, and the first reading of a request.                    *)

RequestsKept ==
  \A g \in Threads : Busy(g)' =>
    /\ Busy(g) /\ requests'[g].op = requests[g].op
    /\ requests'[g].step = requests[g].step
    /\ requests'[g].name = requests[g].name
    /\ requests'[g].read = requests[g].read
    /\ requests'[g].at = requests[g].at
    /\ requests'[g].proof = requests[g].proof
    /\ requests[g].late => requests'[g].late

ColumnsKept ==
  \A n \in Names :
    /\ rows'[n] = Nothing <=> rows[n] = Nothing
    /\ rows[n] # Nothing => /\ rows'[n].password = rows[n].password
                            /\ rows'[n].changedAt = rows[n].changedAt
                            /\ rows'[n].attempts = rows[n].attempts
                            /\ rows'[n].recoveryUsed = rows[n].recoveryUsed

TokensEarned ==
  \A t \in tokens' \ tokens : \E h \in Threads :
    /\ Busy(h) /\ requests[h].op \in EntryOps
    /\ Issued(h, t, t.scope, requests[h].proof, requests[h].late)

Quiet ==
  /\ RequestsKept /\ ColumnsKept /\ TokensEarned
  /\ past'.failures = past.failures /\ past'.miscounted = past.miscounted

LEMMA OthersAreKept ==
  ASSUME NEW h \in Threads, NEW overtaken, OthersGoOn(h, overtaken)
  PROVE  RequestsKept
  BY DEF OthersGoOn, RequestsKept

LEMMA OneRowKept ==
  ASSUME NEW n \in Names, OnlyRow(n), rows[n] # Nothing,
         rows'[n].password = rows[n].password,
         rows'[n].changedAt = rows[n].changedAt,
         rows'[n].attempts = rows[n].attempts,
         rows'[n].recoveryUsed = rows[n].recoveryUsed
  PROVE  ColumnsKept
  BY DEF OnlyRow, ColumnsKept

LEMMA EarnedByEntry ==
  ASSUME NEW h \in Threads, Busy(h), requests[h].op \in EntryOps,
         NEW scope, TokensGrow(h, scope, requests[h].proof, requests[h].late)
  PROVE  TokensEarned
  BY DEF TokensGrow, Issued, TokensEarned

LEMMA QuietCommits ==
  ASSUME Base, NEW h \in Threads, Commit(h),
         ~CommitRegistration(h), ~CountFailure(h), ~CommitReset(h)
  PROVE  Quiet
<1>1. CASE Login(h) \/ IssueReset(h)
  BY <1>1, LoginForm, OthersAreKept, EarnedByEntry
  DEF EntryOps, ColumnsKept, Quiet
<1>2. CASE SpendCode(h)
  BY <1>2, SpendingForm, OthersAreKept, EarnedByEntry
  DEF EntryOps, ColumnsKept, Quiet
<1>3. CASE CommitCodes(h)
  BY <1>3, RegenerationForm, OthersAreKept
  DEF ColumnsKept, TokensEarned, Quiet
<1>4. CASE CommitEnrolment(h)
  <2>1. ColumnsKept
    BY <1>4, EnrolmentForm, OneRowKept DEF Advances
  <2> QED
    BY <1>4, <2>1, EnrolmentForm, OthersAreKept DEF TokensEarned, Quiet
<1>5. CASE VerifyTotp(h)
  <2>1. ColumnsKept
    BY <1>5, VerificationForm, OneRowKept DEF Advances
  <2> QED
    BY <1>5, <2>1, VerificationForm, OthersAreKept, EarnedByEntry
    DEF EntryOps, Quiet
<1> QED
  BY <1>1, <1>2, <1>3, <1>4, <1>5 DEF Commit

LEMMA StepKinds ==
  ASSUME Base, [Next]_vars
  PROVE  \/ \E h \in Threads : \E r : Preparation(h, r)
         \/ \E h \in Threads : CommitRegistration(h)
         \/ \E h \in Threads : CountFailure(h)
         \/ \E h \in Threads : CommitReset(h)
         \/ Quiet
<1>1. CASE Dropped
  BY <1>1, OthersAreKept DEF Dropped, ColumnsKept, TokensEarned, Quiet
<1>2. ASSUME UNCHANGED <<rows, requests, past>>, tokens' \subseteq tokens
      PROVE  Quiet
  BY <1>2 DEF RequestsKept, ColumnsKept, TokensEarned, Quiet, Busy
<1>3. CASE Passing
  BY <1>2, <1>3 DEF Passing, Expire, Discard, Tick
<1>4. CASE UNCHANGED vars
  BY <1>2, <1>4 DEF vars
<1> QED
  BY <1>1, <1>3, <1>4, StepCases, QuietCommits
-----------------------------------------------------------------------------
(* Wrong recovery codes are counted. *)

LEMMA AttemptsStep == Base /\ AttemptsFit /\ [Next]_vars => AttemptsFit'
<1> SUFFICES ASSUME Base, AttemptsFit, [Next]_vars PROVE AttemptsFit'
  OBVIOUS
<1>0. /\ past \in Past /\ past.failures \in [Names -> 0 .. MaxAttempts]
      /\ requests \in [Threads -> Request \cup {Idle}]
      /\ \A g \in Threads : Busy(g) => requests[g].name \in Names
  BY BusyIsTyped DEF Base, Types, TypeOK, Past, Request
<1>1. ASSUME NEW h \in Threads, NEW r, Preparation(h, r)
      PROVE  AttemptsFit'
  <2>1. ASSUME r.op = "recovery"
        PROVE  /\ r.read <= past.failures[r.name]
               /\ r.read = rows[r.name].attempts
    <3>1. Begun(r)
      BY <1>1, <2>1 DEF Preparation, Continued
    <3> QED
      BY <2>1, <3>1 DEF Begun, Request, AttemptsFit, AttemptsAreFailures
  <2>2. \A g \in Threads : requests'[g] = IF g = h THEN r ELSE requests[g]
    BY <1>0, <1>1 DEF Preparation
  <2>3. UNCHANGED <<rows, past>>
    BY <1>1 DEF Preparation, OnlyTheRequest
  <2> QED
    BY <2>1, <2>2, <2>3 DEF AttemptsFit, AttemptsAreFailures, Busy
<1>2. ASSUME NEW h \in Threads, CommitRegistration(h)
      PROVE  AttemptsFit'
  <2> DEFINE n == requests[h].name
  <2>1. /\ n \in Names /\ rows[n] = Nothing /\ OnlyRow(n) /\ rows'[n] = NewRow
        /\ past'.failures = past.failures /\ past'.miscounted = past.miscounted
        /\ OthersGoOn(h, {})
    BY <1>2, RegistrationForm, CommittingForm DEF CommitRegistration
  <2>2. /\ NewRow.attempts = 0 /\ past.failures[n] = 0
    BY <2>1 DEF NewRow, AttemptsFit
  <2>3. AttemptsAreFailures'
    BY <2>1, <2>2 DEF OnlyRow, AttemptsFit, AttemptsAreFailures
  <2>4. ASSUME NEW g \in Threads, Busy(g)', requests'[g].op = "recovery"
        PROVE  /\ requests'[g].read <= past'.failures[requests'[g].name]
               /\ ~requests'[g].late
                    => requests'[g].read = rows'[requests'[g].name].attempts
    <3>1. /\ Busy(g) /\ requests[g].op = "recovery"
          /\ rows[requests[g].name] # Nothing
      BY <2>1, <2>4 DEF OthersGoOn, Base, RequestsFit
    <3> QED
      BY <1>0, <2>1, <2>4, <3>1 DEF OthersGoOn, OnlyRow, AttemptsFit
  <2> QED
    BY <2>1, <2>3, <2>4 DEF OnlyRow, AttemptsFit, Busy
<1>3. ASSUME NEW h \in Threads, CountFailure(h)
      PROVE  AttemptsFit'
  <2> DEFINE n == requests[h].name
             read == requests[h].read
  <2>1. /\ Busy(h) /\ requests[h].op = "recovery" /\ n \in Names
        /\ rows[n] # Nothing /\ OnlyRow(n) /\ read \in 0 .. (MaxAttempts - 1)
        /\ rows'[n].attempts = read + 1
        /\ rows'[n].recoveryUsed = rows[n].recoveryUsed
        /\ past'.failures =
             [past.failures EXCEPT ![n] = IF @ < MaxAttempts THEN @ + 1 ELSE @]
        /\ past'.miscounted = IF requests[h].late
                              THEN past.miscounted \cup {n} ELSE past.miscounted
        /\ OthersGoOn(h, Others(h, {"recovery"}, n))
    BY <1>3, FailureForm DEF Advances
  <2>2. /\ past.failures[n] \in 0 .. MaxAttempts
        /\ past'.failures[n] = IF past.failures[n] < MaxAttempts
                               THEN past.failures[n] + 1 ELSE past.failures[n]
        /\ \A m \in Names \ {n} : past'.failures[m] = past.failures[m]
    BY <1>0, <2>1
  <2>3. /\ read <= past.failures[n]
        /\ ~requests[h].late => read = rows[n].attempts
    BY <2>1 DEF AttemptsFit
  <2>4. rows'[n].attempts <= past'.failures[n]
    BY <2>1, <2>2, <2>3, Numbers
  <2>5. ASSUME ~rows'[n].recoveryUsed, n \notin past'.miscounted
        PROVE  rows'[n].attempts = past'.failures[n]
    <3>1. ~requests[h].late /\ n \notin past.miscounted /\ ~rows[n].recoveryUsed
      BY <2>1, <2>5
    <3>2. rows[n].attempts = past.failures[n]
      BY <2>1, <3>1 DEF AttemptsFit, AttemptsAreFailures
    <3> QED
      BY <2>1, <2>2, <2>3, <3>1, <3>2, Numbers
  <2>6. AttemptsAreFailures'
    <3>1. ASSUME NEW m \in Names, m # n
          PROVE  /\ rows'[m] = rows[m] /\ past'.failures[m] = past.failures[m]
                 /\ m \notin past'.miscounted => m \notin past.miscounted
      BY <2>1, <2>2, <3>1 DEF OnlyRow
    <3> QED
      BY <2>1, <2>4, <2>5, <3>1 DEF AttemptsFit, AttemptsAreFailures
  <2>7. ASSUME NEW g \in Threads, Busy(g)', requests'[g].op = "recovery"
        PROVE  /\ requests'[g].read <= past'.failures[requests'[g].name]
               /\ ~requests'[g].late
                    => requests'[g].read = rows'[requests'[g].name].attempts
    <3> DEFINE m == requests[g].name
    <3>1. /\ Busy(g) /\ g # h /\ requests[g].op = "recovery" /\ m \in Names
          /\ requests'[g].name = m /\ requests'[g].read = requests[g].read
          /\ requests[g] \in Request
      BY <1>0, <2>1, <2>7, BusyIsTyped DEF OthersGoOn, Base
    <3>2. requests[g].read <= past.failures[m] /\ requests[g].read \in Nat
      BY <3>1, Numbers DEF AttemptsFit, Request, Time, Never
    <3>3. CASE m = n
      <4>1. requests'[g].late
        BY <2>1, <2>7, <3>1, <3>3 DEF OthersGoOn, Others, Busy
      <4> QED
        BY <2>2, <3>1, <3>2, <3>3, <4>1, Numbers
    <3>4. CASE m # n
      BY <2>1, <2>2, <2>7, <3>1, <3>2, <3>4 DEF OthersGoOn, OnlyRow, AttemptsFit
    <3> QED
      BY <3>3, <3>4
  <2>8. \A m \in Names : rows'[m] = Nothing => past'.failures[m] = 0
    BY <2>1, <2>2 DEF OnlyRow, AttemptsFit
  <2> QED
    BY <2>6, <2>7, <2>8 DEF AttemptsFit, Busy
<1>4. ASSUME NEW h \in Threads, CommitReset(h)
      PROVE  AttemptsFit'
  <2> DEFINE n == requests[h].name
  <2>1. /\ n \in Names /\ rows[n] # Nothing /\ OnlyRow(n)
        /\ rows'[n].recoveryUsed /\ UNCHANGED past
        /\ OthersGoOn(h, Others(h, AllOperations, n))
    BY <1>4, ResetForm DEF Advances
  <2>2. AttemptsAreFailures'
    BY <2>1 DEF OnlyRow, AttemptsFit, AttemptsAreFailures
  <2>3. ASSUME NEW g \in Threads, Busy(g)', requests'[g].op = "recovery"
        PROVE  /\ requests'[g].read <= past'.failures[requests'[g].name]
               /\ ~requests'[g].late
                    => requests'[g].read = rows'[requests'[g].name].attempts
    <3> DEFINE m == requests[g].name
    <3>1. /\ Busy(g) /\ g # h /\ requests[g].op = "recovery" /\ m \in Names
          /\ requests'[g].name = m /\ requests'[g].read = requests[g].read
      BY <1>0, <2>1, <2>3 DEF OthersGoOn
    <3>2. m = n => requests'[g].late
      BY <2>1, <2>3, <3>1 DEF OthersGoOn, Others, Busy, AllOperations
    <3> QED
      BY <2>1, <2>3, <3>1, <3>2 DEF OthersGoOn, OnlyRow, AttemptsFit
  <2> QED
    BY <2>1, <2>2, <2>3 DEF OnlyRow, AttemptsFit, Busy
<1>5. CASE Quiet
  <2>1. ASSUME NEW n \in Names
        PROVE  /\ rows'[n] = Nothing <=> rows[n] = Nothing
               /\ rows[n] # Nothing => /\ rows'[n].attempts = rows[n].attempts
                                       /\ rows'[n].recoveryUsed = rows[n].recoveryUsed
    BY <1>5 DEF Quiet, ColumnsKept
  <2>2. AttemptsAreFailures'
    BY <1>5, <2>1 DEF Quiet, AttemptsFit, AttemptsAreFailures
  <2>3. ASSUME NEW g \in Threads, Busy(g)', requests'[g].op = "recovery"
        PROVE  /\ requests'[g].read <= past'.failures[requests'[g].name]
               /\ ~requests'[g].late
                    => requests'[g].read = rows'[requests'[g].name].attempts
    <3>1. /\ Busy(g) /\ requests[g].op = "recovery"
          /\ requests[g].name \in Names /\ rows[requests[g].name] # Nothing
          /\ requests'[g].name = requests[g].name
          /\ requests'[g].read = requests[g].read
          /\ ~requests'[g].late => ~requests[g].late
      BY <1>0, <1>5, <2>3 DEF Quiet, RequestsKept, Base, RequestsFit
    <3> QED
      BY <1>5, <2>1, <3>1 DEF Quiet, AttemptsFit
  <2> QED
    BY <1>5, <2>1, <2>2, <2>3 DEF Quiet, AttemptsFit, Busy
<1> QED
  BY <1>1, <1>2, <1>3, <1>4, <1>5, StepKinds

(* While a recovery code can be used, its count is at most that of the     *)
(* wrong codes, and exactly that unless two of them overlapped: neither a  *)
(* reset nor any other commit with an old reading gets in between.         *)
THEOREM FailuresAreCounted == Spec => []AttemptsAreFailures
<1>1. Init => AttemptsFit
  BY DEF Init, NoPast, AttemptsFit, AttemptsAreFailures, Busy
<1>2. AttemptsFit => AttemptsAreFailures
  BY DEF AttemptsFit
<1> QED
  BY <1>1, <1>2, AttemptsStep, BaseHolds, PTL DEF Spec
-----------------------------------------------------------------------------
(* Tokens and the password behind them. *)

(* What SessionsFit says of one token and of one request. *)
TokenFollows(t) ==
  /\ IsCurrent(t) /\ ~t.late => t.proof = rows[t.name].password
  /\ t.proof <= rows[t.name].password
  /\ t.proof = rows[t.name].password /\ rows[t.name].changedAt # Never
       => rows[t.name].changedAt <= t.at

RequestFollows(r) ==
  /\ r.op # "register" => r.proof <= rows[r.name].password
  /\ r.op \in EntryOps /\ ~r.late => r.proof = rows[r.name].password
  /\ r.op = "reset" /\ r.step = "stamped" =>
       \A t \in tokens : t.name = r.name /\ ~t.late => t.at <= r.at

LEMMA SessionsForm ==
  SessionsFit <=> /\ \A t \in tokens : TokenFollows(t)
                  /\ \A h \in Threads : Busy(h) => RequestFollows(requests[h])
  BY DEF SessionsFit, TokenFollows, RequestFollows

LEMMA SessionTypes ==
  ASSUME Base
  PROVE  /\ clock \in Nat
         /\ \A t \in tokens :
              /\ t.name \in Names /\ rows[t.name] # Nothing
              /\ t.proof \in Nat /\ t.at \in Nat /\ t.at <= clock
              /\ t.late \in BOOLEAN
         /\ \A n \in Names : rows[n] # Nothing =>
              /\ rows[n].password \in Nat
              /\ rows[n].changedAt # Never =>
                   rows[n].changedAt \in Nat /\ rows[n].changedAt <= clock
         /\ \A g \in Threads : Busy(g) =>
              /\ requests[g].name \in Names /\ requests[g].proof \in Nat
              /\ requests[g].at \in Nat /\ requests[g].at <= clock
              /\ requests[g].op # "register" => rows[requests[g].name] # Nothing
<1>1. clock \in Nat
  BY Numbers DEF Base, Types, TypeOK, Time
<1>2. \A t \in tokens : /\ t.name \in Names /\ rows[t.name] # Nothing
                        /\ t.proof \in Nat /\ t.at \in Nat /\ t.at <= clock
                        /\ t.late \in BOOLEAN
  BY Numbers DEF Base, Types, TypeOK, TokensFit, TimesFit, Token, Time
<1>3. \A n \in Names : rows[n] # Nothing =>
        /\ rows[n].password \in Nat
        /\ rows[n].changedAt # Never =>
             rows[n].changedAt \in Nat /\ rows[n].changedAt <= clock
  BY RowIsTyped, Numbers DEF Base, TimesFit, Row, Time
<1>4. \A g \in Threads : Busy(g) =>
        /\ requests[g].name \in Names /\ requests[g].proof \in Nat
        /\ requests[g].at \in Nat /\ requests[g].at <= clock
        /\ requests[g].op # "register" => rows[requests[g].name] # Nothing
  BY BusyIsTyped, Numbers DEF Base, RequestsFit, TimesFit, Request, Time
<1> QED
  BY <1>1, <1>2, <1>3, <1>4

LEMMA PreparedFollows ==
  ASSUME Base, SessionsFit, NEW h \in Threads, NEW r, Preparation(h, r)
  PROVE  SessionsFit'
<1>1. /\ requests \in [Threads -> Request \cup {Idle}]
      /\ requests' = [requests EXCEPT ![h] = r]
      /\ UNCHANGED <<rows, tokens>>
  BY DEF Preparation, OnlyTheRequest, Base, Types, TypeOK
<1>2. r \in Request /\ r.name \in Names
  BY PreparedFits DEF Request
<1>3. ASSUME Begun(r)
      PROVE  RequestFollows(r)
  <2>1. r.op \in AllOperations /\ r.step = "read"
    BY <1>2, <1>3 DEF Request, Begun
  <2>2. ASSUME r.op \in {"login", "recovery"}
        PROVE  RequestFollows(r)
    <3>1. r.proof = rows[r.name].password /\ rows[r.name] # Nothing
      BY <1>3, <2>2 DEF Begun
    <3> QED
      BY <1>2, <2>1, <2>2, <3>1, SessionTypes DEF RequestFollows
  <2>3. ASSUME r.op \in {"totp", "backup", "enrol", "regenerate", "reset"}
        PROVE  RequestFollows(r)
    <3>1. PICK t \in tokens :
            /\ Shows(r, t)
            /\ r.op \in {"totp", "backup"} => IsCurrent(t) /\ (t.late => r.late)
      BY <1>3, <2>3 DEF Begun
    <3>2. TokenFollows(t)
      BY SessionsForm
    <3> QED
      BY <2>1, <2>3, <3>1, <3>2 DEF RequestFollows, TokenFollows, Shows, EntryOps
  <2>4. ASSUME r.op = "register"
        PROVE  RequestFollows(r)
    BY <2>4 DEF RequestFollows, EntryOps
  <2> QED
    BY <2>1, <2>2, <2>3, <2>4 DEF AllOperations
<1>4. ASSUME Continued(h, r)
      PROVE  RequestFollows(r)
  <2>1. RequestFollows(requests[h])
    BY <1>4, SessionsForm DEF Continued
  <2>2. /\ r.op = requests[h].op /\ r.name = requests[h].name
        /\ r.proof = requests[h].proof /\ r.late = requests[h].late
        /\ r.op = "reset" => r.at = clock
    BY <1>4 DEF Continued
  <2> QED
    BY <2>1, <2>2, SessionTypes DEF RequestFollows
<1>5. RequestFollows(r)
  BY <1>3, <1>4 DEF Preparation
<1>6. \A g \in Threads : requests'[g] = IF g = h THEN r ELSE requests[g]
  BY <1>1
<1> QED
  BY <1>1, <1>5, <1>6
  DEF SessionsFit, RequestFollows, Busy, IsCurrent

(* What goes on follows, while the password and the time of its last       *)
(* change stay and new tokens are earned.                                  *)
LEMMA KeptFollows ==
  ASSUME Base, SessionsFit, RequestsKept, TokensEarned,
         \A n \in Names : rows[n] # Nothing =>
           /\ rows'[n] # Nothing
           /\ rows'[n].password = rows[n].password
           /\ rows'[n].changedAt = rows[n].changedAt
  PROVE  SessionsFit'
<1>1. ASSUME NEW t \in tokens'
      PROVE  TokenFollows(t)'
  <2>1. CASE t \in tokens
    <3>1. /\ TokenFollows(t) /\ t.name \in Names /\ rows[t.name] # Nothing
      BY <2>1, SessionsForm, SessionTypes
    <3>2. /\ rows'[t.name].password = rows[t.name].password
          /\ rows'[t.name].changedAt = rows[t.name].changedAt
      BY <3>1
    <3> QED
      BY <3>1, <3>2 DEF TokenFollows, IsCurrent
  <2>2. CASE t \notin tokens
    <3>1. PICK h \in Threads :
            /\ Busy(h) /\ requests[h].op \in EntryOps
            /\ Issued(h, t, t.scope, requests[h].proof, requests[h].late)
      BY <2>2 DEF TokensEarned
    <3>2. /\ RequestFollows(requests[h])
          /\ t.name = requests[h].name /\ t.proof = requests[h].proof
          /\ t.at = clock /\ (requests[h].late => t.late)
      BY <3>1, SessionsForm DEF Issued
    <3>3. t.name \in Names /\ rows[t.name] # Nothing /\ requests[h].op # "register"
      BY <3>1, <3>2, SessionTypes DEF EntryOps
    <3>4. /\ rows'[t.name].password = rows[t.name].password
          /\ rows'[t.name].changedAt = rows[t.name].changedAt
      BY <3>3
    <3>5. rows[t.name].changedAt # Never => rows[t.name].changedAt <= clock
      BY <3>3, SessionTypes
    <3> QED
      BY <3>1, <3>2, <3>3, <3>4, <3>5 DEF TokenFollows, RequestFollows
  <2> QED
    BY <2>1, <2>2
<1>2. ASSUME NEW g \in Threads, Busy(g)', NEW q, q = requests'[g]
      PROVE  RequestFollows(q)'
  <2> DEFINE r == requests[g]
  <2>1. /\ Busy(g) /\ q.op = r.op /\ q.step = r.step /\ q.name = r.name
        /\ q.at = r.at /\ q.proof = r.proof /\ (r.late => q.late)
    BY <1>2 DEF RequestsKept
  <2>2. RequestFollows(r)
    BY <2>1, SessionsForm
  <2>3. r.name \in Names /\ (r.op # "register" => rows[r.name] # Nothing)
    BY <2>1, SessionTypes
  <2>4. ASSUME q.op = "reset", q.step = "stamped",
               NEW t \in tokens', t.name = q.name, ~t.late
        PROVE  t.at <= q.at
    <3>1. CASE t \in tokens
      BY <2>1, <2>2, <2>4, <3>1 DEF RequestFollows
    <3>2. CASE t \notin tokens
      <4>1. PICK h \in Threads :
              /\ Busy(h) /\ requests[h].op \in EntryOps
              /\ Issued(h, t, t.scope, requests[h].proof, requests[h].late)
        BY <3>2 DEF TokensEarned
      <4>2. g # h
        BY <2>1, <2>4, <4>1 DEF EntryOps
      <4> QED
        BY <2>1, <2>4, <4>1, <4>2 DEF Issued
    <3> QED
      BY <3>1, <3>2
  <2>5. /\ q.op # "register" => q.proof <= rows'[q.name].password
        /\ q.op \in EntryOps /\ ~q.late => q.proof = rows'[q.name].password
    BY <2>1, <2>2, <2>3 DEF RequestFollows, EntryOps
  <2> QED
    BY <2>4, <2>5 DEF RequestFollows
<1> QED
  BY <1>1, <1>2 DEF SessionsFit, TokenFollows, RequestFollows, Busy

LEMMA RegistrationFollows ==
  ASSUME Base, SessionsFit, NEW h \in Threads, CommitRegistration(h)
  PROVE  SessionsFit'
<1> DEFINE n == requests[h].name
<1>1. /\ n \in Names /\ rows[n] = Nothing /\ OnlyRow(n) /\ rows'[n] = NewRow
      /\ TokensGrow(h, "pending_totp", 1, FALSE) /\ OthersGoOn(h, {})
  BY RegistrationForm, CommittingForm DEF CommitRegistration
<1>2. NewRow.password = 1 /\ NewRow.changedAt = Never
  BY DEF NewRow
<1>3. ASSUME NEW t \in tokens'
      PROVE  TokenFollows(t)'
  <2>1. CASE t \in tokens
    <3>1. TokenFollows(t) /\ t.name \in Names /\ rows[t.name] # Nothing
      BY <2>1, SessionsForm, SessionTypes
    <3>2. rows'[t.name] = rows[t.name]
      BY <1>1, <3>1 DEF OnlyRow
    <3> QED
      BY <3>1, <3>2 DEF TokenFollows, IsCurrent
  <2>2. CASE t \notin tokens
    <3>1. t.name = n /\ t.proof = 1
      BY <1>1, <2>2 DEF TokensGrow, Issued
    <3> QED
      BY <1>1, <1>2, <3>1 DEF TokenFollows
  <2> QED
    BY <2>1, <2>2
<1>4. ASSUME NEW g \in Threads, Busy(g)', NEW q, q = requests'[g]
      PROVE  RequestFollows(q)'
  <2> DEFINE r == requests[g]
  <2>1. /\ Busy(g) /\ q.op = r.op /\ q.step = r.step /\ q.name = r.name
        /\ q.at = r.at /\ q.proof = r.proof /\ (r.late => q.late)
    BY <1>1, <1>4 DEF OthersGoOn
  <2>2. RequestFollows(r)
    BY <2>1, SessionsForm
  <2>3. ASSUME r.op # "register"
        PROVE  r.name # n /\ rows'[r.name] = rows[r.name]
    BY <1>1, <2>1, <2>3, SessionTypes DEF OnlyRow
  <2>4. ASSUME q.op = "reset", q.step = "stamped",
               NEW t \in tokens', t.name = q.name, ~t.late
        PROVE  t.at <= q.at
    <3>1. t \in tokens
      BY <1>1, <2>1, <2>3, <2>4 DEF TokensGrow, Issued
    <3> QED
      BY <2>1, <2>2, <2>4, <3>1 DEF RequestFollows
  <2>5. /\ q.op # "register" => q.proof <= rows'[q.name].password
        /\ q.op \in EntryOps /\ ~q.late => q.proof = rows'[q.name].password
    BY <2>1, <2>2, <2>3 DEF RequestFollows, EntryOps
  <2> QED
    BY <2>4, <2>5 DEF RequestFollows
<1> QED
  BY <1>3, <1>4 DEF SessionsFit, TokenFollows, RequestFollows, Busy

(* The reset overtakes every request of its account, and outdates every    *)
(* token of it that is not late: those were issued before its time stamp.  *)
LEMMA ResetFollows ==
  ASSUME Base, SessionsFit, NEW h \in Threads, CommitReset(h)
  PROVE  SessionsFit'
<1> DEFINE n == requests[h].name
           at == requests[h].at
<1>1. /\ Busy(h) /\ requests[h].op = "reset" /\ requests[h].step = "stamped"
      /\ n \in Names /\ at \in Time
      /\ rows[n] # Nothing /\ OnlyRow(n) /\ rows[n].password \in Nat
      /\ rows'[n].password = rows[n].password + 1 /\ rows'[n].changedAt = at
      /\ OthersGoOn(h, Others(h, AllOperations, n))
  BY ResetForm DEF Advances
<1>2. PICK scope : TokensGrow(h, scope, rows[n].password + 1, FALSE)
  BY ResetForm
<1>3. at \in Nat /\ at <= clock /\ at # Never /\ clock \in Nat
  BY <1>1, Numbers, SessionTypes DEF Time, Never
<1>4. ASSUME NEW t \in tokens'
      PROVE  TokenFollows(t)'
  <2>1. CASE t \in tokens /\ t.name # n
    <3>1. TokenFollows(t) /\ t.name \in Names
      BY <2>1, SessionsForm, SessionTypes
    <3>2. rows'[t.name] = rows[t.name]
      BY <1>1, <2>1, <3>1 DEF OnlyRow
    <3> QED
      BY <3>1, <3>2 DEF TokenFollows, IsCurrent
  <2>2. CASE t \in tokens /\ t.name = n
    <3>1. TokenFollows(t) /\ t.proof \in Nat /\ t.at \in Nat
      BY <2>2, SessionsForm, SessionTypes
    <3>2. t.proof <= rows[n].password
      BY <2>2, <3>1 DEF TokenFollows
    <3>3. t.proof < rows'[n].password
      BY <1>1, <3>1, <3>2
    <3>4. ~t.late => t.at <= at
      <4>1. RequestFollows(requests[h])
        BY <1>1, SessionsForm
      <4> QED
        BY <1>1, <2>2, <4>1 DEF RequestFollows
    <3>5. ~t.late => ~(Second(t.at) > Second(at))
      <4>1. ASSUME t.at <= at
            PROVE  /\ Second(t.at) \in Nat /\ Second(at) \in Nat
                   /\ Second(t.at) <= Second(at)
        BY <1>3, <3>1, <4>1, Numbers, DivisionIsMonotone DEF Second
      <4> QED
        BY <3>4, <4>1
    <3>6. ~t.late => ~IsCurrent(t)'
      BY <1>1, <1>3, <2>2, <3>5 DEF IsCurrent
    <3>7. t.proof # rows'[n].password /\ t.proof <= rows'[n].password
      BY <1>1, <3>1, <3>3
    <3> QED
      BY <2>2, <3>6, <3>7 DEF TokenFollows
  <2>3. CASE t \notin tokens
    <3>1. t.name = n /\ t.proof = rows[n].password + 1 /\ t.at = clock
      BY <1>2, <2>3 DEF TokensGrow, Issued
    <3> QED
      BY <1>1, <1>3, <3>1 DEF TokenFollows
  <2> QED
    BY <2>1, <2>2, <2>3
<1>5. ASSUME NEW g \in Threads, Busy(g)', NEW q, q = requests'[g]
      PROVE  RequestFollows(q)'
  <2> DEFINE r == requests[g]
  <2>1. /\ g # h /\ Busy(g) /\ q.op = r.op /\ q.step = r.step /\ q.name = r.name
        /\ q.at = r.at /\ q.proof = r.proof /\ (r.late => q.late)
        /\ g \in Others(h, AllOperations, n) => q.late
    BY <1>1, <1>5 DEF OthersGoOn
  <2>2. RequestFollows(r)
    BY <2>1, SessionsForm
  <2>3. /\ r.name \in Names /\ r.proof \in Nat
        /\ r.op # "register" => rows[r.name] # Nothing
        /\ r.op \in AllOperations
    BY <2>1, SessionTypes, BusyIsTyped DEF Base, Request
  <2>4. ASSUME q.op = "reset", q.step = "stamped",
               NEW t \in tokens', t.name = q.name, ~t.late
        PROVE  t.at <= q.at
    <3>1. t \in tokens
      BY <1>2, <2>1, <2>4 DEF TokensGrow, Issued
    <3> QED
      BY <2>1, <2>2, <2>4, <3>1 DEF RequestFollows
  <2>5. CASE r.name = n
    <3>1. q.late
      BY <2>1, <2>3, <2>5 DEF Others, Busy
    <3>2. q.op # "register" => q.proof <= rows'[q.name].password
      BY <1>1, <2>1, <2>2, <2>3, <2>5 DEF RequestFollows
    <3> QED
      BY <2>4, <3>1, <3>2 DEF RequestFollows
  <2>6. CASE r.name # n
    <3>1. rows'[q.name] = rows[r.name]
      BY <1>1, <2>1, <2>3, <2>6 DEF OnlyRow
    <3>2. /\ q.op # "register" => q.proof <= rows'[q.name].password
          /\ q.op \in EntryOps /\ ~q.late => q.proof = rows'[q.name].password
      BY <2>1, <2>2, <3>1 DEF RequestFollows
    <3> QED
      BY <2>4, <3>2 DEF RequestFollows
  <2> QED
    BY <2>5, <2>6
<1> QED
  BY <1>4, <1>5 DEF SessionsFit, TokenFollows, RequestFollows, Busy

LEMMA SessionsStep == Base /\ SessionsFit /\ [Next]_vars => SessionsFit'
<1> SUFFICES ASSUME Base, SessionsFit, [Next]_vars PROVE SessionsFit'
  OBVIOUS
<1>1. ASSUME NEW h \in Threads, CountFailure(h)
      PROVE  SessionsFit'
  <2> DEFINE n == requests[h].name
  <2>1. /\ n \in Names /\ rows[n] # Nothing /\ OnlyRow(n)
        /\ rows'[n].password = rows[n].password
        /\ rows'[n].changedAt = rows[n].changedAt
        /\ OthersGoOn(h, Others(h, {"recovery"}, n)) /\ UNCHANGED tokens
    BY <1>1, FailureForm DEF Advances
  <2>2. RequestsKept /\ TokensEarned
    BY <2>1, OthersAreKept DEF TokensEarned
  <2> QED
    BY <2>1, <2>2, KeptFollows DEF OnlyRow
<1>2. CASE Quiet
  BY <1>2, KeptFollows DEF Quiet, ColumnsKept
<1> QED
  BY <1>1, <1>2, StepKinds, PreparedFollows, RegistrationFollows, ResetFollows

(* For get_current_user, a token ends with its password and, but for the   *)
(* second of the change, not before, whatever resets overlap or reuse a    *)
(* reset token: requests that were checked against the old password and    *)
(* answered after the reset are the late ones.  Of the WebSocket and of    *)
(* reset-password, which do not ask IsCurrent, nothing is said.            *)
THEOREM CurrentTokensEndWithPasswords == Spec => []CurrentTokensFollowThePassword
<1>1. Init => SessionsFit
  BY DEF Init, SessionsFit, Busy
<1>2. Base /\ SessionsFit => CurrentTokensFollowThePassword
  <2> SUFFICES ASSUME Base, SessionsFit, NEW t \in tokens,
                      t.proof = rows[t.name].password,
                      rows[t.name].changedAt # Never
               PROVE  \/ Second(t.at) > Second(rows[t.name].changedAt)
                      \/ Second(t.at) = Second(rows[t.name].changedAt)
    BY DEF SessionsFit, CurrentTokensFollowThePassword, IsCurrent
  <2>1. /\ t.at \in Nat /\ rows[t.name].changedAt \in Nat
        /\ rows[t.name].changedAt <= t.at
    BY SessionTypes DEF SessionsFit
  <2>2. /\ Second(t.at) \in Nat /\ Second(rows[t.name].changedAt) \in Nat
        /\ Second(rows[t.name].changedAt) <= Second(t.at)
    BY <2>1, Numbers, DivisionIsMonotone DEF Second
  <2> QED
    BY <2>2
<1> QED
  BY <1>1, <1>2, SessionsStep, BaseHolds, PTL DEF Spec
-----------------------------------------------------------------------------
(* The backup codes handed out last. *)

(* What CodesFit says of one account and of one request. *)
AccountLive(n) ==
  /\ sets[n] > 0 => SetOf(n, sets[n]) \subseteq unused \cup past.spent
  /\ n \in past.contested \/ unused \cap CodesOf(n) \subseteq SetOf(n, sets[n])

RequestLive(r) ==
  /\ r.op = "enrol" /\ ~r.late => sets[r.name] = 0
  /\ r.op = "regenerate" /\ r.step = "retired" =>
       /\ r.marked \subseteq CodesOf(r.name)
       /\ r.late \/ unused \cap CodesOf(r.name) \subseteq r.marked

LEMMA CodesForm ==
  CodesFit <=> /\ \A n \in Names : AccountLive(n)
               /\ \A h \in Threads : Busy(h) => RequestLive(requests[h])
  BY DEF CodesFit, CodesAreLive, AccountLive, RequestLive

(* Requests are no further than they were, and as late at least. *)
MarksKept ==
  \A g \in Threads : Busy(g)' =>
    /\ Busy(g) /\ requests'[g].op = requests[g].op
    /\ requests'[g].step = requests[g].step
    /\ requests'[g].name = requests[g].name
    /\ requests'[g].marked = requests[g].marked
    /\ requests[g].late => requests'[g].late

(* While no set is added, a code goes from unused to spent or stays. *)
LEMMA KeptLive ==
  ASSUME CodesFit, MarksKept, UNCHANGED sets, unused' \subseteq unused,
         unused \cup past.spent \subseteq unused' \cup past'.spent,
         past.contested \subseteq past'.contested
  PROVE  CodesFit'
<1>1. ASSUME NEW n \in Names
      PROVE  AccountLive(n)'
  <2>1. AccountLive(n)
    BY CodesForm
  <2> QED
    BY <2>1 DEF AccountLive, SetOf, CodesOf
<1>2. ASSUME NEW g \in Threads, Busy(g)', NEW q, q = requests'[g]
      PROVE  RequestLive(q)'
  <2>1. Busy(g) /\ RequestLive(requests[g])
    BY <1>2, CodesForm DEF MarksKept
  <2> QED
    BY <1>2, <2>1 DEF MarksKept, RequestLive, CodesOf
<1> QED
  BY <1>1, <1>2 DEF CodesFit, CodesAreLive, AccountLive, RequestLive, Busy

LEMMA PreparedLive ==
  ASSUME Base, CodesFit, NEW h \in Threads, NEW r, Preparation(h, r)
  PROVE  CodesFit'
<1>1. /\ requests \in [Threads -> Request \cup {Idle}]
      /\ requests' = [requests EXCEPT ![h] = r]
      /\ UNCHANGED <<sets, unused, past>>
  BY DEF Preparation, OnlyTheRequest, Base, Types, TypeOK
<1>2. r \in Request /\ r.name \in Names
  BY PreparedFits DEF Request
<1>3. ASSUME Begun(r)
      PROVE  RequestLive(r)
  <2>1. sets[r.name] \in Nat
    BY <1>2, Numbers DEF Base, Types, TypeOK
  <2>2. r.op = "enrol" => sets[r.name] = 0
    BY <1>2, <1>3, <2>1 DEF Begun, Base, SetsFit
  <2>3. r.step # "retired"
    BY <1>3 DEF Begun
  <2> QED
    BY <2>2, <2>3 DEF RequestLive
<1>4. ASSUME Continued(h, r)
      PROVE  RequestLive(r)
  <2>1. RequestLive(requests[h])
    BY <1>4, CodesForm DEF Continued
  <2>2. /\ r.op = requests[h].op /\ r.name = requests[h].name
        /\ r.late = requests[h].late
        /\ r.step = "retired" => r.marked = unused \cap CodesOf(r.name)
    BY <1>4 DEF Continued
  <2> QED
    BY <2>1, <2>2 DEF RequestLive
<1>5. RequestLive(r)
  BY <1>3, <1>4 DEF Preparation
<1>6. \A g \in Threads : requests'[g] = IF g = h THEN r ELSE requests[g]
  BY <1>1
<1> QED
  BY <1>1, <1>5, <1>6
  DEF CodesFit, CodesAreLive, RequestLive, Busy, SetOf, CodesOf

(* A new set: whoever is not late has retired all that was there, and      *)
(* makes everybody late who is making one for the same account.            *)
LEMMA SetAdded ==
  ASSUME Base, CodesFit, NEW h \in Threads, Busy(h),
         NEW n \in Names, n = requests[h].name, NEW left, NEW contested,
         sets' = [sets EXCEPT ![n] = sets[n] + 1], sets'[n] = sets[n] + 1,
         unused' = left \cup SetOf(n, sets[n] + 1), left \subseteq unused,
         unused \ left \subseteq CodesOf(n),
         requests[h].late \/ left \cap CodesOf(n) = {},
         past.spent \subseteq past'.spent, past.contested \subseteq contested,
         past'.contested = Crowded(h, contested),
         OthersGoOn(h, SetMakers(h))
  PROVE  CodesFit'
<1>1. \A m \in Names \ {n} : sets'[m] = sets[m]
  BY DEF Base, Types, TypeOK
<1>2. \A m \in Names : \A k : SetOf(m, k) \subseteq CodesOf(m)
  BY DEF SetOf, CodesOf
<1>3. \A m \in Names : m # n => CodesOf(m) \cap CodesOf(n) = {}
  BY DEF CodesOf
<1>4. past'.contested = IF requests[h].late THEN contested \cup {n}
                                            ELSE contested \ {n}
  BY DEF Crowded
<1>5. AccountLive(n)'
  <2>1. SetOf(n, sets'[n]) \subseteq unused'
    OBVIOUS
  <2>2. n \in past'.contested \/ unused' \cap CodesOf(n) \subseteq SetOf(n, sets'[n])
    BY <1>4
  <2> QED
    BY <2>1, <2>2 DEF AccountLive, SetOf, CodesOf
<1>6. ASSUME NEW m \in Names, m # n
      PROVE  AccountLive(m)' /\ unused' \cap CodesOf(m) \subseteq unused
  <2>1. AccountLive(m) /\ sets'[m] = sets[m]
    BY <1>1, <1>6, CodesForm
  <2>2. unused' \cap CodesOf(m) \subseteq unused
    BY <1>2, <1>3, <1>6
  <2>3. unused \cap CodesOf(m) \subseteq unused'
    BY <1>3, <1>6
  <2>4. sets[m] > 0 => SetOf(m, sets[m]) \subseteq unused' \cup past'.spent
    BY <1>2, <2>1, <2>3 DEF AccountLive
  <2>5. \/ m \in past'.contested
        \/ unused' \cap CodesOf(m) \subseteq SetOf(m, sets[m])
    BY <1>4, <1>6, <2>1, <2>2 DEF AccountLive
  <2> QED
    BY <2>1, <2>2, <2>4, <2>5 DEF AccountLive, SetOf, CodesOf
<1>7. ASSUME NEW g \in Threads, Busy(g)', NEW q, q = requests'[g]
      PROVE  RequestLive(q)'
  <2> DEFINE r == requests[g]
  <2>1. /\ g # h /\ Busy(g) /\ q.op = r.op /\ q.step = r.step /\ q.name = r.name
        /\ q.marked = r.marked /\ (r.late => q.late)
        /\ g \in SetMakers(h) => q.late
    BY <1>7 DEF OthersGoOn
  <2>2. RequestLive(r) /\ r.name \in Names
    BY <2>1, CodesForm, BusyIsTyped DEF Base, Request
  <2>3. CASE q.op \in {"enrol", "regenerate"} /\ q.name = n
    <3>1. q.late
      BY <2>1, <2>3 DEF SetMakers, Others, Busy
    <3> QED
      BY <2>1, <2>2, <3>1 DEF RequestLive, CodesOf
  <2>4. CASE q.name # n
    <3>1. sets'[q.name] = sets[q.name] /\ unused' \cap CodesOf(q.name) \subseteq unused
      BY <1>1, <1>6, <2>1, <2>2, <2>4
    <3> QED
      BY <2>1, <2>2, <3>1 DEF RequestLive, CodesOf
  <2>5. CASE q.op \notin {"enrol", "regenerate"}
    BY <2>5 DEF RequestLive
  <2> QED
    BY <2>3, <2>4, <2>5
<1> QED
  BY <1>5, <1>6, <1>7 DEF CodesFit, CodesAreLive, AccountLive, RequestLive, Busy

LEMMA EnrolmentLive ==
  ASSUME Base, CodesFit, NEW h \in Threads, CommitEnrolment(h)
  PROVE  CodesFit'
<1> DEFINE n == requests[h].name
           x == <<n, Step(requests[h].at)>>
           contested == IF Others(h, {"enrol", "totp"}, n) = {} THEN past.contested
                        ELSE past.contested \cup {x}
<1>1. /\ Busy(h) /\ requests[h].op = "enrol" /\ n \in Names
      /\ rows[n] # Nothing /\ Advances(n) /\ rows'[n].enrolled
      /\ rows'[n].lastUsed = requests[h].at
      /\ rows'[n].changedAt = rows[n].changedAt
      /\ past'.spent = past.spent \cup {x}
      /\ past'.contested = Crowded(h, contested)
      /\ AddSet(h, unused) /\ OthersGoOn(h, SetMakers(h))
  BY EnrolmentForm
<1>2. past.spent \subseteq past'.spent /\ past.contested \subseteq contested
  BY <1>1
<1> HIDE DEF contested, x
<1>3. RowsFit /\ rows'[n] # Nothing
  BY <1>1, OneRowFits DEF Base, TimesFit, Advances, OnlyRow
<1>4. /\ sets[n] \in Nat /\ sets' = [sets EXCEPT ![n] = sets[n] + 1]
      /\ sets'[n] = sets[n] + 1
      /\ unused' = unused \cup SetOf(n, sets[n] + 1)
  BY <1>1, <1>3, AddSetForm
<1>5. requests[h].late \/ unused \cap CodesOf(n) = {}
  <2>1. requests[h].late \/ sets[n] = 0
    BY <1>1, CodesForm DEF RequestLive
  <2>2. \A c \in unused \cap CodesOf(n) : c[2] \in 1 .. MaxSets /\ c[2] <= sets[n]
    BY DEF Base, Types, TypeOK, CodesOf, Codes
  <2> QED
    BY <2>1, <2>2
<1> QED
  BY <1>1, <1>2, <1>4, <1>5, SetAdded

LEMMA RegenerationLive ==
  ASSUME Base, CodesFit, NEW h \in Threads, CommitCodes(h)
  PROVE  CodesFit'
<1> DEFINE n == requests[h].name
           left == unused \ requests[h].marked
<1>1. /\ Busy(h) /\ requests[h].op = "regenerate" /\ requests[h].step = "retired"
      /\ n \in Names /\ rows[n] # Nothing /\ rows[n].enrolled
      /\ past'.spent = past.spent
      /\ past'.contested = Crowded(h, past.contested)
      /\ AddSet(h, left) /\ OthersGoOn(h, SetMakers(h)) /\ UNCHANGED rows
  BY RegenerationForm
<1>2. RequestLive(requests[h])
  BY <1>1, CodesForm
<1>3. /\ unused \ left \subseteq CodesOf(n) /\ left \subseteq unused
      /\ requests[h].late \/ left \cap CodesOf(n) = {}
  BY <1>1, <1>2 DEF RequestLive
<1>4. RowsFit /\ rows'[n] # Nothing /\ rows'[n].enrolled
  BY <1>1, RowsUnchangedFit
<1> HIDE DEF left
<1>5. /\ sets[n] \in Nat /\ sets' = [sets EXCEPT ![n] = sets[n] + 1]
      /\ sets'[n] = sets[n] + 1
      /\ unused' = left \cup SetOf(n, sets[n] + 1)
  BY <1>1, <1>3, <1>4, AddSetForm
<1> QED
  BY <1>1, <1>3, <1>5, SetAdded

LEMMA CodesStep == Base /\ CodesFit /\ [Next]_vars => CodesFit'
<1> SUFFICES ASSUME Base, CodesFit, [Next]_vars PROVE CodesFit'
  OBVIOUS
<1>1. ASSUME NEW h \in Threads, NEW overtaken, OthersGoOn(h, overtaken)
      PROVE  MarksKept
  BY <1>1 DEF OthersGoOn, MarksKept
<1>2. ASSUME UNCHANGED requests
      PROVE  MarksKept
  BY <1>2 DEF MarksKept, Busy
<1>3. CASE Dropped
  BY <1>1, <1>3, KeptLive DEF Dropped
<1>4. ASSUME NEW h \in Threads, Commit(h)
      PROVE  CodesFit'
  <2>1. CASE CommitEnrolment(h)
    BY <2>1, EnrolmentLive
  <2>2. CASE CommitCodes(h)
    BY <2>2, RegenerationLive
  <2>3. CASE CommitRegistration(h)
    <3>1. /\ past.spent \subseteq past'.spent /\ past.contested \subseteq past'.contested
          /\ OthersGoOn(h, {}) /\ UNCHANGED <<sets, unused>>
      BY <2>3, RegistrationForm
    <3> QED
      BY <1>1, <3>1, KeptLive
  <2>4. CASE VerifyTotp(h)
    <3>1. /\ past.spent \subseteq past'.spent /\ past.contested \subseteq past'.contested
          /\ OthersGoOn(h, {}) /\ UNCHANGED <<sets, unused>>
      BY <2>4, VerificationForm
    <3> QED
      BY <1>1, <3>1, KeptLive
  <2>5. CASE SpendCode(h)
    <3>1. /\ past'.spent = past.spent \cup {requests[h].item}
          /\ past.contested \subseteq past'.contested
          /\ unused' = unused \ {requests[h].item}
          /\ OthersGoOn(h, {}) /\ UNCHANGED sets
      BY <2>5, SpendingForm
    <3> QED
      BY <1>1, <3>1, KeptLive
  <2>6. CASE Login(h) \/ IssueReset(h)
    <3>1. OthersGoOn(h, {}) /\ UNCHANGED <<sets, unused, past>>
      BY <2>6, LoginForm
    <3> QED
      BY <1>1, <3>1, KeptLive
  <2>7. CASE CountFailure(h)
    <3>1. /\ past'.spent = past.spent /\ past'.contested = past.contested
          /\ OthersGoOn(h, Others(h, {"recovery"}, requests[h].name))
          /\ UNCHANGED <<sets, unused>>
      BY <2>7, FailureForm
    <3> QED
      BY <1>1, <3>1, KeptLive
  <2>8. CASE CommitReset(h)
    <3>1. /\ OthersGoOn(h, Others(h, AllOperations, requests[h].name))
          /\ UNCHANGED <<sets, unused, past>>
      BY <2>8, ResetForm
    <3> QED
      BY <1>1, <3>1, KeptLive
  <2> QED
    BY <1>4, <2>1, <2>2, <2>3, <2>4, <2>5, <2>6, <2>7, <2>8 DEF Commit
<1>5. CASE Passing
  <2>1. UNCHANGED <<sets, unused, past, requests>>
    BY <1>5 DEF Passing, Expire, Discard, Tick
  <2> QED
    BY <1>2, <2>1, KeptLive
<1>6. CASE UNCHANGED vars
  BY <1>2, <1>6, KeptLive DEF vars
<1> QED
  BY <1>3, <1>4, <1>5, <1>6, StepCases, PreparedLive

(* The codes of the last set are unused or spent, and no other code of the *)
(* account is unused: a set is only committed by a request that found none *)
(* or retired what it found, and one that another overtook is remembered.  *)
THEOREM LastCodesAreLive == Spec => []CodesAreLive
<1>1. Init => CodesFit
  BY DEF Init, NoPast, CodesFit, CodesAreLive, Busy
<1>2. CodesFit => CodesAreLive
  BY DEF CodesFit
<1> QED
  BY <1>1, <1>2, CodesStep, BaseHolds, PTL DEF Spec
-----------------------------------------------------------------------------
(* Single use. *)

(* What UsesFit says of invitations and codes, and of TOTP steps: a step   *)
(* that was accepted is remembered by its account and by every request of  *)
(* it that will look at what it remembers.                                 *)
ItemsUsed ==
  /\ SingleUse
  /\ \A h \in Threads : Busy(h) /\ requests[h].item \in past.spent
                          => requests[h].item \in past.contested
  /\ \A c \in past.spent \cap Codes : c[2] <= sets[c[1]]

RequestRemembers(r, s) ==
  /\ r.op # "enrol"
  /\ r.op = "totp" => r.read # Never /\ s <= Step(r.read)

Remembered(n, s) ==
  /\ rows[n].lastUsed # Never /\ s <= Step(rows[n].lastUsed)
  /\ \A h \in Threads : Busy(h) /\ requests[h].name = n
                          => RequestRemembers(requests[h], s)

StepUsed(n, s) ==
  /\ rows[n] # Nothing /\ rows[n].enrolled
  /\ s <= Step(clock)
  /\ <<n, s>> \in past.contested \/ Remembered(n, s)

StepsUsed == \A n \in Names, s \in Nat : <<n, s>> \in past.spent => StepUsed(n, s)

LEMMA UsesForm == UsesFit <=> ItemsUsed /\ StepsUsed
  BY DEF UsesFit, ItemsUsed, StepsUsed, StepUsed, Remembered, RequestRemembers

ItemsKept ==
  \A g \in Threads : Busy(g)' =>
    /\ Busy(g) /\ requests'[g].op = requests[g].op
    /\ requests'[g].name = requests[g].name
    /\ requests'[g].item = requests[g].item
    /\ requests'[g].read = requests[g].read

(* What a commit that accepts X has to see to, for X to be used once. *)
LEMMA ItemsAccepted ==
  ASSUME Base, ItemsUsed, ItemsKept, NEW X, X \subseteq Things,
         past'.spent = past.spent \cup X,
         past'.respent = past.respent \cup (X \cap past.spent),
         past.contested \cap Things \subseteq past'.contested,
         X \cap past.spent \subseteq past'.contested,
         \A g \in Threads : Busy(g)' /\ requests[g].item \in X
                              => requests[g].item \in past'.contested,
         past'.spent \cap unused' = {},
         \A c \in past'.spent \cap Codes : c[2] <= sets'[c[1]],
         \A i \in Invitations : invitations[i] = "used" \/ i \in X
                                  => invitations'[i] = "used"
  PROVE  ItemsUsed'
<1>1. past.spent \subseteq Things /\ past.respent \subseteq past.spent
  BY DEF Base, Types, TypeOK, Past
<1>2. SingleUse'
  <2>1. past'.respent \subseteq past'.contested
    BY <1>1 DEF ItemsUsed, SingleUse
  <2>2. \A i \in Invitations \cap past'.spent : invitations'[i] = "used"
    BY DEF ItemsUsed, SingleUse
  <2> QED
    BY <2>1, <2>2 DEF SingleUse
<1>3. ASSUME NEW g \in Threads, Busy(g)', requests'[g].item \in past'.spent
      PROVE  requests'[g].item \in past'.contested
  <2>1. Busy(g) /\ requests'[g].item = requests[g].item
    BY <1>3 DEF ItemsKept
  <2> QED
    BY <1>1, <1>3, <2>1 DEF ItemsUsed
<1> QED
  BY <1>2, <1>3 DEF ItemsUsed, Busy

(* Codes of a set that is added are not spent. *)
LEMMA UnusedAreUnspent ==
  ASSUME Base, ItemsUsed, \A c \in unused' \ unused : c \in Codes /\ c[2] > sets[c[1]]
  PROVE  past.spent \cap unused' = {}
<1>1. SUFFICES ASSUME NEW c \in past.spent, c \in unused'
               PROVE  FALSE
  OBVIOUS
<1>2. c \notin unused
  BY <1>1 DEF ItemsUsed, SingleUse
<1>3. c \in Codes /\ c[2] > sets[c[1]] /\ c[2] <= sets[c[1]]
  BY <1>1, <1>2 DEF ItemsUsed
<1>4. c[1] \in Names /\ c[2] \in Nat
  BY <1>3 DEF Codes
<1>5. sets[c[1]] \in Nat
  BY <1>4, Numbers DEF Base, Types, TypeOK
<1> QED
  BY <1>3, <1>4, <1>5

(* An accepted step stays used while time goes on, and its account's row   *)
(* keeps the time of its last use.                                         *)
LEMMA StepKept ==
  ASSUME Base, NEW n \in Names, NEW s \in Nat, StepUsed(n, s), ItemsKept,
         <<n, s>> \in past.contested => <<n, s>> \in past'.contested,
         rows'[n] # Nothing, rows'[n].enrolled, rows'[n].lastUsed = rows[n].lastUsed,
         clock' \in Nat, clock <= clock'
  PROVE  StepUsed(n, s)'
<1>1. s <= Step(clock')
  <2>1. clock \in Nat
    BY Numbers DEF Base, Types, TypeOK, Time
  <2>2. Step(clock) \in Nat /\ Step(clock') \in Nat /\ Step(clock) <= Step(clock')
    BY <2>1, Numbers, DivisionIsMonotone DEF Step
  <2> QED
    BY <2>2 DEF StepUsed
<1>2. ASSUME Remembered(n, s)
      PROVE  Remembered(n, s)'
  <2>1. ASSUME NEW g \in Threads, Busy(g)', requests'[g].name = n,
               NEW q, q = requests'[g]
        PROVE  RequestRemembers(q, s)'
    BY <1>2, <2>1 DEF ItemsKept, Remembered, RequestRemembers
  <2> QED
    BY <1>2, <2>1 DEF Remembered, RequestRemembers, Busy
<1> QED
  BY <1>1, <1>2 DEF StepUsed

(* Commits that accept no step, and all that happens between commits. *)
LEMMA StepsKept ==
  ASSUME Base, StepsUsed, ItemsKept,
         \A n \in Names, s \in Nat : <<n, s>> \in past'.spent => <<n, s>> \in past.spent,
         past.contested \cap Things \subseteq past'.contested,
         \A n \in Names : rows[n] # Nothing /\ rows[n].enrolled =>
           /\ rows'[n] # Nothing /\ rows'[n].enrolled
           /\ rows'[n].lastUsed = rows[n].lastUsed,
         clock' \in Nat, clock <= clock'
  PROVE  StepsUsed'
<1>1. ASSUME NEW n \in Names, NEW s \in Nat, <<n, s>> \in past'.spent
      PROVE  StepUsed(n, s)'
  <2>1. StepUsed(n, s)
    BY <1>1 DEF StepsUsed
  <2>2. <<n, s>> \in past.contested => <<n, s>> \in past'.contested
    BY KindsDiffer
  <2>3. rows[n] # Nothing /\ rows[n].enrolled
    BY <2>1 DEF StepUsed
  <2> QED
    BY <2>1, <2>2, <2>3, StepKept
<1> QED
  BY <1>1 DEF StepsUsed

(* Most steps accept nothing. *)
LEMMA NothingAccepted ==
  ASSUME Base, UsesFit, ItemsKept,
         past'.spent = past.spent, past'.respent = past.respent,
         past.contested \cap Things \subseteq past'.contested,
         \A n \in Names : rows[n] # Nothing /\ rows[n].enrolled =>
           /\ rows'[n] # Nothing /\ rows'[n].enrolled
           /\ rows'[n].lastUsed = rows[n].lastUsed,
         clock' \in Nat, clock <= clock',
         \A c \in unused' \ unused : c \in Codes /\ c[2] > sets[c[1]],
         \A n \in Names : sets[n] \in Nat /\ sets'[n] \in Nat /\ sets[n] <= sets'[n],
         \A i \in Invitations : invitations[i] = "used" => invitations'[i] = "used"
  PROVE  UsesFit'
<1>1. ItemsUsed /\ StepsUsed
  BY UsesForm
<1>2. \A c \in past.spent \cap Codes : c[2] <= sets'[c[1]]
  <2> SUFFICES ASSUME NEW c \in past.spent \cap Codes
               PROVE  c[2] <= sets'[c[1]]
    OBVIOUS
  <2>1. c[1] \in Names /\ c[2] \in Nat /\ c[2] <= sets[c[1]]
    BY <1>1 DEF ItemsUsed, Codes
  <2> QED
    BY <2>1
<1>3. past.spent \cap unused' = {}
  BY <1>1, UnusedAreUnspent
<1>4. ItemsUsed'
  <2> DEFINE X == {}
  <2>1. /\ past'.spent = past.spent \cup X
        /\ past'.respent = past.respent \cup (X \cap past.spent)
        /\ X \subseteq Things
    OBVIOUS
  <2> QED
    BY <1>1, <1>2, <1>3, <2>1, ItemsAccepted
<1>5. StepsUsed'
  BY <1>1, StepsKept
<1>6. ItemsUsed' /\ StepsUsed' => UsesFit'
  BY UsesForm, PTL
<1> QED
  BY <1>4, <1>5, <1>6

LEMMA UsesFormNext == ItemsUsed' /\ StepsUsed' => UsesFit'
  BY UsesForm, PTL

(* A request is at an item that is not spent yet, and knows all that its   *)
(* account remembers.                                                      *)
LEMMA PreparedUses ==
  ASSUME Base, UsesFit, NEW h \in Threads, NEW r, Preparation(h, r)
  PROVE  UsesFit'
<1>1. /\ requests \in [Threads -> Request \cup {Idle}]
      /\ requests' = [requests EXCEPT ![h] = r]
      /\ UNCHANGED <<clock, rows, invitations, sets, unused, past>>
  BY DEF Preparation, OnlyTheRequest, Base, Types, TypeOK
<1>2. ItemsUsed /\ StepsUsed /\ past.spent \subseteq Things
  BY UsesForm DEF Base, Types, Past
<1>3. r.item \in past.spent => r.item \in past.contested
  <2>1. ASSUME Begun(r)
        PROVE  r.item \notin past.spent
    BY <1>2, <2>1, KindsDiffer DEF Begun, ItemsUsed, SingleUse
  <2>2. ASSUME Continued(h, r)
        PROVE  r.item \in past.spent => r.item \in past.contested
    BY <1>2, <2>2 DEF Continued, ItemsUsed, SingleUse
  <2> QED
    BY <2>1, <2>2 DEF Preparation
<1>4. ASSUME NEW s \in Nat, <<r.name, s>> \in past.spent, Remembered(r.name, s)
      PROVE  RequestRemembers(r, s)
  <2>1. r.name \in Names
    BY PreparedFits DEF Request
  <2>2. StepUsed(r.name, s)
    BY <1>2, <1>4, <2>1 DEF StepsUsed
  <2>3. ASSUME Begun(r)
        PROVE  RequestRemembers(r, s)
    BY <1>4, <2>2, <2>3 DEF Begun, StepUsed, Remembered, RequestRemembers
  <2>4. ASSUME Continued(h, r)
        PROVE  RequestRemembers(r, s)
    BY <1>4, <2>4 DEF Continued, Remembered, RequestRemembers
  <2> QED
    BY <2>3, <2>4 DEF Preparation
<1>5. \A g \in Threads : requests'[g] = IF g = h THEN r ELSE requests[g]
  BY <1>1
<1>6. ItemsUsed'
  BY <1>1, <1>2, <1>3, <1>5 DEF ItemsUsed, SingleUse, Busy
<1>7. ASSUME NEW n \in Names, NEW s \in Nat, <<n, s>> \in past.spent
      PROVE  StepUsed(n, s)'
  <2>1. StepUsed(n, s)
    BY <1>2, <1>7 DEF StepsUsed
  <2>2. ASSUME Remembered(n, s)
        PROVE  Remembered(n, s)'
    <3>1. ASSUME NEW g \in Threads, Busy(g)', requests'[g].name = n,
                 NEW q, q = requests'[g]
          PROVE  RequestRemembers(q, s)'
      BY <1>4, <1>5, <1>7, <2>2, <3>1 DEF Remembered, RequestRemembers, Busy
    <3> QED
      BY <1>1, <2>2, <3>1 DEF Remembered, RequestRemembers, Busy
  <2> QED
    BY <1>1, <2>1, <2>2 DEF StepUsed, Step
<1>8. StepsUsed'
  BY <1>1, <1>7 DEF StepsUsed
<1> QED
  BY <1>6, <1>8, UsesFormNext

LEMMA OthersKeepItems ==
  ASSUME NEW h \in Threads, NEW overtaken, OthersGoOn(h, overtaken)
  PROVE  /\ ItemsKept
         /\ \A g \in Threads : Busy(g)' => g # h /\ Busy(g)
  BY DEF OthersGoOn, ItemsKept

(* The item is used up by the first request that accepts it, and contested *)
(* if another request was at it by then.                                   *)
LEMMA RegistrationUses ==
  ASSUME Base, UsesFit, NEW h \in Threads, CommitRegistration(h)
  PROVE  UsesFit'
<1> DEFINE n == requests[h].name
           i == requests[h].item
<1>0. /\ ItemsUsed /\ StepsUsed /\ past.spent \subseteq Things
      /\ invitations \in [Invitations -> {"none", "free", "expired", "used"}]
      /\ clock \in Nat
  BY UsesForm, Numbers DEF Base, Types, TypeOK, Past, Time
<1>1. /\ Busy(h) /\ n \in Names
  BY CommittingForm DEF CommitRegistration
<1>2. /\ i \in Invitations /\ i \in Things
      /\ rows[n] = Nothing /\ OnlyRow(n)
      /\ invitations' = [invitations EXCEPT ![i] = "used"]
      /\ past'.spent = past.spent \cup {i}
      /\ past'.respent = past.respent \cup ({i} \cap past.spent)
      /\ past'.contested = IF Rivals(h) = {} THEN past.contested
                                             ELSE past.contested \cup {i}
      /\ OthersGoOn(h, {})
      /\ UNCHANGED <<clock, sets, unused>>
  BY RegistrationForm
<1>3. ItemsKept /\ \A g \in Threads : Busy(g)' => g # h /\ Busy(g)
  BY <1>2, OthersKeepItems
<1>4. past.contested \cap Things \subseteq past'.contested
  BY <1>2
<1>5. ASSUME NEW g \in Threads, Busy(g)', requests[g].item = i
      PROVE  i \in past'.contested
  BY <1>2, <1>3, <1>5 DEF Rivals, Busy
<1>6. {i} \cap past.spent \subseteq past'.contested
  BY <1>0, <1>1, <1>4, <1>2 DEF ItemsUsed
<1>7. past'.spent \cap unused' = {}
  <2>1. i \notin unused
    BY <1>2, KindsDiffer DEF Base, Types, TypeOK
  <2> QED
    BY <1>0, <1>2, <2>1 DEF ItemsUsed, SingleUse
<1>8. \A c \in past'.spent \cap Codes : c[2] <= sets'[c[1]]
  BY <1>0, <1>2, KindsDiffer DEF ItemsUsed
<1>9. \A j \in Invitations : invitations[j] = "used" \/ j \in {i}
                               => invitations'[j] = "used"
  BY <1>0, <1>2
<1>10. ItemsUsed'
  <2> DEFINE X == {i}
  <2>1. /\ X \subseteq Things
        /\ \A g \in Threads : Busy(g)' /\ requests[g].item \in X
                                => requests[g].item \in past'.contested
    BY <1>2, <1>5
  <2> QED
    BY <1>0, <1>2, <1>3, <1>4, <1>6, <1>7, <1>8, <1>9, <2>1, ItemsAccepted
<1>11. StepsUsed'
  <2>1. \A m \in Names, s \in Nat : <<m, s>> \in past'.spent => <<m, s>> \in past.spent
    BY <1>2, KindsDiffer
  <2>2. \A m \in Names : rows[m] # Nothing => rows'[m] = rows[m]
    BY <1>1, <1>2 DEF OnlyRow
  <2>3. clock' \in Nat /\ clock <= clock'
    BY <1>0, <1>2
  <2> QED
    BY <1>0, <1>3, <1>4, <2>1, <2>2, <2>3, StepsKept
<1> QED
  BY <1>10, <1>11, UsesFormNext

LEMMA SpendingUses ==
  ASSUME Base, UsesFit, NEW h \in Threads, SpendCode(h)
  PROVE  UsesFit'
<1> DEFINE c == requests[h].item
<1>0. /\ ItemsUsed /\ StepsUsed /\ past.spent \subseteq Things /\ clock \in Nat
  BY UsesForm, Numbers DEF Base, Types, TypeOK, Past, Time
<1>1. /\ Busy(h) /\ c \in Codes /\ c \in Things
      /\ c \in CodesOf(requests[h].name) /\ c[2] <= sets[requests[h].name]
      /\ past'.spent = past.spent \cup {c}
      /\ past'.respent = past.respent \cup ({c} \cap past.spent)
      /\ past'.contested = IF Rivals(h) = {} THEN past.contested
                                             ELSE past.contested \cup {c}
      /\ OthersGoOn(h, {}) /\ unused' = unused \ {c}
      /\ UNCHANGED <<clock, rows, invitations, sets>>
  BY SpendingForm
<1>2. c[2] <= sets[c[1]]
  BY <1>1 DEF CodesOf
<1>3. ItemsKept /\ \A g \in Threads : Busy(g)' => g # h /\ Busy(g)
  BY <1>1, OthersKeepItems
<1>4. past.contested \cap Things \subseteq past'.contested
  BY <1>1
<1>5. ASSUME NEW g \in Threads, Busy(g)', requests[g].item = c
      PROVE  c \in past'.contested
  BY <1>1, <1>3, <1>5 DEF Rivals, Busy
<1>6. {c} \cap past.spent \subseteq past'.contested
  BY <1>0, <1>1, <1>4 DEF ItemsUsed
<1>7. /\ past'.spent \cap unused' = {}
      /\ \A d \in past'.spent \cap Codes : d[2] <= sets'[d[1]]
  BY <1>0, <1>1, <1>2 DEF ItemsUsed, SingleUse
<1>8. \A j \in Invitations : invitations[j] = "used" \/ j \in {c}
                               => invitations'[j] = "used"
  BY <1>1, KindsDiffer
<1>9. ItemsUsed'
  <2> DEFINE X == {c}
  <2>1. /\ X \subseteq Things
        /\ \A g \in Threads : Busy(g)' /\ requests[g].item \in X
                                => requests[g].item \in past'.contested
    BY <1>1, <1>5
  <2> QED
    BY <1>0, <1>1, <1>3, <1>4, <1>6, <1>7, <1>8, <2>1, ItemsAccepted
<1>10. StepsUsed'
  <2>1. \A m \in Names, s \in Nat : <<m, s>> \in past'.spent => <<m, s>> \in past.spent
    BY <1>1, KindsDiffer
  <2>2. clock' \in Nat /\ clock <= clock'
    BY <1>0, <1>1
  <2> QED
    BY <1>0, <1>1, <1>3, <1>4, <2>1, <2>2, StepsKept
<1> QED
  BY <1>9, <1>10, UsesFormNext

(* A step that is accepted: what the account remembers from then on covers *)
(* it, and so does every request that is to look at it, unless it was      *)
(* under way already and makes the step a contested one.                   *)
LEMMA StepAccepted ==
  ASSUME Base, UsesFit, NEW h \in Threads, Busy(h),
         NEW n \in Names, n = requests[h].name, NEW s \in Nat, NEW overtaken,
         OthersGoOn(h, overtaken),
         past'.spent = past.spent \cup {<<n, s>>},
         past'.respent = past.respent \cup ({<<n, s>>} \cap past.spent),
         past.contested \cap Things \subseteq past'.contested,
         Others(h, {"enrol", "totp"}, n) # {} => <<n, s>> \in past'.contested,
         OnlyRow(n), rows'[n].enrolled, rows'[n].lastUsed # Never,
         s <= Step(rows'[n].lastUsed), s <= Step(clock),
         \A u \in Nat : <<n, u>> \in past.spent /\ <<n, u>> \notin past.contested
                          => u # s /\ u <= Step(rows'[n].lastUsed),
         UNCHANGED <<clock, invitations>>,
         \A c \in unused' \ unused : c \in Codes /\ c[2] > sets[c[1]],
         \A m \in Names : sets[m] \in Nat /\ sets'[m] \in Nat /\ sets[m] <= sets'[m]
  PROVE  UsesFit'
<1> DEFINE x == <<n, s>>
<1>0. /\ ItemsUsed /\ StepsUsed /\ past.spent \subseteq Things /\ clock \in Nat
      /\ unused \subseteq Codes
  BY UsesForm, Numbers DEF Base, Types, TypeOK, Past, Time
<1>1. x \in Things /\ x \notin Codes /\ x \notin Invitations /\ x # Nothing
  BY KindsDiffer
<1>2. x \notin Items
  BY <1>1 DEF Items
<1>3. ItemsKept /\ \A g \in Threads : Busy(g)' => g # h /\ Busy(g)
  BY OthersKeepItems
<1>4. \A g \in Threads : Busy(g) => requests[g].item # x
  BY <1>1, <1>2, BusyIsTyped DEF Base, Request
<1>5. x \in past.spent => x \in past.contested
  OBVIOUS
<1>6. /\ past'.spent \cap unused' = {}
      /\ \A c \in past'.spent \cap Codes : c[2] <= sets'[c[1]]
  <2>1. past.spent \cap unused' = {}
    BY <1>0, UnusedAreUnspent
  <2>2. x \notin unused'
    BY <1>0, <1>1
  <2>3. ASSUME NEW c \in past.spent \cap Codes
        PROVE  c[2] <= sets'[c[1]]
    <3>1. c[1] \in Names /\ c[2] \in Nat /\ c[2] <= sets[c[1]]
      BY <1>0 DEF ItemsUsed, Codes
    <3> QED
      BY <3>1
  <2> QED
    BY <1>1, <2>1, <2>2, <2>3
<1> HIDE DEF x
<1>7. ItemsUsed'
  <2> DEFINE X == {x}
  <2>1. /\ X \subseteq Things
        /\ past'.spent = past.spent \cup X
        /\ past'.respent = past.respent \cup (X \cap past.spent)
        /\ X \cap past.spent \subseteq past'.contested
        /\ \A g \in Threads : Busy(g)' /\ requests[g].item \in X
                                => requests[g].item \in past'.contested
        /\ \A i \in Invitations : invitations[i] = "used" \/ i \in X
                                    => invitations'[i] = "used"
    BY <1>1, <1>3, <1>4, <1>5 DEF x
  <2> QED
    BY <1>0, <1>3, <1>6, <2>1, ItemsAccepted
<1>8. ASSUME NEW m \in Names, NEW u \in Nat, <<m, u>> \in past'.spent
      PROVE  StepUsed(m, u)'
  <2>1. <<m, u>> \in past.contested => <<m, u>> \in past'.contested
    BY KindsDiffer
  <2>2. CASE m # n
    <3>1. <<m, u>> \in past.spent
      BY <1>8, <2>2
    <3>2. StepUsed(m, u) /\ rows'[m] = rows[m]
      BY <1>0, <2>2, <3>1 DEF StepsUsed, OnlyRow
    <3>3. rows'[m] # Nothing /\ rows'[m].enrolled /\ rows'[m].lastUsed = rows[m].lastUsed
      BY <3>2 DEF StepUsed
    <3>4. clock' \in Nat /\ clock <= clock'
      BY <1>0
    <3> QED
      BY <1>3, <2>1, <3>2, <3>3, <3>4, StepKept
  <2>3. CASE m = n /\ u # s
    <3>1. StepUsed(n, u) /\ <<n, u>> \in past.spent
      BY <1>0, <1>8, <2>3 DEF StepsUsed
    <3>2. ASSUME <<n, u>> \notin past.contested
          PROVE  Remembered(n, u)'
      <4>1. Remembered(n, u)
        BY <3>1, <3>2 DEF StepUsed
      <4>2. ASSUME NEW g \in Threads, Busy(g)', requests'[g].name = n,
                   NEW q, q = requests'[g]
            PROVE  RequestRemembers(q, u)'
        BY <1>3, <4>1, <4>2 DEF ItemsKept, Remembered, RequestRemembers
      <4>3. u <= Step(rows'[n].lastUsed)
        BY <3>1, <3>2
      <4> QED
        BY <4>2, <4>3 DEF Remembered, RequestRemembers, Busy
    <3> QED
      BY <2>1, <2>3, <3>1, <3>2 DEF StepUsed, OnlyRow, Step
  <2>4. CASE m = n /\ u = s
    <3>1. ASSUME x \notin past'.contested
          PROVE  Remembered(n, s)'
      <4>1. Others(h, {"enrol", "totp"}, n) = {}
        BY <3>1 DEF x
      <4>2. ASSUME NEW g \in Threads, Busy(g)', requests'[g].name = n,
                   NEW q, q = requests'[g]
            PROVE  RequestRemembers(q, s)'
        <5>1. g # h /\ Busy(g) /\ requests[g].name = n /\ q.op = requests[g].op
          BY <1>3, <4>2 DEF ItemsKept
        <5>2. requests[g].op \notin {"enrol", "totp"}
          BY <4>1, <5>1 DEF Others, Busy
        <5> QED
          BY <5>1, <5>2 DEF RequestRemembers
      <4> QED
        BY <4>2 DEF Remembered, RequestRemembers, Busy
    <3> QED
      BY <2>4, <3>1 DEF StepUsed, OnlyRow, Step, x
  <2> QED
    BY <2>2, <2>3, <2>4
<1> QED
  BY <1>7, <1>8, UsesFormNext DEF StepsUsed

LEMMA EnrolmentUses ==
  ASSUME Base, UsesFit, NEW h \in Threads, CommitEnrolment(h)
  PROVE  UsesFit'
<1> DEFINE n == requests[h].name
           at == requests[h].at
           x == <<n, Step(at)>>
           rivals == Others(h, {"enrol", "totp"}, n)
<1>1. /\ Busy(h) /\ requests[h].op = "enrol" /\ n \in Names
      /\ x \in Things /\ Step(at) \in Nat
      /\ rows[n] # Nothing /\ Advances(n) /\ rows'[n].enrolled
      /\ rows'[n].lastUsed = at /\ rows'[n].changedAt = rows[n].changedAt
      /\ past'.spent = past.spent \cup {x}
      /\ past'.respent = past.respent \cup ({x} \cap past.spent)
      /\ past'.contested = Crowded(h, IF rivals = {} THEN past.contested
                                                     ELSE past.contested \cup {x})
      /\ AddSet(h, unused) /\ OthersGoOn(h, SetMakers(h))
      /\ UNCHANGED <<clock, invitations>>
  BY EnrolmentForm
<1>2. /\ past.contested \cap Things \subseteq past'.contested
      /\ rivals # {} => x \in past'.contested
  BY <1>1, KindsDiffer DEF Crowded
<1>3. OnlyRow(n) /\ RowsFit
  BY <1>1, OneRowFits DEF Base, TimesFit, Advances
<1>4. at \in Time /\ at <= clock /\ clock \in Nat
  BY <1>1, BusyIsTyped, Numbers DEF Base, Types, TypeOK, TimesFit, Request, Time
<1>5. at # Never /\ Step(at) <= Step(at) /\ Step(at) <= Step(clock)
  BY <1>4, Numbers, DivisionIsMonotone DEF Step, Time, Never
<1>6. \A u \in Nat : <<n, u>> \in past.spent => <<n, u>> \in past.contested
  BY <1>1, UsesForm DEF StepsUsed, StepUsed, Remembered, RequestRemembers
<1>7. /\ sets' \in [Names -> 0 .. MaxSets] /\ \A m \in Names : sets[m] <= sets'[m]
      /\ unused' \subseteq Codes
  <2>1. rows'[n] # Nothing
    BY <1>3 DEF OnlyRow
  <2>2. CodesGrow
    BY <1>1, <1>3, <2>1, AddSetForm
  <2> QED
    BY <2>2 DEF CodesGrow
<1>8. \A m \in Names : sets[m] \in Nat /\ sets'[m] \in Nat /\ sets[m] <= sets'[m]
  BY <1>7, Numbers DEF Base, Types, TypeOK
<1>9. \A c \in unused' \ unused : c \in Codes /\ c[2] > sets[c[1]]
  BY <1>7, NewCodes DEF Commit
<1> HIDE DEF rivals
<1> QED
  BY <1>1, <1>2, <1>3, <1>5, <1>6, <1>8, <1>9, StepAccepted DEF rivals

(* A verification that read a last use in the present step is refused; one *)
(* that read an earlier one meets no accepted step but contested ones.     *)
LEMMA VerificationUses ==
  ASSUME Base, UsesFit, NEW h \in Threads, VerifyTotp(h)
  PROVE  UsesFit'
<1> DEFINE n == requests[h].name
           read == requests[h].read
           s == Step(clock)
           x == <<n, s>>
           rivals == Others(h, {"enrol", "totp"}, n)
<1>1. /\ Busy(h) /\ requests[h].op = "totp" /\ n \in Names
      /\ x \in Things /\ s \in Nat
      /\ rows[n] # Nothing /\ Advances(n) /\ rows'[n].enrolled
      /\ rows'[n].lastUsed = clock
      /\ past'.spent = past.spent \cup {x}
      /\ past'.respent = past.respent \cup ({x} \cap past.spent)
      /\ past'.contested = IF rivals = {} THEN past.contested
                                          ELSE past.contested \cup {x}
      /\ OthersGoOn(h, {}) /\ UNCHANGED <<clock, invitations, sets, unused>>
  BY VerificationForm
<1>2. /\ past.contested \cap Things \subseteq past'.contested
      /\ rivals # {} => x \in past'.contested
  BY <1>1
<1>3. clock \in Time /\ clock \in Nat /\ clock # Never
  BY Numbers DEF Base, Types, TypeOK, Time, Never
<1>4. read # Never => Step(read) \in Nat /\ Step(read) < s
  <2>1. SUFFICES ASSUME read # Never
                 PROVE  Step(read) \in Nat /\ Step(read) < s
    OBVIOUS
  <2>2. read \in Nat /\ read <= clock
    BY <1>1, <2>1, Numbers DEF Base, RequestsFit, TimesFit, Time
  <2>3. Step(read) # s
    BY <2>1 DEF VerifyTotp, IsNewCode
  <2>4. Step(read) \in Nat /\ Step(read) <= s
    BY <1>3, <2>2, Numbers, DivisionIsMonotone DEF Step
  <2> QED
    BY <1>1, <2>3, <2>4
<1>5. ASSUME NEW u \in Nat, <<n, u>> \in past.spent, <<n, u>> \notin past.contested
      PROVE  u # s /\ u <= s
  <2>1. read # Never /\ u <= Step(read)
    BY <1>1, <1>5, UsesForm DEF StepsUsed, StepUsed, Remembered, RequestRemembers
  <2> QED
    BY <1>1, <1>4, <2>1
<1>6. \A m \in Names : sets[m] \in Nat /\ sets[m] <= sets[m]
  BY Numbers DEF Base, Types, TypeOK
<1>7. /\ OnlyRow(n) /\ s <= s
      /\ \A c \in unused' \ unused : c \in Codes /\ c[2] > sets[c[1]]
      /\ \A m \in Names : sets[m] \in Nat /\ sets'[m] \in Nat /\ sets[m] <= sets'[m]
  BY <1>1, <1>6 DEF Advances
<1>8. rows'[n].lastUsed # Never /\ s <= Step(rows'[n].lastUsed)
  BY <1>1, <1>3, <1>7
<1>9. \A u \in Nat : <<n, u>> \in past.spent /\ <<n, u>> \notin past.contested
                       => u # s /\ u <= Step(rows'[n].lastUsed)
  BY <1>1, <1>5
<1> HIDE DEF rivals, s
<1> QED
  BY <1>1, <1>2, <1>7, <1>8, <1>9, StepAccepted DEF rivals, s

LEMMA UsesStep == Base /\ UsesFit /\ [Next]_vars => UsesFit'
<1> SUFFICES ASSUME Base, UsesFit, [Next]_vars PROVE UsesFit'
  OBVIOUS
<1>0. /\ clock \in Nat /\ clock <= clock /\ clock <= clock + 1
      /\ \A n \in Names : sets[n] \in Nat /\ sets[n] <= sets[n]
      /\ requests \in [Threads -> Request \cup {Idle}]
  BY Numbers DEF Base, Types, TypeOK, Time
<1>1. ASSUME ItemsKept, UNCHANGED <<rows, sets, unused, past>>,
             clock' \in Nat, clock <= clock',
             \A i \in Invitations : invitations[i] = "used" => invitations'[i] = "used"
      PROVE  UsesFit'
  BY <1>0, <1>1, NothingAccepted
<1>2. CASE Dropped
  <2>1. ItemsKept
    BY <1>2, OthersKeepItems DEF Dropped
  <2> QED
    BY <1>0, <1>1, <1>2, <2>1 DEF Dropped
<1>3. CASE Passing \/ UNCHANGED vars
  <2>1. UNCHANGED <<rows, sets, unused, past, requests>>
    BY <1>3 DEF Passing, Expire, Discard, Tick, vars
  <2>2. clock' \in Nat /\ clock <= clock'
    BY <1>0, <1>3 DEF Passing, Expire, Discard, Tick, vars
  <2>3. \A i \in Invitations : invitations[i] = "used" => invitations'[i] = "used"
    BY <1>3 DEF Passing, Expire, Discard, Tick, vars, Base, Types, TypeOK
  <2> QED
    BY <1>1, <2>1, <2>2, <2>3 DEF ItemsKept, Busy
<1>4. ASSUME NEW h \in Threads, Commit(h)
      PROVE  UsesFit'
  <2>1. CASE CommitRegistration(h)
    BY <2>1, RegistrationUses
  <2>2. CASE SpendCode(h)
    BY <2>2, SpendingUses
  <2>3. CASE CommitEnrolment(h)
    BY <2>3, EnrolmentUses
  <2>4. CASE VerifyTotp(h)
    BY <2>4, VerificationUses
  <2>5. CASE Login(h) \/ IssueReset(h)
    <3>1. /\ OthersGoOn(h, {})
          /\ UNCHANGED <<clock, rows, invitations, sets, unused, past>>
      BY <2>5, LoginForm
    <3> QED
      BY <1>0, <1>1, <3>1, OthersKeepItems
  <2>6. ASSUME NEW n \in Names, NEW overtaken, OthersGoOn(h, overtaken), Advances(n),
               rows[n] # Nothing, rows'[n].enrolled = rows[n].enrolled,
               rows'[n].lastUsed = rows[n].lastUsed,
               past'.spent = past.spent, past'.respent = past.respent,
               past'.contested = past.contested,
               UNCHANGED <<clock, invitations, sets, unused>>
        PROVE  UsesFit'
    <3>1. \A m \in Names : rows[m] # Nothing /\ rows[m].enrolled =>
            /\ rows'[m] # Nothing /\ rows'[m].enrolled
            /\ rows'[m].lastUsed = rows[m].lastUsed
      BY <2>6 DEF Advances, OnlyRow
    <3>2. ItemsKept
      BY <2>6, OthersKeepItems
    <3> QED
      BY <1>0, <2>6, <3>1, <3>2, NothingAccepted
  <2>7. CASE CountFailure(h)
    BY <2>6, <2>7, FailureForm
  <2>8. CASE CommitReset(h)
    BY <2>6, <2>8, ResetForm
  <2>9. CASE CommitCodes(h)
    <3> DEFINE n == requests[h].name
               left == unused \ requests[h].marked
    <3>1. /\ Busy(h) /\ n \in Names /\ rows[n] # Nothing /\ rows[n].enrolled
          /\ past'.spent = past.spent /\ past'.respent = past.respent
          /\ past'.contested = Crowded(h, past.contested)
          /\ AddSet(h, left) /\ OthersGoOn(h, SetMakers(h))
          /\ UNCHANGED <<clock, rows, invitations>>
      BY <2>9, RegenerationForm
    <3>2. past.contested \cap Things \subseteq past'.contested
      BY <3>1, KindsDiffer DEF Crowded
    <3>3. CodesGrow
      <4>1. left \subseteq unused /\ RowsFit /\ rows'[n] # Nothing /\ rows'[n].enrolled
        BY <3>1, RowsUnchangedFit
      <4> HIDE DEF left
      <4> QED
        BY <3>1, <4>1, AddSetForm
    <3>4. \A m \in Names : sets[m] \in Nat /\ sets'[m] \in Nat /\ sets[m] <= sets'[m]
      BY <1>0, <3>3, Numbers DEF CodesGrow
    <3>5. \A c \in unused' \ unused : c \in Codes /\ c[2] > sets[c[1]]
      BY <2>9, <3>3, NewCodes DEF Commit, CodesGrow
    <3>6. ItemsKept
      BY <3>1, OthersKeepItems
    <3> QED
      BY <1>0, <3>1, <3>2, <3>4, <3>5, <3>6, NothingAccepted
  <2> QED
    BY <1>4, <2>1, <2>2, <2>3, <2>4, <2>5, <2>7, <2>8, <2>9 DEF Commit
<1> QED
  BY <1>2, <1>3, <1>4, StepCases, PreparedUses

(* An invitation, a backup code, a TOTP step is accepted once unless two   *)
(* requests were at it at the same time: whoever comes later meets what    *)
(* the first left - a used invitation, a marked code, a last use that its  *)
(* own reading of the account cannot miss.                                 *)
THEOREM UsedOnce == Spec => []SingleUse
<1>1. Init => UsesFit
  BY DEF Init, NoPast, UsesFit, SingleUse, Busy
<1>2. UsesFit => SingleUse
  BY DEF UsesFit
<1> QED
  BY <1>1, <1>2, UsesStep, BaseHolds, PTL DEF Spec
=============================================================================

--------------------------- MODULE MfaEnrollment ---------------------------
(***************************************************************************)
(* The second factor of one account: MfaController, MfaService and         *)
(* MfaRepository, and the use AuthService.verifyMfaLogin makes of them.    *)
(*                                                                         *)
(* A TOTP secret is a number, in the order the secrets were generated; a   *)
(* row MfaRecoveryCode is <<set, n>>, the n-th code of the set-th set, and *)
(* a code a client types is the row it hashes to or <<0, s>>, the TOTP of  *)
(* secret s.  Prisma's $transaction([...]) runs its statements at READ     *)
(* COMMITTED: deleteMany removes the rows it saw, at the commit.           *)
(***************************************************************************)
EXTENDS Integers, FiniteSets

CONSTANTS Reqs,         \* the server's concurrent requests for this account
          PerSet,       \* RECOVERY_CODE_COUNT
          MaxSecrets,   \* bound: secrets generated
          MaxSets       \* bound: sets of recovery codes generated

ASSUME MfaOptions ==
    /\ IsFiniteSet(Reqs)
    /\ PerSet \in Nat \ {0}
    /\ MaxSecrets \in Nat
    /\ MaxSets \in Nat

VARIABLES enabled,     \* User.mfaEnabled
          secret,      \* User.mfaSecret, or NoSecret
          codes,       \* the rows of MfaRecoveryCode
          used,        \* those of them with usedAt set
          secrets,     \* how many secrets beginSetup has generated
          sets,        \* how many sets of codes confirmSetup has generated
          pc,          \* where each request stands
          code,        \* the code it carries
          rows,        \* the rows it has read
          redeemed,    \* history: the recovery codes that have completed a login
          spent,       \* history: had the code of r when r began?
          proven,      \* history: the secrets a right code has been given for
          swapped,     \* history: the secrets set up while MFA was on, or about
                       \* to be
          alone,       \* history: has the change under way met no other so far?
          disturbed    \* history: what has gone wrong with the enrolment since a
                       \* change that met no other completed: a "crossed"
                       \* confirmation and disabling, a "doubled" confirmation,
                       \* one "cut" off before it switched MFA on

columns == <<enabled, secret>>
table == <<codes, used>>
request == <<pc, code, rows>>
proofs == <<proven, swapped>>
history == <<redeemed, spent, proofs>>
mfaVars == <<columns, table, secrets, sets, request, history, alone, disturbed>>

NoSecret == 0
Row == (1..MaxSets) \X (1..PerSet)
NewSet(g) == {g} \X (1..PerSet)
Totp(s) == <<0, s>>
NoCode == Totp(NoSecret)

MfaTypeOK ==
    /\ enabled \in BOOLEAN
    /\ secret \in 0..secrets
    /\ codes \subseteq Row
    /\ used \subseteq codes
    /\ secrets \in 0..MaxSecrets
    /\ sets \in 0..MaxSets
    /\ pc \in [Reqs -> {"idle", "replace", "insert", "activate",
                        "disable", "find", "mark"}]
    /\ code \in [Reqs -> Row \cup {NoCode}]
    /\ rows \in [Reqs -> SUBSET Row]
    /\ redeemed \subseteq Row
    /\ spent \in [Reqs -> BOOLEAN]
    /\ proven \subseteq 1..secrets
    /\ swapped \subseteq 1..secrets
    /\ alone \in BOOLEAN
    /\ disturbed \subseteq {"crossed", "doubled", "cut"}

MfaInit ==
    /\ enabled = FALSE /\ secret = NoSecret
    /\ codes = {} /\ used = {}
    /\ secrets = 0 /\ sets = 0
    /\ pc = [r \in Reqs |-> "idle"]
    /\ code = [r \in Reqs |-> NoCode]
    /\ rows = [r \in Reqs |-> {}]
    /\ redeemed = {}
    /\ spent = [r \in Reqs |-> FALSE]
    /\ proven = {} /\ swapped = {}
    /\ alone = TRUE /\ disturbed = {}

Goto(r, step) == pc' = [pc EXCEPT ![r] = step]

(* The request is answered, or dies with its process: it forgets.          *)
End(r) ==
    /\ Goto(r, "idle")
    /\ code' = [code EXCEPT ![r] = NoCode]
    /\ rows' = [rows EXCEPT ![r] = {}]
    /\ spent' = [spent EXCEPT ![r] = FALSE]

(* authenticator.check                                                     *)
Checks(c, s) == c = Totp(s)

(* The requests that are changing the enrolment.                           *)
Confirming == {r \in Reqs : pc[r] \in {"replace", "insert", "activate"}}
Disabling == {r \in Reqs : pc[r] = "disable"}
Changing == Confirming \cup Disabling

-----------------------------------------------------------------------------
(* Mutant: MFA is switched on as soon as there is a secret.                *)
SetupAtOnce(r) ==
    /\ pc[r] = "idle" /\ secrets < MaxSecrets
    /\ secrets' = secrets + 1
    /\ secret' = secrets'
    /\ enabled' = TRUE
    /\ UNCHANGED <<table, sets, request, redeemed, spent, proofs>>

(* POST /auth/mfa/setup: the update looks at nothing but the user's id,    *)
(* and puts a secret nobody has proven in place of one that is in force.   *)
BeginSetup(r) ==
    /\ pc[r] = "idle" /\ secrets < MaxSecrets
    /\ secrets' = secrets + 1
    /\ secret' = secrets'
    /\ swapped' = IF enabled \/ Confirming # {} THEN swapped \cup {secrets'} ELSE swapped
    /\ UNCHANGED <<enabled, table, sets, request, redeemed, spent, proven>>

(* POST /auth/mfa/confirm reads the user and checks the code against the   *)
(* secret it read.  A wrong code is answered and changes nothing.          *)
ConfirmRead(r, s) ==
    /\ pc[r] = "idle" /\ sets < MaxSets
    /\ secret # NoSecret
    /\ Checks(Totp(s), secret)
    /\ proven' = proven \cup {s}
    /\ Goto(r, "replace")
    /\ UNCHANGED <<columns, table, secrets, sets, code, rows, redeemed, spent, swapped>>

(* replaceRecoveryCodes: the deleteMany of its transaction ...             *)
ReplaceDelete(r) ==
    /\ pc[r] = "replace" /\ sets < MaxSets
    /\ rows' = [rows EXCEPT ![r] = codes]
    /\ Goto(r, "insert")
    /\ UNCHANGED <<columns, table, secrets, sets, code, history>>

(* ... and the createMany, with which it commits.                          *)
ReplaceCommit(r) ==
    /\ pc[r] = "insert" /\ sets < MaxSets
    /\ sets' = sets + 1
    /\ codes' = (codes \ rows[r]) \cup NewSet(sets')
    /\ used' = used \ rows[r]
    /\ Goto(r, "activate")
    /\ UNCHANGED <<columns, secrets, code, rows, history>>

ActivateMfa(r) ==
    /\ pc[r] = "activate"
    /\ enabled' = TRUE
    /\ End(r)
    /\ UNCHANGED <<secret, table, secrets, sets, redeemed, proofs>>

(* POST /auth/mfa/disable with the right password: one transaction, whose  *)
(* deleteMany sees the codes of this moment.                               *)
DisableDelete(r) ==
    /\ pc[r] = "idle"
    /\ rows' = [rows EXCEPT ![r] = codes]
    /\ Goto(r, "disable")
    /\ UNCHANGED <<columns, table, secrets, sets, code, history>>

DisableCommit(r) ==
    /\ pc[r] = "disable"
    /\ enabled' = FALSE /\ secret' = NoSecret
    /\ codes' = codes \ rows[r]
    /\ used' = used \ rows[r]
    /\ End(r)
    /\ UNCHANGED <<secrets, sets, redeemed, proofs>>

(* POST /auth/mfa/verify with a challenge and a recovery code: verifyCode  *)
(* reads the user, finds the code is no TOTP of its secret and goes on to  *)
(* the recovery codes.  (A matching TOTP completes the login and leaves    *)
(* nothing behind.)                                                        *)
VerifyRead(r, c) ==
    /\ pc[r] = "idle"
    /\ enabled /\ secret # NoSecret /\ ~ Checks(c, secret)
    /\ c[1] \in 1..sets
    /\ code' = [code EXCEPT ![r] = c]
    /\ spent' = [spent EXCEPT ![r] = c \in redeemed]
    /\ Goto(r, "find")
    /\ UNCHANGED <<columns, table, secrets, sets, rows, redeemed, proofs>>

(* Mutant: the search takes used codes too.                                *)
EveryRow == codes

(* findUnusedRecoveryCodes                                                 *)
Unused == codes \ used

FindUnused(r) ==
    /\ pc[r] = "find"
    /\ IF code[r] \in Unused
       THEN Goto(r, "mark") /\ UNCHANGED <<code, rows, spent>>
       ELSE End(r)
    /\ UNCHANGED <<columns, table, secrets, sets, redeemed, proofs>>

(* markRecoveryCodeUsed completes the login, whatever usedAt says by now;  *)
(* the update of a row that is gone throws.                                *)
MarkUsed(r) ==
    /\ pc[r] = "mark"
    /\ LET c == code[r] IN
       IF c \in codes
       THEN /\ used' = used \cup {c}
            /\ redeemed' = redeemed \cup {c}
       ELSE UNCHANGED <<used, redeemed>>
    /\ End(r)
    /\ UNCHANGED <<columns, codes, secrets, sets, proofs>>

(* The process dies, or the database refuses the next statement: what was  *)
(* committed stays, an open transaction rolls back.                        *)
Abort(r) ==
    /\ pc[r] # "idle"
    /\ End(r)
    /\ UNCHANGED <<columns, table, secrets, sets, redeemed, proofs>>

Step(r) ==
    \/ BeginSetup(r)
    \/ \E s \in 1..secrets : ConfirmRead(r, s)
    \/ ReplaceDelete(r)
    \/ ReplaceCommit(r)
    \/ ActivateMfa(r)
    \/ DisableDelete(r)
    \/ DisableCommit(r)
    \/ \E c \in Row : VerifyRead(r, c)
    \/ FindUnused(r)
    \/ MarkUsed(r)

(* What overlapping changes may do to the enrolment.                       *)
Trouble ==
    (IF Confirming # {} /\ Disabling # {} THEN {"crossed"} ELSE {})
    \cup (IF Cardinality(Confirming) > 1 THEN {"doubled"} ELSE {})

MfaNext == \E r \in Reqs :
    /\ \/ /\ Step(r)
          /\ disturbed' = IF alone /\ r \in Changing \ Changing'
                          THEN {} ELSE disturbed \cup Trouble'
       \/ /\ Abort(r)
          /\ disturbed' = IF pc[r] = "activate" THEN disturbed \cup {"cut"} ELSE disturbed
    /\ alone' = ((alone \/ Changing' = {}) /\ Cardinality(Changing') <= 1)

MfaSpec == MfaInit /\ [][MfaNext]_mfaVars

-----------------------------------------------------------------------------
(* A code that has completed a login completes none that begins later      *)
(* (mfa.service.ts:105-110), whatever runs beside it: the mark it left, or *)
(* the deletion of its set, is seen by every later search.                 *)
SpentCodeIsRefused == \A r \in Reqs : pc[r] = "mark" => ~ spent[r]

(* Whoever has to answer with a second factor has proven to have it: the   *)
(* secret in force is one a right code was given for                       *)
(* (mfa.service.ts:31-38), unless a setup has swapped it for another       *)
(* (58-59), or a confirmation and a disabling crossed; then MFA may be on  *)
(* without any secret.  All recovery codes are of one set, since issuing   *)
(* one withdraws the others (mfa.repository.ts:52-58), unless two          *)
(* confirmations overlapped.  Between two changes MFA is on just when      *)
(* there are codes (mfa.repository.ts:34), unless two crossed or one was   *)
(* cut off before it switched MFA on.  And whatever has gone wrong, the    *)
(* next confirmation or disabling that meets no other mends it.            *)
EnrolmentIsWhole ==
    /\ "crossed" \notin disturbed => (enabled => secret \in proven \cup swapped)
    /\ "doubled" \notin disturbed => \A c, d \in codes : c[1] = d[1]
    /\ disturbed \cap {"crossed", "cut"} = {} /\ Changing = {} => (enabled <=> codes # {})
=============================================================================

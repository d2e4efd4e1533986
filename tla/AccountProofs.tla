--------------------------- MODULE AccountProofs ----------------------------
(***************************************************************************)
(* Proofs about the ways into an account, for any number of concurrent     *)
(* requests, accounts, secrets and codes: a recovery code that has been    *)
(* used is refused by every later login, an account that is enrolled has   *)
(* what it needs to answer (MfaEnrollment); the logins that an identity    *)
(* provider vouches for enter the one account that is meant, and an        *)
(* unverified account is never without a link that nobody knows the reason *)
(* of (AccountEntry).                                                      *)
(***************************************************************************)
EXTENDS MfaEnrollment, AccountEntry, FiniteSetTheorems, TLAPS

USE MfaOptions, EntryOptions

Places == {"idle", "replace", "insert", "activate", "disable", "find", "mark"}

(* The codes of a new set: rows, none of which was issued before.          *)
LEMMA SetsAreNew ==
    ASSUME NEW g \in 1 .. MaxSets
    PROVE  /\ NewSet(g) \subseteq Row /\ NewSet(g) # {}
           /\ \A c \in NewSet(g) : c[1] = g
  <1>1. <<g, 1>> \in NewSet(g)
    BY DEF NewSet
  <1> QED BY <1>1 DEF NewSet, Row

LEMMA RowsAreIssued == \A c \in Row : c[1] \in 1 .. MaxSets
  BY DEF Row

(* The request moves to a step, and no other request moves.                *)
LEMMA Moves ==
    ASSUME pc \in [Reqs -> Places], NEW r \in Reqs, NEW s \in Places, Goto(r, s)
    PROVE  /\ pc' \in [Reqs -> Places] /\ pc'[r] = s
           /\ \A q \in Reqs \ {r} : pc'[q] = pc[q]
  BY DEF Goto

(* Every variable keeps its type.                                          *)
LEMMA MfaTypes == MfaTypeOK /\ [MfaNext]_mfaVars => MfaTypeOK'
  <1> SUFFICES ASSUME MfaTypeOK, [MfaNext]_mfaVars PROVE MfaTypeOK'
    OBVIOUS
  <1>0. /\ enabled \in BOOLEAN /\ secret \in 0 .. secrets /\ codes \subseteq Row
        /\ used \subseteq codes /\ secrets \in 0 .. MaxSecrets /\ sets \in 0 .. MaxSets
        /\ pc \in [Reqs -> Places] /\ code \in [Reqs -> Row \cup {NoCode}]
        /\ rows \in [Reqs -> SUBSET Row] /\ redeemed \subseteq Row
        /\ spent \in [Reqs -> BOOLEAN]
        /\ proven \subseteq 1 .. secrets /\ swapped \subseteq 1 .. secrets
    BY DEF MfaTypeOK, Places
  <1>1. alone' \in BOOLEAN /\ disturbed' \subseteq {"crossed", "doubled", "cut"}
    <2>1. alone' \in BOOLEAN
      BY DEF MfaNext, mfaVars, MfaTypeOK
    <2>2. Trouble' \subseteq {"crossed", "doubled"}
      BY DEF Trouble
    <2>3. disturbed' \subseteq {"crossed", "doubled", "cut"}
      BY <2>2 DEF MfaNext, mfaVars, MfaTypeOK
    <2> QED BY <2>1, <2>3
  <1> SUFFICES /\ enabled' \in BOOLEAN /\ secret' \in 0 .. secrets'
               /\ codes' \subseteq Row /\ used' \subseteq codes'
               /\ secrets' \in 0 .. MaxSecrets /\ sets' \in 0 .. MaxSets
               /\ pc' \in [Reqs -> Places] /\ code' \in [Reqs -> Row \cup {NoCode}]
               /\ rows' \in [Reqs -> SUBSET Row] /\ redeemed' \subseteq Row
               /\ spent' \in [Reqs -> BOOLEAN]
               /\ proven' \subseteq 1 .. secrets' /\ swapped' \subseteq 1 .. secrets'
    BY <1>1 DEF MfaTypeOK, Places
  <1>2. ASSUME NEW r \in Reqs, Step(r) \/ Abort(r)
        PROVE  /\ pc' \in [Reqs -> Places] /\ code' \in [Reqs -> Row \cup {NoCode}]
               /\ rows' \in [Reqs -> SUBSET Row]
    BY <1>0, <1>2
    DEF Step, Abort, BeginSetup, ConfirmRead, ReplaceDelete, ReplaceCommit, ActivateMfa,
        DisableDelete, DisableCommit, VerifyRead, FindUnused, MarkUsed, End, Goto, Places,
        request
  <1>3. ASSUME NEW r \in Reqs, Step(r) \/ Abort(r)
        PROVE  enabled' \in BOOLEAN /\ spent' \in [Reqs -> BOOLEAN]
    <2>1. enabled' = enabled \/ enabled' = TRUE \/ enabled' = FALSE
      BY <1>3
      DEF Step, Abort, BeginSetup, ConfirmRead, ReplaceDelete, ReplaceCommit, ActivateMfa,
          DisableDelete, DisableCommit, VerifyRead, FindUnused, MarkUsed, columns
    <2>2. spent' = spent \/ End(r) \/ \E c \in Row : VerifyRead(r, c)
      BY <1>3
      DEF Step, Abort, BeginSetup, ConfirmRead, ReplaceDelete, ReplaceCommit, ActivateMfa,
          DisableDelete, DisableCommit, FindUnused, MarkUsed, history
    <2>3. ASSUME NEW c \in Row, VerifyRead(r, c) PROVE spent' \in [Reqs -> BOOLEAN]
      BY <1>0, <2>3 DEF VerifyRead
    <2>4. spent' \in [Reqs -> BOOLEAN]
      BY <1>0, <2>2, <2>3 DEF End
    <2>5. enabled' \in BOOLEAN
      BY <1>0, <2>1
    <2> QED BY <2>4, <2>5
  <1>4. ASSUME NEW r \in Reqs, Step(r) \/ Abort(r)
        PROVE  /\ secret' \in 0 .. secrets' /\ secrets' \in 0 .. MaxSecrets
               /\ redeemed' \subseteq Row
               /\ proven' \subseteq 1 .. secrets' /\ swapped' \subseteq 1 .. secrets'
    <2>1. CASE BeginSetup(r)
      <3>1. /\ secrets' = secrets + 1 /\ secret' = secrets + 1 /\ secrets < MaxSecrets
            /\ swapped' = swapped \/ swapped' = swapped \cup {secrets'}
            /\ proven' = proven /\ redeemed' = redeemed
        BY <2>1 DEF BeginSetup
      <3>2. secret' \in 0 .. secrets' /\ secrets' \in 0 .. MaxSecrets
        BY <1>0, <3>1
      <3>3. 1 .. secrets \subseteq 1 .. secrets' /\ secrets' \in 1 .. secrets'
        BY <1>0, <3>1
      <3> QED BY <1>0, <3>1, <3>2, <3>3
    <2>2. ASSUME NEW s \in 1 .. secrets, ConfirmRead(r, s)
          PROVE  /\ UNCHANGED <<secret, secrets, redeemed, swapped>>
                 /\ proven' = proven \cup {s}
      BY <2>2 DEF ConfirmRead, columns
    <2>3. CASE ~ BeginSetup(r) /\ ~ \E s \in 1 .. secrets : ConfirmRead(r, s)
      <3>1. /\ secret' = secret \/ secret' = NoSecret
            /\ UNCHANGED <<secrets, proven, swapped>>
            /\ redeemed' = redeemed \/ MarkUsed(r)
        BY <1>4, <2>3
        DEF Step, Abort, ReplaceDelete, ReplaceCommit, ActivateMfa, DisableDelete,
            DisableCommit, VerifyRead, FindUnused, MarkUsed, columns, history, proofs
      <3>2. ASSUME MarkUsed(r) PROVE redeemed' \subseteq Row
        BY <1>0, <3>2 DEF MarkUsed
      <3> QED BY <1>0, <3>1, <3>2 DEF NoSecret
    <2> QED BY <1>0, <2>1, <2>2, <2>3
  <1>5. ASSUME NEW r \in Reqs, Step(r) \/ Abort(r)
        PROVE  codes' \subseteq Row /\ used' \subseteq codes' /\ sets' \in 0 .. MaxSets
    <2>1. CASE ReplaceCommit(r)
      BY <1>0, <2>1, SetsAreNew DEF ReplaceCommit
    <2>2. CASE ~ReplaceCommit(r)
      BY <1>0, <1>5, <2>2
      DEF Step, Abort, BeginSetup, ConfirmRead, ReplaceDelete, ActivateMfa,
          DisableDelete, DisableCommit, VerifyRead, FindUnused, MarkUsed, table
    <2> QED BY <2>1, <2>2
  <1>6. CASE UNCHANGED mfaVars
    BY <1>0, <1>6 DEF mfaVars, columns, table, request, history, proofs
  <1> QED BY <1>2, <1>3, <1>4, <1>5, <1>6 DEF MfaNext

-----------------------------------------------------------------------------
(* Codes that have been used.                                              *)

(* A code that has completed a login is marked or gone, and never comes    *)
(* back: the sets that are yet to be issued have other numbers.            *)
SpentIsGone ==
    /\ \A c \in codes : c[1] <= sets
    /\ \A c \in redeemed : c[1] <= sets /\ (c \in codes => c \in used)

(* A login that is looking for its code remembers whether that was spent.  *)
SearchesRemember ==
    \A r \in Reqs :
        pc[r] \in {"find", "mark"} =>
            code[r] \in Row /\ (spent[r] = TRUE => code[r] \in redeemed)

SpentInvariant == MfaTypeOK /\ SpentIsGone /\ SearchesRemember /\ SpentCodeIsRefused

LEMMA SpentStaysGone ==
    ASSUME SpentInvariant, NEW r \in Reqs, Step(r) \/ Abort(r)
    PROVE  SpentIsGone' /\ redeemed \subseteq redeemed'
  <1>0. /\ codes \subseteq Row /\ used \subseteq codes /\ redeemed \subseteq Row
        /\ sets \in 0 .. MaxSets /\ rows \in [Reqs -> SUBSET Row] /\ SpentIsGone
    BY DEF SpentInvariant, MfaTypeOK
  <1>1. CASE ReplaceCommit(r)
    <2>1. /\ sets' = sets + 1 /\ sets' \in 1 .. MaxSets /\ redeemed' = redeemed
          /\ codes' = (codes \ rows[r]) \cup NewSet(sets') /\ used' = used \ rows[r]
      BY <1>0, <1>1 DEF ReplaceCommit, history
    <2>2. \A c \in NewSet(sets') : c[1] = sets' /\ c \in Row
      BY <2>1, SetsAreNew
    <2>3. \A c \in Row : c[1] \in Nat
      BY RowsAreIssued
    <2> QED BY <1>0, <2>1, <2>2, <2>3 DEF SpentIsGone
  <1>2. CASE DisableCommit(r)
    BY <1>0, <1>2 DEF DisableCommit, SpentIsGone, history
  <1>3. CASE MarkUsed(r)
    <2>1. codes' = codes /\ sets' = sets
      BY <1>3 DEF MarkUsed
    <2>2. CASE code[r] \in codes
      <3>1. used' = used \cup {code[r]} /\ redeemed' = redeemed \cup {code[r]}
        BY <1>3, <2>2 DEF MarkUsed
      <3> QED BY <1>0, <2>1, <2>2, <3>1 DEF SpentIsGone
    <2>3. CASE code[r] \notin codes
      BY <1>0, <1>3, <2>1, <2>3 DEF MarkUsed, SpentIsGone
    <2> QED BY <2>2, <2>3
  <1>4. CASE UNCHANGED <<codes, used, redeemed, sets>>
    BY <1>0, <1>4 DEF SpentIsGone
  <1> QED
    BY <1>1, <1>2, <1>3, <1>4
    DEF Step, Abort, BeginSetup, ConfirmRead, ReplaceDelete, ActivateMfa, DisableDelete,
        VerifyRead, FindUnused, table, history

LEMMA SearchesGoOn ==
    ASSUME SpentInvariant, NEW r \in Reqs, Step(r) \/ Abort(r),
           redeemed \subseteq redeemed'
    PROVE  SearchesRemember' /\ SpentCodeIsRefused'
  <1>0. /\ pc \in [Reqs -> Places] /\ code \in [Reqs -> Row \cup {NoCode}]
        /\ spent \in [Reqs -> BOOLEAN]
        /\ SearchesRemember /\ SpentCodeIsRefused /\ SpentIsGone
    BY DEF SpentInvariant, MfaTypeOK, Places
  <1> DEFINE Good(q) == /\ pc[q] \in {"find", "mark"} =>
                             code[q] \in Row /\ (spent[q] = TRUE => code[q] \in redeemed)
                        /\ pc[q] = "mark" => spent[q] # TRUE
             Same(q) == pc'[q] = pc[q] /\ code'[q] = code[q] /\ spent'[q] = spent[q]
  <1>1. \A q \in Reqs : Good(q)
    BY <1>0 DEF SearchesRemember, SpentCodeIsRefused
  <1>2. ASSUME NEW q \in Reqs, Same(q) PROVE Good(q)'
    BY <1>1, <1>2
  <1> SUFFICES \A q \in Reqs : Good(q)'
    BY DEF SearchesRemember, SpentCodeIsRefused
  <1>3. CASE BeginSetup(r)
    <2>1. \A q \in Reqs : Same(q)
      BY <1>3 DEF BeginSetup, request, history
    <2> QED BY <1>2, <2>1
  <1>4. ASSUME NEW c \in Row, VerifyRead(r, c) PROVE \A q \in Reqs : Good(q)'
    <2>1. \A q \in Reqs \ {r} : Same(q)
      BY <1>0, <1>4 DEF VerifyRead, Goto
    <2>2. pc'[r] = "find" /\ code'[r] = c /\ redeemed' = redeemed
      BY <1>0, <1>4 DEF VerifyRead, Goto
    <2>3. spent'[r] = (c \in redeemed)
      BY <1>0, <1>4, Zenon DEF VerifyRead
    <2>4. spent'[r] = TRUE => c \in redeemed
      BY <2>3, Zenon
    <2>5. Good(r)'
      BY <2>2, <2>4
    <2> QED BY <1>2, <2>1, <2>5
  <1>5. CASE FindUnused(r) /\ code[r] \in Unused
    <2>1. \A q \in Reqs \ {r} : Same(q)
      BY <1>0, <1>5 DEF FindUnused, Goto, history
    <2>2. pc'[r] = "mark" /\ code'[r] = code[r] /\ spent' = spent /\ pc[r] = "find"
      BY <1>0, <1>5 DEF FindUnused, Goto, history
    <2>3. spent[r] # TRUE
      BY <1>0, <1>1, <1>5, <2>2 DEF SpentIsGone, Unused
    <2>4. Good(r)'
      BY <1>1, <2>2, <2>3
    <2> QED BY <1>2, <2>1, <2>4
  <1>6. ASSUME \/ End(r)
               \/ spent' = spent /\ \E s \in Places \ {"find", "mark"} : Goto(r, s),
               \A q \in Reqs \ {r} : code'[q] = code[q]
        PROVE  \A q \in Reqs : Good(q)'
    <2>1. \A q \in Reqs \ {r} : Same(q)
      BY <1>0, <1>6 DEF End, Goto
    <2>2. pc'[r] \notin {"find", "mark"}
      BY <1>0, <1>6 DEF End, Goto
    <2> QED BY <1>2, <2>1, <2>2
  <1>7. CASE \/ ReplaceDelete(r) \/ ReplaceCommit(r) \/ DisableDelete(r)
             \/ \E s \in 1 .. secrets : ConfirmRead(r, s)
    <2>1. /\ spent' = spent /\ \A q \in Reqs \ {r} : code'[q] = code[q]
          /\ \E s \in Places \ {"find", "mark"} : Goto(r, s)
      BY <1>0, <1>7
      DEF ReplaceDelete, ReplaceCommit, DisableDelete, ConfirmRead, history, Places
    <2> QED BY <1>6, <2>1
  <1>8. CASE \/ ActivateMfa(r) \/ DisableCommit(r) \/ MarkUsed(r) \/ Abort(r)
             \/ FindUnused(r) /\ code[r] \notin Unused
    <2>1. End(r)
      BY <1>8 DEF ActivateMfa, DisableCommit, MarkUsed, Abort, FindUnused
    <2>2. \A q \in Reqs \ {r} : code'[q] = code[q]
      BY <1>0, <2>1 DEF End
    <2> QED BY <1>6, <2>1, <2>2
  <1> QED
    BY <1>3, <1>4, <1>5, <1>7, <1>8 DEF Step

LEMMA SpentStep == SpentInvariant /\ [MfaNext]_mfaVars => SpentInvariant'
  <1> SUFFICES ASSUME SpentInvariant, [MfaNext]_mfaVars PROVE SpentInvariant'
    OBVIOUS
  <1>1. MfaTypeOK'
    BY MfaTypes DEF SpentInvariant
  <1>2. ASSUME NEW r \in Reqs, Step(r) \/ Abort(r) PROVE SpentInvariant'
    BY <1>1, <1>2, SpentStaysGone, SearchesGoOn DEF SpentInvariant
  <1>3. CASE UNCHANGED mfaVars
    BY <1>1, <1>3
    DEF mfaVars, table, request, history, proofs, SpentInvariant, SpentIsGone, SearchesRemember,
        SpentCodeIsRefused
  <1> QED BY <1>2, <1>3 DEF MfaNext

LEMMA MfaStarts == MfaInit => MfaTypeOK
  <1> SUFFICES ASSUME MfaInit PROVE MfaTypeOK
    OBVIOUS
  <1>1. /\ pc \in [Reqs -> Places] /\ code \in [Reqs -> Row \cup {NoCode}]
        /\ rows \in [Reqs -> SUBSET Row] /\ redeemed \subseteq Row
    BY DEF MfaInit, Places
  <1>2. /\ enabled \in BOOLEAN /\ spent \in [Reqs -> BOOLEAN] /\ alone \in BOOLEAN
        /\ disturbed \subseteq {"crossed", "doubled", "cut"}
        /\ proven \subseteq 1 .. secrets /\ swapped \subseteq 1 .. secrets
    BY DEF MfaInit
  <1>3. /\ secret \in 0 .. secrets /\ codes \subseteq Row /\ used \subseteq codes
        /\ secrets \in 0 .. MaxSecrets /\ sets \in 0 .. MaxSets
    BY DEF MfaInit, NoSecret
  <1> QED BY <1>1, <1>2, <1>3 DEF MfaTypeOK, Places

(* A recovery code completes logins that were looking for it at the same   *)
(* time, but none that begins after it has completed one                   *)
(* (mfa.service.ts:105-110).                                               *)
THEOREM SpentCodesAreRefused == MfaSpec => []SpentCodeIsRefused
  <1>1. MfaInit => SpentInvariant
    BY MfaStarts
    DEF MfaInit, SpentInvariant, SpentIsGone, SearchesRemember, SpentCodeIsRefused
  <1>2. SpentInvariant => SpentCodeIsRefused
    BY DEF SpentInvariant
  <1> QED BY <1>1, <1>2, SpentStep, PTL DEF MfaSpec

-----------------------------------------------------------------------------
(* The enrolment.                                                          *)

(* Two requests that change the enrolment at once disturb it.              *)
LEMMA OneChanges ==
    ASSUME NEW X, X \subseteq Reqs, ~ (Cardinality(X) > 1)
    PROVE  \A q, r \in X : q = r
  <1> SUFFICES ASSUME NEW q \in X, NEW r \in X, q # r PROVE FALSE
    OBVIOUS
  <1>1. IsFiniteSet(X) /\ Cardinality(X) \in Nat
    BY FS_Subset, FS_CardinalityType
  <1>2. IsFiniteSet(X \ {q}) /\ Cardinality(X \ {q}) = Cardinality(X) - 1
    BY <1>1, FS_RemoveElement
  <1>3. Cardinality(X \ {q}) # 0
    <2>1. r \in X \ {q}
      OBVIOUS
    <2> QED BY <1>2, <2>1, FS_EmptySet
  <1>4. Cardinality(X) # 0
    BY <1>1, FS_EmptySet
  <1> QED BY <1>1, <1>2, <1>3, <1>4

Held == proven \cup swapped
OfOneSet == \A c, d \in codes : c[1] = d[1]

(* How far the change that has met no other is: it still has the secret it *)
(* was given a code for, or what a setup put in its place, and it has seen *)
(* all codes there are.                                                    *)
AloneIsSound ==
    alone = TRUE =>
        /\ \A q, r \in Changing : q = r
        /\ Confirming # {} => secret \in Held
        /\ \A r \in Changing :
             /\ pc[r] \in {"insert", "disable"} => rows[r] = codes
             /\ pc[r] = "activate" => codes # {} /\ OfOneSet

(* What holds of secrets until a confirmation and a disabling cross.       *)
NotCrossed ==
    /\ Confirming = {} \/ Disabling = {}
    /\ enabled = TRUE \/ Confirming # {} => secret \in Held

(* What holds of codes until two confirmations overlap.                    *)
NotDoubled ==
    /\ \A q, r \in Confirming : q = r
    /\ OfOneSet
    /\ \A r \in Reqs : pc[r] = "insert" => codes \subseteq rows[r]

(* What relates the two until a change is cut off, or two cross.           *)
NotCut ==
    /\ codes # {} <=> (enabled = TRUE \/ \E r \in Reqs : pc[r] = "activate")
    /\ \A r \in Reqs : pc[r] = "disable" => codes \subseteq rows[r]

(* The steps of logins and setups, and those of requests that break off,   *)
(* as far as the enrolment is concerned.                                   *)
Beside(r) ==
    /\ enabled' = enabled /\ codes' = codes /\ Held \subseteq Held'
    /\ secret' = secret \/ (enabled = TRUE \/ Confirming # {} => secret' \in Held')
    /\ \A q \in Reqs \ {r} : pc'[q] = pc[q] /\ rows'[q] = rows[q]

(* A request moves on in its change, and the others stay.                  *)
Moved(r, from, to) ==
    /\ pc[r] = from /\ pc'[r] = to
    /\ Held \subseteq Held'
    /\ \A q \in Reqs \ {r} : pc'[q] = pc[q] /\ rows'[q] = rows[q]

(* What the steps of the changes do.                                       *)
LEMMA ChangeSteps ==
    ASSUME MfaTypeOK, NEW r \in Reqs
    PROVE  /\ BeginSetup(r) => Beside(r) /\ pc' = pc /\ rows' = rows
           /\ \A c \in Row : VerifyRead(r, c) =>
                 Beside(r) /\ pc[r] = "idle" /\ pc'[r] = "find" /\ secret' = secret
           /\ FindUnused(r) \/ MarkUsed(r) =>
                 /\ Beside(r) /\ secret' = secret
                 /\ {pc[r], pc'[r]} \subseteq {"idle", "find", "mark"}
           /\ Abort(r) => Beside(r) /\ secret' = secret /\ pc'[r] = "idle"
           /\ \A s \in 1 .. secrets : ConfirmRead(r, s) =>
                 /\ Moved(r, "idle", "replace") /\ secret' \in Held'
                 /\ UNCHANGED <<enabled, codes, secret>>
           /\ ReplaceDelete(r) =>
                 /\ Moved(r, "replace", "insert") /\ rows'[r] = codes
                 /\ UNCHANGED <<enabled, codes, secret>>
           /\ ReplaceCommit(r) =>
                 /\ Moved(r, "insert", "activate")
                 /\ UNCHANGED <<enabled, secret>>
                 /\ codes' = (codes \ rows[r]) \cup NewSet(sets')
                 /\ sets' \in 1 .. MaxSets
           /\ ActivateMfa(r) =>
                 /\ Moved(r, "activate", "idle") /\ enabled' = TRUE
                 /\ UNCHANGED <<codes, secret>>
           /\ DisableDelete(r) =>
                 /\ Moved(r, "idle", "disable") /\ rows'[r] = codes
                 /\ UNCHANGED <<enabled, codes, secret>>
           /\ DisableCommit(r) =>
                 /\ Moved(r, "disable", "idle") /\ enabled' = FALSE
                 /\ codes' = codes \ rows[r]
  <1>0. /\ pc \in [Reqs -> Places] /\ rows \in [Reqs -> SUBSET Row]
        /\ secret \in 0 .. secrets /\ sets \in 0 .. MaxSets
    BY DEF MfaTypeOK, Places
  <1>1. BeginSetup(r) => Beside(r) /\ pc' = pc /\ rows' = rows
    BY <1>0 DEF BeginSetup, Beside, Held, table, request
  <1>2. ASSUME NEW c \in Row, VerifyRead(r, c)
        PROVE  Beside(r) /\ pc[r] = "idle" /\ pc'[r] = "find" /\ secret' = secret
    BY <1>0, <1>2 DEF VerifyRead, Beside, Held, Goto, table, columns, proofs
  <1>3. ASSUME FindUnused(r)
        PROVE  /\ Beside(r) /\ secret' = secret
               /\ {pc[r], pc'[r]} \subseteq {"idle", "find", "mark"}
    <2>1. /\ enabled' = enabled /\ codes' = codes /\ secret' = secret /\ Held' = Held
          /\ pc[r] = "find" /\ (Goto(r, "mark") \/ Goto(r, "idle"))
          /\ rows' = rows \/ rows' = [rows EXCEPT ![r] = {}]
      BY <1>3 DEF FindUnused, Held, End, table, columns, proofs
    <2> QED BY <1>0, <2>1 DEF Beside, Goto
  <1>4. ASSUME MarkUsed(r)
        PROVE  /\ Beside(r) /\ secret' = secret
               /\ {pc[r], pc'[r]} \subseteq {"idle", "find", "mark"}
    BY <1>0, <1>4 DEF MarkUsed, Beside, Held, End, Goto, table, columns, proofs
  <1>5. Abort(r) => Beside(r) /\ secret' = secret /\ pc'[r] = "idle"
    BY <1>0 DEF Abort, Beside, Held, End, Goto, table, columns, proofs
  <1>6. ASSUME NEW s \in 1 .. secrets, ConfirmRead(r, s)
        PROVE  /\ Moved(r, "idle", "replace") /\ secret' \in Held'
               /\ UNCHANGED <<enabled, codes, secret>>
    BY <1>0, <1>6 DEF ConfirmRead, Checks, Totp, Moved, Held, Goto, table, columns
  <1>7. ReplaceDelete(r) =>
          /\ Moved(r, "replace", "insert") /\ rows'[r] = codes
          /\ UNCHANGED <<enabled, codes, secret>>
    BY <1>0 DEF ReplaceDelete, Moved, Held, Goto, table, columns, history, proofs
  <1>8. ReplaceCommit(r) =>
          /\ Moved(r, "insert", "activate")
          /\ UNCHANGED <<enabled, secret>>
          /\ codes' = (codes \ rows[r]) \cup NewSet(sets')
          /\ sets' \in 1 .. MaxSets
    BY <1>0 DEF ReplaceCommit, Moved, Held, Goto, columns, history, proofs
  <1>9. ActivateMfa(r) =>
          /\ Moved(r, "activate", "idle") /\ enabled' = TRUE
          /\ UNCHANGED <<codes, secret>>
    BY <1>0 DEF ActivateMfa, Moved, Held, End, Goto, table, proofs
  <1>10. DisableDelete(r) =>
           /\ Moved(r, "idle", "disable") /\ rows'[r] = codes
           /\ UNCHANGED <<enabled, codes, secret>>
    BY <1>0 DEF DisableDelete, Moved, Held, Goto, table, columns, history, proofs
  <1>11. DisableCommit(r) =>
           /\ Moved(r, "disable", "idle") /\ enabled' = FALSE
           /\ codes' = codes \ rows[r]
    BY <1>0 DEF DisableCommit, Moved, Held, End, Goto, proofs
  <1> QED BY <1>1, <1>2, <1>3, <1>4, <1>5, <1>6, <1>7, <1>8, <1>9, <1>10, <1>11

(* The requests that confirm and that disable, after a step.               *)
LEMMA ChangesGoOn ==
    ASSUME NEW r \in Reqs, \A q \in Reqs \ {r} : pc'[q] = pc[q]
    PROVE  /\ pc[r] \notin {"replace", "insert", "activate"} => r \notin Confirming
           /\ pc[r] \in {"replace", "insert", "activate"} => r \in Confirming
           /\ Confirming' = IF pc'[r] \in {"replace", "insert", "activate"}
                            THEN Confirming \cup {r} ELSE Confirming \ {r}
           /\ pc[r] # "disable" => r \notin Disabling
           /\ pc[r] = "disable" => r \in Disabling
           /\ Disabling' = IF pc'[r] = "disable" THEN Disabling \cup {r} ELSE Disabling \ {r}
  BY DEF Confirming, Disabling

(* A confirmation begins, or goes on, and nothing is disabled.             *)
LEMMA ConfirmationsGoOn ==
    ASSUME NEW r \in Reqs, \A q \in Reqs \ {r} : pc'[q] = pc[q],
           pc[r] # "disable", pc'[r] \in {"replace", "insert", "activate"}
    PROVE  /\ Disabling' = Disabling
           /\ pc[r] = "idle" => Confirming' = Confirming \cup {r}
           /\ pc[r] \in {"replace", "insert", "activate"} => Confirming' = Confirming
  <1>1. /\ pc[r] \notin {"replace", "insert", "activate"} => r \notin Confirming
        /\ pc[r] \in {"replace", "insert", "activate"} => r \in Confirming
        /\ Confirming' = Confirming \cup {r}
        /\ r \notin Disabling /\ Disabling' = Disabling \ {r}
    BY ChangesGoOn
  <1> QED BY <1>1

(* A step has nothing to do with the changes, or breaks one off, or takes  *)
(* one further.                                                            *)
Aside(r) ==
    /\ Beside(r) /\ Confirming' = Confirming /\ Disabling' = Disabling
    /\ r \notin Changing \/ (pc' = pc /\ rows' = rows)
Breaks(r) ==
    /\ Beside(r) /\ secret' = secret /\ pc'[r] = "idle"
    /\ Confirming' = Confirming \ {r} /\ Disabling' = Disabling \ {r}
Checked(r) ==
    /\ Moved(r, "idle", "replace") /\ secret' \in Held'
    /\ UNCHANGED <<enabled, codes, secret>>
    /\ Confirming' = Confirming \cup {r} /\ Disabling' = Disabling
Seen(r) ==
    /\ Moved(r, "replace", "insert") /\ rows'[r] = codes
    /\ UNCHANGED <<enabled, codes, secret>>
    /\ Confirming' = Confirming /\ Disabling' = Disabling
Replaced(r) ==
    /\ Moved(r, "insert", "activate") /\ UNCHANGED <<enabled, secret>>
    /\ codes' = (codes \ rows[r]) \cup NewSet(sets') /\ sets' \in 1 .. MaxSets
    /\ Confirming' = Confirming /\ Disabling' = Disabling
SwitchedOn(r) ==
    /\ Moved(r, "activate", "idle") /\ enabled' = TRUE /\ UNCHANGED <<codes, secret>>
    /\ Confirming' = Confirming \ {r} /\ Disabling' = Disabling
Listed(r) ==
    /\ Moved(r, "idle", "disable") /\ rows'[r] = codes
    /\ UNCHANGED <<enabled, codes, secret>>
    /\ Confirming' = Confirming /\ Disabling' = Disabling \cup {r}
SwitchedOff(r) ==
    /\ Moved(r, "disable", "idle") /\ enabled' = FALSE /\ codes' = codes \ rows[r]
    /\ Confirming' = Confirming /\ Disabling' = Disabling \ {r}

LEMMA WhatAStepIs ==
    ASSUME MfaTypeOK, NEW r \in Reqs
    PROVE  /\ Step(r) => \/ Aside(r) \/ Checked(r) \/ Seen(r) \/ Replaced(r)
                         \/ SwitchedOn(r) \/ Listed(r) \/ SwitchedOff(r)
           /\ Abort(r) => Breaks(r)
  <1>1. ASSUME BeginSetup(r) PROVE Aside(r)
    <2>1. Beside(r) /\ pc' = pc /\ rows' = rows
      BY <1>1, ChangeSteps
    <2> QED BY <2>1 DEF Aside, Confirming, Disabling
  <1>2. ASSUME Beside(r), {pc[r], pc'[r]} \subseteq {"idle", "find", "mark"} PROVE Aside(r)
    <2>1. \A q \in Reqs \ {r} : pc'[q] = pc[q]
      BY <1>2 DEF Beside
    <2>2. /\ pc[r] \notin {"replace", "insert", "activate", "disable"}
          /\ pc'[r] \notin {"replace", "insert", "activate", "disable"}
      BY <1>2
    <2>3. r \notin Changing /\ Confirming' = Confirming /\ Disabling' = Disabling
      BY <2>1, <2>2, ChangesGoOn DEF Changing
    <2> QED BY <1>2, <2>3 DEF Aside
  <1>3. ASSUME FindUnused(r) \/ MarkUsed(r) \/ \E c \in Row : VerifyRead(r, c)
        PROVE  Aside(r)
    <2>1. Beside(r) /\ {pc[r], pc'[r]} \subseteq {"idle", "find", "mark"}
      BY <1>3, ChangeSteps
    <2> QED BY <1>2, <2>1
  <1>4. ASSUME Abort(r) PROVE Breaks(r)
    <2>1. Beside(r) /\ secret' = secret /\ pc'[r] = "idle"
      BY <1>4, ChangeSteps
    <2>2. \A q \in Reqs \ {r} : pc'[q] = pc[q]
      BY <2>1 DEF Beside
    <2> QED BY <2>1, <2>2, ChangesGoOn DEF Breaks
  <1>5. ASSUME NEW s \in 1 .. secrets, ConfirmRead(r, s) PROVE Checked(r)
    <2>1. /\ Moved(r, "idle", "replace") /\ secret' \in Held'
          /\ UNCHANGED <<enabled, codes, secret>>
      BY <1>5, ChangeSteps
    <2>2. /\ pc[r] = "idle" /\ pc'[r] = "replace"
          /\ \A q \in Reqs \ {r} : pc'[q] = pc[q]
      BY <2>1 DEF Moved
    <2>3. Confirming' = Confirming \cup {r} /\ Disabling' = Disabling
      BY <2>2, ConfirmationsGoOn
    <2> QED BY <2>1, <2>3 DEF Checked
  <1>6. ASSUME ReplaceDelete(r) PROVE Seen(r)
    <2>1. /\ Moved(r, "replace", "insert")
          /\ rows'[r] = codes /\ UNCHANGED <<enabled, codes, secret>>
      BY <1>6, ChangeSteps
    <2>2. \A q \in Reqs \ {r} : pc'[q] = pc[q]
      BY <2>1 DEF Moved
    <2>3. pc[r] = "replace" /\ pc'[r] = "insert"
      BY <2>1 DEF Moved
    <2>4. Confirming' = Confirming /\ Disabling' = Disabling
      BY <2>2, <2>3, ConfirmationsGoOn
    <2> QED BY <2>1, <2>4 DEF Seen
  <1>7. ASSUME ReplaceCommit(r) PROVE Replaced(r)
    <2>1. /\ Moved(r, "insert", "activate")
          /\ UNCHANGED <<enabled, secret>> /\ sets' \in 1 .. MaxSets
          /\ codes' = (codes \ rows[r]) \cup NewSet(sets')
      BY <1>7, ChangeSteps
    <2>2. \A q \in Reqs \ {r} : pc'[q] = pc[q]
      BY <2>1 DEF Moved
    <2>3. pc[r] = "insert" /\ pc'[r] = "activate"
      BY <2>1 DEF Moved
    <2>4. Confirming' = Confirming /\ Disabling' = Disabling
      BY <2>2, <2>3, ConfirmationsGoOn
    <2> QED BY <2>1, <2>4 DEF Replaced
  <1>8. ASSUME ActivateMfa(r) PROVE SwitchedOn(r)
    <2>1. /\ Moved(r, "activate", "idle")
          /\ enabled' = TRUE /\ UNCHANGED <<codes, secret>>
      BY <1>8, ChangeSteps
    <2>2. \A q \in Reqs \ {r} : pc'[q] = pc[q]
      BY <2>1 DEF Moved
    <2>3. pc[r] = "activate" /\ pc'[r] = "idle"
      BY <2>1 DEF Moved
    <2> QED BY <2>1, <2>2, <2>3, ChangesGoOn DEF SwitchedOn
  <1>9. ASSUME DisableDelete(r) PROVE Listed(r)
    <2>1. /\ Moved(r, "idle", "disable")
          /\ rows'[r] = codes /\ UNCHANGED <<enabled, codes, secret>>
      BY <1>9, ChangeSteps
    <2>2. \A q \in Reqs \ {r} : pc'[q] = pc[q]
      BY <2>1 DEF Moved
    <2>3. pc[r] = "idle" /\ pc'[r] = "disable"
      BY <2>1 DEF Moved
    <2> QED BY <2>1, <2>2, <2>3, ChangesGoOn DEF Listed
  <1>10. ASSUME DisableCommit(r) PROVE SwitchedOff(r)
    <2>1. /\ Moved(r, "disable", "idle")
          /\ enabled' = FALSE /\ codes' = codes \ rows[r]
      BY <1>10, ChangeSteps
    <2>2. \A q \in Reqs \ {r} : pc'[q] = pc[q]
      BY <2>1 DEF Moved
    <2>3. pc[r] = "disable" /\ pc'[r] = "idle"
      BY <2>1 DEF Moved
    <2> QED BY <2>1, <2>2, <2>3, ChangesGoOn DEF SwitchedOff
  <1> QED
    BY <1>1, <1>3, <1>4, <1>5, <1>6, <1>7, <1>8, <1>9, <1>10 DEF Step

(* The change that meets no other stays so.                                *)
LEMMA AloneKeeps ==
    ASSUME MfaTypeOK, AloneIsSound, NEW r \in Reqs, Step(r) \/ Abort(r),
           alone' = ((alone \/ Changing' = {}) /\ Cardinality(Changing') <= 1)
    PROVE  AloneIsSound'
  <1> SUFFICES ASSUME alone' = TRUE, Changing' # {} PROVE AloneIsSound'
    BY DEF AloneIsSound, Changing
  <1>0. /\ pc \in [Reqs -> Places] /\ rows \in [Reqs -> SUBSET Row] /\ codes \subseteq Row
        /\ alone \in BOOLEAN
    BY DEF MfaTypeOK, Places
  <1>1. alone = TRUE /\ Cardinality(Changing') <= 1
    BY <1>0, Zenon
  <1>2. \A q, p \in Changing' : q = p
    <2>1. Changing' \subseteq Reqs
      BY DEF Changing, Confirming, Disabling
    <2>2. Cardinality(Changing') \in Nat
      BY <2>1, FS_Subset, FS_CardinalityType
    <2>3. ~ (Cardinality(Changing') > 1)
      BY <1>1, <2>2
    <2> QED BY <2>1, <2>3, OneChanges
  <1>3. /\ \A q, p \in Changing : q = p
        /\ Confirming # {} => secret \in Held
        /\ \A q \in Changing :
             /\ pc[q] \in {"insert", "disable"} => rows[q] = codes
             /\ pc[q] = "activate" => codes # {} /\ OfOneSet
    BY <1>1 DEF AloneIsSound
  <1> SUFFICES
        /\ Confirming' # {} => secret' \in Held'
        /\ \A q \in Changing' :
             /\ pc'[q] \in {"insert", "disable"} => rows'[q] = codes'
             /\ pc'[q] = "activate" => codes' # {} /\ OfOneSet'
    BY <1>2 DEF AloneIsSound
  <1>4. CASE Aside(r)
    <2>1. Changing' = Changing /\ \A q \in Changing : pc'[q] = pc[q] /\ rows'[q] = rows[q]
      BY <1>4 DEF Aside, Beside, Changing, Confirming, Disabling
    <2>2. codes' = codes /\ (Confirming' # {} => secret' \in Held')
      BY <1>3, <1>4 DEF Aside, Beside
    <2> QED BY <1>3, <2>1, <2>2 DEF OfOneSet
  <1>5. CASE Breaks(r)
    <2>1. Changing' = Changing \ {r}
      BY <1>5 DEF Breaks, Changing
    <2>2. /\ codes' = codes /\ secret' = secret /\ Held \subseteq Held'
          /\ \A q \in Changing' : pc'[q] = pc[q] /\ rows'[q] = rows[q]
      BY <1>5, <2>1 DEF Breaks, Beside, Changing, Confirming, Disabling
    <2>3. Confirming' # {} => Confirming # {}
      BY <1>5 DEF Breaks
    <2> QED BY <1>3, <2>1, <2>2, <2>3 DEF OfOneSet
  <1>6. CASE Checked(r)
    <2>1. r \in Changing' /\ pc'[r] = "replace" /\ secret' \in Held'
      BY <1>6 DEF Checked, Changing, Moved
    <2>2. \A q \in Changing' : q = r
      BY <1>2, <2>1
    <2> QED BY <2>1, <2>2
  <1>7. CASE Seen(r)
    <2>1. /\ r \in Changing' /\ pc'[r] = "insert" /\ rows'[r] = codes'
          /\ Confirming # {} /\ secret' = secret /\ Held \subseteq Held'
      BY <1>7 DEF Seen, Changing, Moved, Confirming
    <2>2. \A q \in Changing' : q = r
      BY <1>2, <2>1
    <2> QED BY <1>3, <2>1, <2>2
  <1>8. CASE Replaced(r)
    <2>1. /\ r \in Changing /\ r \in Changing' /\ pc[r] = "insert" /\ pc'[r] = "activate"
          /\ Confirming # {} /\ secret' = secret /\ Held \subseteq Held'
      BY <1>8 DEF Replaced, Changing, Moved, Confirming
    <2>2. codes' = NewSet(sets') /\ sets' \in 1 .. MaxSets
      <3>1. pc[r] \in {"insert", "disable"}
        BY <2>1
      <3>2. rows[r] = codes
        BY <1>3, <2>1, <3>1
      <3> QED BY <1>8, <3>2 DEF Replaced
    <2>3. codes' # {} /\ OfOneSet'
      BY <2>2, SetsAreNew DEF OfOneSet
    <2>4. \A q \in Changing' : q = r
      BY <1>2, <2>1
    <2> QED BY <1>3, <2>1, <2>3, <2>4
  <1>9. CASE SwitchedOn(r) \/ SwitchedOff(r)
    <2>1. r \in Changing /\ Changing' = Changing \ {r}
      BY <1>9 DEF SwitchedOn, SwitchedOff, Changing, Moved, Confirming, Disabling
    <2>2. Changing' = {}
      BY <1>3, <2>1
    <2> QED BY <2>2
  <1>10. CASE Listed(r)
    <2>1. /\ r \in Changing' /\ pc'[r] = "disable" /\ rows'[r] = codes'
      BY <1>10 DEF Listed, Changing, Moved, Disabling
    <2>2. \A q \in Changing' : q = r
      BY <1>2, <2>1
    <2>3. Confirming' = {}
      BY <2>1, <2>2 DEF Changing, Confirming
    <2> QED BY <2>1, <2>2, <2>3
  <1> QED BY <1>4, <1>5, <1>6, <1>7, <1>8, <1>9, <1>10, WhatAStepIs

(* Until a confirmation and a disabling cross, a step leaves an account    *)
(* that needs it with a secret that was proven or swapped.                 *)
LEMMA CrossedKeeps ==
    ASSUME MfaTypeOK, NotCrossed, NEW r \in Reqs, Step(r) \/ Abort(r),
           Confirming' = {} \/ Disabling' = {}
    PROVE  NotCrossed'
  <1> SUFFICES ASSUME enabled' = TRUE \/ Confirming' # {} PROVE secret' \in Held'
    BY DEF NotCrossed
  <1>0. /\ Confirming = {} \/ Disabling = {}
        /\ enabled = TRUE \/ Confirming # {} => secret \in Held
    BY DEF NotCrossed
  <1>1. CASE Aside(r)
    BY <1>0, <1>1 DEF Aside, Beside
  <1>2. CASE Breaks(r)
    <2>1. enabled' = enabled /\ secret' = secret /\ Held \subseteq Held'
      BY <1>2 DEF Breaks, Beside
    <2>2. Confirming' # {} => Confirming # {}
      BY <1>2 DEF Breaks
    <2> QED BY <1>0, <2>1, <2>2
  <1>3. CASE Checked(r)
    BY <1>3 DEF Checked
  <1>4. CASE Seen(r) \/ Replaced(r) \/ Listed(r)
    BY <1>0, <1>4 DEF Seen, Replaced, Listed, Moved
  <1>5. CASE SwitchedOn(r)
    <2>1. Confirming # {} /\ secret' = secret /\ Held \subseteq Held'
      BY <1>5 DEF SwitchedOn, Moved, Confirming
    <2> QED BY <1>0, <2>1
  <1>6. CASE SwitchedOff(r)
    <2>1. Disabling # {} /\ enabled' = FALSE /\ Confirming' = Confirming
      BY <1>6 DEF SwitchedOff, Moved, Disabling
    <2> QED BY <1>0, <2>1
  <1> QED BY <1>1, <1>2, <1>3, <1>4, <1>5, <1>6, WhatAStepIs

(* Until two confirmations overlap, a step leaves the codes of one set.    *)
LEMMA DoubledKeeps ==
    ASSUME MfaTypeOK, NotDoubled, NEW r \in Reqs, Step(r) \/ Abort(r),
           \A p, q \in Confirming' : p = q
    PROVE  NotDoubled'
  <1>0. /\ \A p, q \in Confirming : p = q
        /\ OfOneSet
        /\ \A q \in Reqs : pc[q] = "insert" => codes \subseteq rows[q]
    BY DEF NotDoubled
  <1> SUFFICES /\ OfOneSet'
               /\ \A q \in Reqs : pc'[q] = "insert" => codes' \subseteq rows'[q]
    BY DEF NotDoubled
  <1>1. ASSUME codes' \subseteq codes, \A q \in Reqs \ {r} : pc'[q] = pc[q] /\ rows'[q] = rows[q],
               \/ pc'[r] = "insert" => codes \subseteq rows'[r]
               \/ pc'[r] = pc[r] /\ rows'[r] = rows[r]
        PROVE  /\ OfOneSet'
               /\ \A q \in Reqs : pc'[q] = "insert" => codes' \subseteq rows'[q]
    <2>1. OfOneSet'
      BY <1>0, <1>1 DEF OfOneSet
    <2>2. ASSUME NEW q \in Reqs, pc'[q] = "insert" PROVE codes' \subseteq rows'[q]
      <3>1. CASE q = r
        <4>1. codes \subseteq rows'[r]
          BY <1>0, <1>1, <2>2, <3>1
        <4> QED BY <1>1, <3>1, <4>1
      <3>2. CASE q # r
        BY <1>0, <1>1, <2>2, <3>2
      <3> QED BY <3>1, <3>2
    <2> QED BY <2>1, <2>2
  <1>2. CASE Aside(r)
    <2>1. \/ pc'[r] # "insert"
          \/ pc'[r] = pc[r] /\ rows'[r] = rows[r]
      BY <1>2 DEF Aside, Changing, Confirming
    <2>2. codes' = codes /\ \A q \in Reqs \ {r} : pc'[q] = pc[q] /\ rows'[q] = rows[q]
      BY <1>2 DEF Aside, Beside
    <2> QED BY <1>1, <2>1, <2>2
  <1>3. CASE Breaks(r) \/ Checked(r) \/ SwitchedOn(r) \/ Listed(r) \/ SwitchedOff(r)
    <2>1. /\ codes' \subseteq codes /\ pc'[r] # "insert"
          /\ \A q \in Reqs \ {r} : pc'[q] = pc[q] /\ rows'[q] = rows[q]
      BY <1>3 DEF Breaks, Beside, Checked, SwitchedOn, Listed, SwitchedOff, Moved
    <2> QED BY <1>1, <2>1
  <1>4. CASE Seen(r)
    <2>1. /\ codes' = codes /\ rows'[r] = codes
          /\ \A q \in Reqs \ {r} : pc'[q] = pc[q] /\ rows'[q] = rows[q]
      BY <1>4 DEF Seen, Moved
    <2> QED BY <1>1, <2>1
  <1>5. CASE Replaced(r)
    <2>1. /\ pc[r] = "insert" /\ pc'[r] = "activate" /\ r \in Confirming'
          /\ \A q \in Reqs \ {r} : pc'[q] = pc[q]
          /\ codes' = (codes \ rows[r]) \cup NewSet(sets') /\ sets' \in 1 .. MaxSets
      BY <1>5 DEF Replaced, Moved, Confirming
    <2>2. codes' = NewSet(sets')
      BY <1>0, <2>1
    <2>3. OfOneSet'
      BY <2>1, <2>2, SetsAreNew DEF OfOneSet
    <2>4. \A q \in Reqs : pc'[q] # "insert"
      <3>1. ASSUME NEW q \in Reqs, pc'[q] = "insert" PROVE FALSE
        <4>1. q \in Confirming'
          BY <3>1 DEF Confirming
        <4>2. q = r
          BY <2>1, <4>1
        <4> QED BY <2>1, <3>1, <4>2
      <3> QED BY <3>1
    <2> QED BY <2>3, <2>4
  <1> QED BY <1>2, <1>3, <1>4, <1>5, WhatAStepIs

(* Until a change is cut off, or two cross, a step leaves MFA on with its  *)
(* codes, or off without, or with a confirmation about to switch it on.    *)
LEMMA CutKeeps ==
    ASSUME MfaTypeOK, NotCut, NotCrossed, NEW r \in Reqs,
           Step(r) \/ (Abort(r) /\ pc[r] # "activate"),
           Confirming' = {} \/ Disabling' = {}
    PROVE  NotCut'
  <1>0. /\ codes # {} <=> (enabled = TRUE \/ \E q \in Reqs : pc[q] = "activate")
        /\ \A q \in Reqs : pc[q] = "disable" => codes \subseteq rows[q]
        /\ Confirming = {} \/ Disabling = {}
    BY DEF NotCut, NotCrossed
  <1>1. ASSUME enabled' = enabled, codes' = codes,
               \A q \in Reqs \ {r} : pc'[q] = pc[q] /\ rows'[q] = rows[q],
               pc[r] = "activate" <=> pc'[r] = "activate",
               \/ pc'[r] = "disable" => codes \subseteq rows'[r]
               \/ pc'[r] = pc[r] /\ rows'[r] = rows[r]
        PROVE  NotCut'
    <2>1. codes # {} <=> (enabled = TRUE \/ \E q \in Reqs : pc'[q] = "activate")
      BY <1>0, <1>1
    <2>2. \A q \in Reqs : pc'[q] = "disable" => codes \subseteq rows'[q]
      BY <1>0, <1>1
    <2> QED BY <1>0, <1>1, <2>1, <2>2 DEF NotCut
  <1>2. CASE Aside(r)
    <2>1. \/ pc[r] # "activate" /\ pc'[r] \notin {"activate", "disable"}
          \/ pc'[r] = pc[r] /\ rows'[r] = rows[r]
      BY <1>2 DEF Aside, Changing, Confirming, Disabling
    <2>2. /\ enabled' = enabled /\ codes' = codes
          /\ \A q \in Reqs \ {r} : pc'[q] = pc[q] /\ rows'[q] = rows[q]
      BY <1>2 DEF Aside, Beside
    <2> QED BY <1>1, <2>1, <2>2
  <1>3. CASE Breaks(r) /\ pc[r] # "activate"
    <2>1. /\ enabled' = enabled /\ codes' = codes /\ pc'[r] \notin {"activate", "disable"}
          /\ \A q \in Reqs \ {r} : pc'[q] = pc[q] /\ rows'[q] = rows[q]
      BY <1>3 DEF Breaks, Beside
    <2> QED BY <1>1, <1>3, <2>1
  <1>4. CASE Checked(r) \/ Seen(r)
    <2>1. /\ enabled' = enabled /\ codes' = codes
          /\ pc'[r] \notin {"activate", "disable"} /\ pc[r] # "activate"
          /\ \A q \in Reqs \ {r} : pc'[q] = pc[q] /\ rows'[q] = rows[q]
      BY <1>4 DEF Checked, Seen, Moved
    <2> QED BY <1>1, <2>1
  <1>5. CASE Listed(r)
    <2>1. /\ enabled' = enabled /\ codes' = codes /\ rows'[r] = codes
          /\ pc[r] # "activate" /\ pc'[r] # "activate"
          /\ \A q \in Reqs \ {r} : pc'[q] = pc[q] /\ rows'[q] = rows[q]
      BY <1>5 DEF Listed, Moved
    <2> QED BY <1>1, <2>1
  <1>6. CASE Replaced(r) \/ SwitchedOn(r)
    <2>1. r \in Confirming
      BY <1>6 DEF Replaced, SwitchedOn, Moved, Confirming
    <2>2. \A q \in Reqs : pc[q] # "disable" /\ pc'[q] # "disable"
      <3>1. pc'[r] # "disable" /\ \A q \in Reqs \ {r} : pc'[q] = pc[q]
        BY <1>6 DEF Replaced, SwitchedOn, Moved
      <3>2. \A q \in Reqs : pc[q] # "disable"
        BY <1>0, <2>1 DEF Disabling
      <3> QED BY <3>1, <3>2
    <2>3. CASE Replaced(r)
      <3>1. codes' # {}
        BY <2>3, SetsAreNew DEF Replaced
      <3>2. \E q \in Reqs : pc'[q] = "activate"
        BY <2>3 DEF Replaced, Moved
      <3> QED BY <2>2, <3>1, <3>2 DEF NotCut
    <2>4. CASE SwitchedOn(r)
      <3>1. enabled' = TRUE /\ codes' = codes /\ pc[r] = "activate"
        BY <2>4 DEF SwitchedOn, Moved
      <3>2. codes' # {}
        BY <1>0, <3>1
      <3> QED BY <2>2, <3>1, <3>2 DEF NotCut
    <2> QED BY <1>6, <2>3, <2>4
  <1>7. CASE SwitchedOff(r)
    <2>1. /\ pc[r] = "disable" /\ enabled' = FALSE /\ codes' = codes \ rows[r]
          /\ pc'[r] = "idle"
          /\ \A q \in Reqs \ {r} : pc'[q] = pc[q] /\ rows'[q] = rows[q]
      BY <1>7 DEF SwitchedOff, Moved
    <2>2. codes' = {} /\ r \in Disabling
      BY <1>0, <2>1 DEF Disabling
    <2>3. \A q \in Reqs : pc'[q] # "activate"
      <3>1. \A q \in Reqs : pc[q] # "activate"
        BY <1>0, <2>2 DEF Confirming
      <3> QED BY <2>1, <3>1
    <2> QED BY <2>1, <2>2, <2>3 DEF NotCut
  <1> QED BY <1>2, <1>3, <1>4, <1>5, <1>6, <1>7, WhatAStepIs

(* The change that has met no other mends what has gone wrong.             *)
LEMMA Mends ==
    ASSUME MfaTypeOK, AloneIsSound, alone = TRUE, NEW r \in Reqs, Step(r),
           r \in Changing \ Changing'
    PROVE  NotCrossed' /\ NotDoubled' /\ NotCut'
  <1>1. SwitchedOn(r) \/ SwitchedOff(r)
    BY WhatAStepIs
    DEF Aside, Checked, Seen, Replaced, Listed, Moved, Changing, Confirming, Disabling
  <1>2. Changing = {r}
    BY DEF AloneIsSound
  <1>3. Changing' = {}
    <2>1. Changing' = Changing \ {r}
      BY <1>1 DEF SwitchedOn, SwitchedOff, Changing, Moved, Confirming, Disabling
    <2> QED BY <1>2, <2>1
  <1>4. /\ Confirming' = {} /\ Disabling' = {}
        /\ \A q \in Reqs : pc'[q] \notin {"insert", "activate", "disable"}
    BY <1>3 DEF Changing, Confirming, Disabling
  <1>5. CASE SwitchedOn(r)
    <2>1. pc[r] = "activate" /\ Confirming # {}
      BY <1>5 DEF SwitchedOn, Moved, Confirming
    <2>2. secret \in Held /\ codes # {} /\ OfOneSet
      BY <1>2, <2>1 DEF AloneIsSound
    <2>3. enabled' = TRUE /\ codes' = codes /\ secret' = secret /\ Held \subseteq Held'
      BY <1>5 DEF SwitchedOn, Moved
    <2>4. OfOneSet'
      BY <2>2, <2>3 DEF OfOneSet
    <2> QED BY <1>4, <2>2, <2>3, <2>4 DEF NotCrossed, NotDoubled, NotCut
  <1>6. CASE SwitchedOff(r)
    <2>1. pc[r] = "disable" /\ enabled' = FALSE /\ codes' = codes \ rows[r]
      BY <1>6 DEF SwitchedOff, Moved
    <2>2. rows[r] = codes
      BY <1>2, <2>1 DEF AloneIsSound
    <2>3. codes' = {}
      BY <2>1, <2>2
    <2> QED BY <1>4, <2>1, <2>3 DEF NotCrossed, NotDoubled, NotCut, OfOneSet
  <1> QED BY <1>1, <1>5, <1>6

(* What has not gone wrong leaves its part of the enrolment whole.         *)
Parts ==
    /\ "crossed" \notin disturbed => NotCrossed
    /\ "doubled" \notin disturbed => NotDoubled
    /\ disturbed \cap {"crossed", "cut"} = {} => NotCut

LEMMA PartsKeep ==
    ASSUME MfaTypeOK, Parts, NEW r \in Reqs,
           \/ Step(r) /\ disturbed' = disturbed \cup Trouble'
           \/ /\ Abort(r)
              /\ disturbed' = IF pc[r] = "activate" THEN disturbed \cup {"cut"} ELSE disturbed
    PROVE  Parts'
  <1>0. disturbed \subseteq disturbed'
    OBVIOUS
  <1>1. ASSUME "crossed" \notin disturbed'
        PROVE  NotCrossed /\ (Confirming' = {} \/ Disabling' = {})
    <2>1. NotCrossed
      BY <1>0, <1>1 DEF Parts
    <2>2. CASE Abort(r)
      BY <2>1, <2>2, WhatAStepIs DEF NotCrossed, Breaks
    <2>3. CASE disturbed' = disturbed \cup Trouble'
      BY <1>1, <2>1, <2>3 DEF Trouble
    <2> QED BY <2>1, <2>2, <2>3
  <1>2. ASSUME "doubled" \notin disturbed' PROVE NotDoubled'
    <2>1. NotDoubled
      BY <1>0, <1>2 DEF Parts
    <2>2. \A p, q \in Confirming' : p = q
      <3>1. CASE Abort(r)
        <4>1. Confirming' \subseteq Confirming
          BY <3>1, WhatAStepIs DEF Breaks
        <4> QED BY <2>1, <4>1 DEF NotDoubled
      <3>2. CASE disturbed' = disturbed \cup Trouble'
        <4>1. ~ (Cardinality(Confirming') > 1) /\ Confirming' \subseteq Reqs
          BY <1>2, <3>2 DEF Trouble, Confirming
        <4> QED BY <4>1, OneChanges
      <3> QED BY <3>1, <3>2
    <2> QED BY <2>1, <2>2, DoubledKeeps
  <1>3. "crossed" \notin disturbed' => NotCrossed'
    BY <1>1, CrossedKeeps
  <1>4. ASSUME disturbed' \cap {"crossed", "cut"} = {} PROVE NotCut'
    <2>1. NotCut /\ NotCrossed /\ (Confirming' = {} \/ Disabling' = {})
      BY <1>0, <1>1, <1>4 DEF Parts
    <2>2. Step(r) \/ (Abort(r) /\ pc[r] # "activate")
      BY <1>4
    <2> QED BY <2>1, <2>2, CutKeeps
  <1> QED BY <1>2, <1>3, <1>4 DEF Parts

EnrolmentInvariant == MfaTypeOK /\ AloneIsSound /\ Parts

LEMMA EnrolmentStep == EnrolmentInvariant /\ [MfaNext]_mfaVars => EnrolmentInvariant'
  <1> SUFFICES ASSUME EnrolmentInvariant, [MfaNext]_mfaVars
               PROVE  AloneIsSound' /\ Parts'
    BY MfaTypes DEF EnrolmentInvariant
  <1>0. MfaTypeOK /\ AloneIsSound /\ Parts
    BY DEF EnrolmentInvariant
  <1>1. ASSUME NEW r \in Reqs, Step(r) \/ Abort(r),
               alone' = ((alone \/ Changing' = {}) /\ Cardinality(Changing') <= 1)
        PROVE  AloneIsSound'
    BY <1>0, <1>1, AloneKeeps
  <1>2. ASSUME NEW r \in Reqs, Step(r),
               disturbed' = IF alone /\ r \in Changing \ Changing'
                            THEN {} ELSE disturbed \cup Trouble'
        PROVE  Parts'
    <2>0. alone \in BOOLEAN
      BY <1>0 DEF MfaTypeOK
    <2>1. CASE alone = TRUE /\ r \in Changing \ Changing'
      BY <1>0, <1>2, <2>1, Mends DEF Parts
    <2>2. CASE ~ (alone = TRUE /\ r \in Changing \ Changing')
      <3>1. disturbed' = disturbed \cup Trouble'
        BY <1>2, <2>0, <2>2, Zenon
      <3> QED BY <1>0, <1>2, <3>1, PartsKeep
    <2> QED BY <2>1, <2>2
  <1>3. ASSUME NEW r \in Reqs, Abort(r),
               disturbed' = IF pc[r] = "activate" THEN disturbed \cup {"cut"} ELSE disturbed
        PROVE  Parts'
    BY <1>0, <1>3, PartsKeep
  <1>4. CASE UNCHANGED mfaVars
    <2>1. UNCHANGED <<enabled, codes, secret, pc, rows, proven, swapped, alone, disturbed>>
      BY <1>4 DEF mfaVars, columns, table, request, history, proofs
    <2>2. UNCHANGED <<Confirming, Disabling, Changing, Held>>
      BY <2>1 DEF Confirming, Disabling, Changing, Held
    <2>3. AloneIsSound'
      BY <1>0, <2>1, <2>2 DEF AloneIsSound, OfOneSet
    <2>4. Parts'
      BY <1>0, <2>1, <2>2 DEF Parts, NotCrossed, NotDoubled, NotCut, OfOneSet
    <2> QED BY <2>3, <2>4
  <1> QED BY <1>1, <1>2, <1>3, <1>4 DEF MfaNext

(* A secret in force has been proven, or a setup has swapped it; the codes *)
(* are of one set; and between two changes MFA is on just when there are   *)
(* codes.  Each of the three fails only through overlapping changes or one *)
(* that breaks off, as EnrolmentIsWhole names them, and the next change    *)
(* that meets no other restores all of them                                *)
(* (mfa.service.ts:31-38, mfa.repository.ts:34-58).                        *)
THEOREM EnrolmentsAreWhole == MfaSpec => []EnrolmentIsWhole
  <1>1. MfaInit => EnrolmentInvariant
    <2> SUFFICES ASSUME MfaInit PROVE AloneIsSound /\ Parts
      BY MfaStarts DEF EnrolmentInvariant
    <2>1. /\ Confirming = {} /\ Disabling = {} /\ codes = {} /\ enabled = FALSE
          /\ \A r \in Reqs : pc[r] = "idle"
      BY DEF MfaInit, Confirming, Disabling
    <2> QED
      BY <2>1 DEF AloneIsSound, Parts, NotCrossed, NotDoubled, NotCut, Changing, OfOneSet
  <1>2. EnrolmentInvariant => EnrolmentIsWhole
    <2> SUFFICES ASSUME EnrolmentInvariant PROVE EnrolmentIsWhole
      OBVIOUS
    <2>1. enabled \in BOOLEAN /\ Parts
      BY DEF EnrolmentInvariant, MfaTypeOK
    <2>2. "crossed" \notin disturbed /\ enabled = TRUE => secret \in proven \cup swapped
      BY <2>1 DEF Parts, NotCrossed, Held
    <2>3. "doubled" \notin disturbed => \A c, d \in codes : c[1] = d[1]
      BY <2>1 DEF Parts, NotDoubled, OfOneSet
    <2>4. disturbed \cap {"crossed", "cut"} = {} /\ Changing = {}
            => (enabled = TRUE <=> codes # {})
      BY <2>1 DEF Parts, NotCut, Changing, Confirming
    <2> QED BY <2>1, <2>2, <2>3, <2>4 DEF EnrolmentIsWhole
  <1> QED BY <1>1, <1>2, EnrolmentStep, PTL DEF MfaSpec

-----------------------------------------------------------------------------
(* Accounts and their logins by identity providers.                        *)

UserRecords == [live : BOOLEAN, mail : Mails \cup {Nothing},
                tenant : Tenants \cup {Nothing}, password : BOOLEAN, verified : BOOLEAN,
                erased : BOOLEAN]
CallSteps == {"idle", "create", "token", "mail", "identity", "find", "link", "issue"}
CallRecords == [step : CallSteps, by : Identities \cup {Nothing}, mail : Mails \cup {Nothing},
                tenant : Tenants \cup {Nothing}, of : Accounts \cup {Nothing},
                flow : Flows \cup {Nothing}]

(* A row of User has an address, or had one.                               *)
Exists(a) == a \in Accounts /\ (user[a].mail # Nothing \/ user[a].erased)

(* Where an identity may log in: its tenant, for that of a tenant.         *)
Admits(i, a) == i \in Corporate => user[a].tenant \in {Nothing, TenantOf[i]}

(* A login of identity i enters account a with good reason.                *)
Stands(i, a) ==
    /\ i \in Identities /\ Exists(a) /\ Admits(i, a)
    /\ link[i] = a \/ user[a].erased

(* What a call has read before it awaits still fits the rows.              *)
CallIsSound(c) ==
    /\ c.step \in {"create", "identity", "find"} =>
         /\ c.mail # Nothing
         /\ c.by \in Corporate => c.tenant = TenantOf[c.by]
    /\ c.step \in {"identity", "find", "link", "issue"} => c.by \in Identities
    /\ c.step \in {"token", "mail"} => c.of \in Accounts
    /\ c.step = "link" => Exists(c.of) /\ Admits(c.by, c.of)
    /\ c.step = "issue" => Stands(c.by, c.of)
    /\ c.flow # Nothing => c.by \in Corporate

CallsAreSound == \A r \in Visitors : CallIsSound(call[r])

LinksStayInTenant ==
    \A i \in Identities : link[i] # Nothing => Exists(link[i]) /\ Admits(i, link[i])

CodesStand == \A f \in Flows : exchange[f] # Nothing => Stands(exchange[f][1], exchange[f][2])
SessionsStand == \A s \in sessions : Stands(s[1], s[2])

(* A flow is a state, then a call, then a code, then a session, or over.   *)
FlowIsInOnePlace(f) ==
    /\ \A r, s \in Visitors : call[r].flow = f /\ call[s].flow = f => r = s
    /\ \A r \in Visitors : call[r].flow = f =>
         states[f] = Nothing /\ exchange[f] = Nothing /\ delivered[f] = 0
    /\ exchange[f] # Nothing => states[f] = Nothing /\ delivered[f] = 0
    /\ states[f] # Nothing => delivered[f] = 0
    /\ delivered[f] <= 1

FlowsAreInOnePlace == \A f \in Flows : FlowIsInOnePlace(f)

LoginInvariant ==
    /\ EntryTypeOK
    /\ CallsAreSound
    /\ LinksStayInTenant
    /\ CodesStand
    /\ SessionsStand
    /\ FlowsAreInOnePlace

(* The call of r, and no other one, becomes c.                             *)
CallBecomes(r, c) ==
    /\ call' \in [Visitors -> CallRecords] /\ call'[r] = c
    /\ \A s \in Visitors \ {r} : call'[s] = call[s]

LEMMA EntryTypes ==
    EntryTypeOK <=> /\ user \in [Accounts -> UserRecords]
                    /\ link \in [Identities -> Accounts \cup {Nothing}]
                    /\ token \subseteq Accounts /\ stuck \subseteq Accounts
                    /\ states \in [Flows -> Tenants \cup {Nothing}]
                    /\ exchange \in [Flows -> (Corporate \X Accounts) \cup {Nothing}]
                    /\ call \in [Visitors -> CallRecords]
                    /\ sessions \subseteq Identities \X Accounts
                    /\ delivered \in [Flows -> 0..2]
  BY DEF EntryTypeOK, UserRecords, CallRecords, CallSteps

LEMMA BeginFrame ==
    ASSUME EntryTypeOK, NEW r \in Visitors, NEW step \in CallSteps,
           NEW i \in Identities \cup {Nothing}, NEW m \in Mails \cup {Nothing},
           NEW t \in Tenants \cup {Nothing}, NEW f \in Flows \cup {Nothing},
           Begin(r, step, i, m, t, f)
    PROVE  CallBecomes(r, [step |-> step, by |-> i, mail |-> m, tenant |-> t,
                           of |-> Nothing, flow |-> f])
  BY EntryTypes DEF Begin, CallBecomes, CallRecords

LEMMA ProceedFrame ==
    ASSUME EntryTypeOK, NEW r \in Visitors, NEW step \in CallSteps,
           NEW a \in Accounts \cup {Nothing}, Proceed(r, step, a)
    PROVE  CallBecomes(r, [step |-> step, by |-> call[r].by, mail |-> call[r].mail,
                           tenant |-> call[r].tenant, of |-> a, flow |-> call[r].flow])
  <1> DEFINE c == [step |-> step, by |-> call[r].by, mail |-> call[r].mail,
                   tenant |-> call[r].tenant, of |-> a, flow |-> call[r].flow]
  <1>1. call[r] \in CallRecords /\ call \in [Visitors -> CallRecords]
    BY EntryTypes
  <1>2. c \in CallRecords
    BY <1>1 DEF CallRecords
  <1>3. call'[r] = c
    BY <1>1 DEF Proceed, CallRecords
  <1>4. \A s \in Visitors \ {r} : call'[s] = call[s]
    BY <1>1 DEF Proceed
  <1>5. call' \in [Visitors -> CallRecords]
    BY <1>1, <1>2, <1>3, <1>4 DEF Proceed
  <1> QED BY <1>3, <1>4, <1>5 DEF CallBecomes

LEMMA AnsweredFrame ==
    ASSUME EntryTypeOK, NEW r \in Visitors, Answered(r)
    PROVE  CallBecomes(r, NoCall)
  BY EntryTypes DEF Answered, CallBecomes, CallRecords, CallSteps, NoCall

(* Rows and links stay what they are for a login: nothing that changes     *)
(* them takes away what a call or a code has found, but an erasure.        *)
RowsStay ==
    /\ \A a \in Accounts : Exists(a) => /\ Exists(a)' /\ user'[a].tenant = user[a].tenant
                                        /\ user[a].erased => user'[a].erased
    /\ \A i \in Identities :
         link[i] # Nothing => link'[i] = link[i] \/ user'[link[i]].erased

LEMMA StandsForGood ==
    ASSUME RowsStay, NEW i, NEW a, Stands(i, a) PROVE Stands(i, a)'
  <1>1. a \in Accounts /\ a # Nothing /\ i \in Identities
    BY DEF Stands, Exists
  <1> QED BY <1>1 DEF RowsStay, Stands, Exists, Admits

LEMMA SoundForGood ==
    ASSUME RowsStay, NEW c \in CallRecords, CallIsSound(c)
    PROVE  CallIsSound(c)'
  <1>1. c.step = "issue" => Stands(c.by, c.of)'
    BY StandsForGood DEF CallIsSound
  <1>2. c.step = "link" => Exists(c.of)' /\ Admits(c.by, c.of)'
    BY DEF RowsStay, CallIsSound, Exists, Admits
  <1> QED BY <1>1, <1>2 DEF CallIsSound

(* Logins that have been given, or are about to be, stand.                 *)
LEMMA LoginsStandForGood ==
    ASSUME LoginInvariant, RowsStay
    PROVE  /\ UNCHANGED exchange => CodesStand'
           /\ UNCHANGED sessions => SessionsStand'
  BY StandsForGood DEF LoginInvariant, CodesStand, SessionsStand

LEMMA LinksStandForGood ==
    ASSUME LoginInvariant, RowsStay, UNCHANGED link PROVE LinksStayInTenant'
  BY EntryTypes DEF LoginInvariant, RowsStay, LinksStayInTenant, Exists, Admits

(* One call becomes c, which is sound, and rows and links stay.            *)
LEMMA CallsKeep ==
    ASSUME LoginInvariant, RowsStay, NEW r \in Visitors, NEW c \in CallRecords,
           CallBecomes(r, c), CallIsSound(c)'
    PROVE  CallsAreSound'
  <1> SUFFICES ASSUME NEW s \in Visitors PROVE CallIsSound(call[s])'
    BY DEF CallsAreSound
  <1>1. CASE s = r
    BY <1>1 DEF CallBecomes
  <1>2. CASE s # r
    <2>1. call[s] \in CallRecords /\ CallIsSound(call[s]) /\ call'[s] = call[s]
      BY <1>2, EntryTypes DEF LoginInvariant, CallsAreSound, CallBecomes
    <2> QED BY <2>1, SoundForGood DEF LoginInvariant
  <1> QED BY <1>1, <1>2

(* One call becomes c, and no flow but perhaps its own changes.            *)
LEMMA FlowsKeep ==
    ASSUME LoginInvariant, NEW r \in Visitors, NEW c \in CallRecords, CallBecomes(r, c),
           c.flow \in {call[r].flow, Nothing}, UNCHANGED <<states, exchange, delivered>>
    PROVE  FlowsAreInOnePlace'
  BY DEF LoginInvariant, FlowsAreInOnePlace, FlowIsInOnePlace, CallBecomes

(* A call goes on and nothing else changes.                                *)
LEMMA CallAloneKeeps ==
    ASSUME LoginInvariant, NEW r \in Visitors, NEW c \in CallRecords, CallBecomes(r, c),
           CallIsSound(c), c.flow \in {call[r].flow, Nothing},
           UNCHANGED <<user, link, token, states, exchange, sessions, delivered>>,
           stuck' \subseteq Accounts
    PROVE  LoginInvariant'
  <1>1. RowsStay
    BY DEF RowsStay, Exists
  <1>2. EntryTypeOK'
    BY EntryTypes DEF LoginInvariant, CallBecomes, EntryTypeOK, CallRecords, CallSteps
  <1>3. CallsAreSound'
    BY <1>1, CallsKeep, SoundForGood DEF LoginInvariant
  <1>4. FlowsAreInOnePlace'
    BY FlowsKeep
  <1> QED
    BY <1>1, <1>2, <1>3, <1>4, LoginsStandForGood, LinksStandForGood DEF LoginInvariant

-----------------------------------------------------------------------------
LEMMA RegisterKeeps ==
    ASSUME LoginInvariant, NEW r \in Visitors, NEW m \in Mails,
           NEW t \in Tenants \cup {Nothing}, Register(r, m, t)
    PROVE  LoginInvariant'
  <1> DEFINE c == [step |-> "create", by |-> Nothing, mail |-> m, tenant |-> t,
                   of |-> Nothing, flow |-> Nothing]
  <1>1. c \in CallRecords /\ "create" \in CallSteps
    BY DEF CallRecords, CallSteps
  <1>2. CallBecomes(r, c)
    BY <1>1, BeginFrame DEF Register, LoginInvariant
  <1>3. CallIsSound(c) /\ c.flow = Nothing
    BY DEF CallIsSound
  <1> HIDE DEF c
  <1> QED
    BY <1>1, <1>2, <1>3, CallAloneKeeps, EntryTypes
    DEF Register, tables, flows, entryHistory, LoginInvariant

LEMMA ProviderKeeps ==
    ASSUME LoginInvariant, NEW r \in Visitors, NEW i \in Consumer, NEW m \in Mails,
           NEW t \in Tenants \cup {Nothing}, LoginWithProvider(r, i, m, t)
    PROVE  LoginInvariant'
  <1> DEFINE c == [step |-> "identity", by |-> i, mail |-> m, tenant |-> t,
                   of |-> Nothing, flow |-> Nothing]
  <1>1. c \in CallRecords /\ "identity" \in CallSteps /\ i \in Identities
    BY DEF CallRecords, CallSteps, Identities
  <1>2. CallBecomes(r, c)
    BY <1>1, BeginFrame DEF LoginWithProvider, LoginInvariant
  <1>3. CallIsSound(c) /\ c.flow = Nothing
    BY <1>1 DEF CallIsSound
  <1> HIDE DEF c
  <1> QED
    BY <1>1, <1>2, <1>3, CallAloneKeeps, EntryTypes
    DEF LoginWithProvider, tables, flows, entryHistory, LoginInvariant

LEMMA CallbackKeeps ==
    ASSUME LoginInvariant, NEW r \in Visitors, NEW f \in Flows, NEW t \in Tenants,
           HandleCallback(r, f, t)
    PROVE  LoginInvariant'
  <1>1. /\ states[f] # Nothing /\ states' = [states EXCEPT ![f] = Nothing]
        /\ UNCHANGED <<user, link, token, exchange, sessions, delivered, stuck>>
        /\ states' \in [Flows -> Tenants \cup {Nothing}] /\ EntryTypeOK
    BY EntryTypes DEF HandleCallback, TakeOnce, tables, entryHistory, LoginInvariant
  <1>2. RowsStay
    BY <1>1 DEF RowsStay, Exists
  <1>3. LinksStayInTenant' /\ CodesStand' /\ SessionsStand'
    BY <1>1, <1>2, LoginsStandForGood, LinksStandForGood
  <1>4. CASE UNCHANGED call
    <2>1. EntryTypeOK' /\ FlowsAreInOnePlace'
      BY <1>1, <1>4 DEF EntryTypeOK, LoginInvariant, FlowsAreInOnePlace, FlowIsInOnePlace
    <2>2. CallsAreSound'
      BY <1>1, <1>4 DEF LoginInvariant, CallsAreSound, CallIsSound, Stands, Exists, Admits
    <2> QED BY <1>3, <2>1, <2>2 DEF LoginInvariant
  <1>5. ASSUME NEW i \in Corporate, NEW m \in Mails, TenantOf[i] = t,
               Begin(r, "identity", i, m, t, f)
        PROVE  LoginInvariant'
    <2> DEFINE c == [step |-> "identity", by |-> i, mail |-> m, tenant |-> t,
                     of |-> Nothing, flow |-> f]
    <2>1. c \in CallRecords /\ "identity" \in CallSteps /\ i \in Identities
      BY DEF CallRecords, CallSteps, Identities
    <2>2. CallBecomes(r, c)
      BY <1>1, <1>5, <2>1, BeginFrame
    <2>3. CallIsSound(c)' /\ c.flow = f
      BY <1>5, <2>1 DEF CallIsSound
    <2> HIDE DEF c
    <2>4. CallsAreSound'
      BY <1>2, <2>1, <2>2, <2>3, CallsKeep
    <2>5. EntryTypeOK'
      BY <1>1, <2>2 DEF EntryTypeOK, CallBecomes, CallRecords, CallSteps
    <2>6. FlowsAreInOnePlace'
      BY <1>1, <2>2, <2>3
      DEF LoginInvariant, FlowsAreInOnePlace, FlowIsInOnePlace, CallBecomes
    <2> QED BY <1>3, <2>4, <2>5, <2>6 DEF LoginInvariant
  <1> QED BY <1>4, <1>5 DEF HandleCallback

(* Proceeding without another change.                                      *)
LEMMA ProceedKeeps ==
    ASSUME LoginInvariant, NEW r \in Visitors, NEW step \in CallSteps,
           NEW a \in Accounts \cup {Nothing}, Proceed(r, step, a),
           CallIsSound([step |-> step, by |-> call[r].by, mail |-> call[r].mail,
                        tenant |-> call[r].tenant, of |-> a, flow |-> call[r].flow]),
           UNCHANGED <<tables, flows, entryHistory>>
    PROVE  LoginInvariant'
  <1> DEFINE c == [step |-> step, by |-> call[r].by, mail |-> call[r].mail,
                   tenant |-> call[r].tenant, of |-> a, flow |-> call[r].flow]
  <1>1. CallBecomes(r, c)
    BY ProceedFrame DEF LoginInvariant
  <1>2. c \in CallRecords /\ c.flow = call[r].flow
    BY <1>1 DEF CallBecomes
  <1>3. CallIsSound(c)
    OBVIOUS
  <1> HIDE DEF c
  <1> QED
    BY <1>1, <1>2, <1>3, CallAloneKeeps, EntryTypes
    DEF tables, flows, entryHistory, LoginInvariant

LEMMA AnswerKeeps ==
    ASSUME LoginInvariant, NEW r \in Visitors, Answered(r),
           UNCHANGED <<tables, flows, sessions, delivered>>, stuck' \subseteq Accounts
    PROVE  LoginInvariant'
  <1>1. NoCall \in CallRecords /\ NoCall.flow = Nothing
    BY DEF NoCall, CallRecords, CallSteps
  <1>2. CallIsSound(NoCall)
    BY DEF CallIsSound, NoCall
  <1>3. CallBecomes(r, NoCall)
    BY AnsweredFrame DEF LoginInvariant
  <1> QED
    BY <1>1, <1>2, <1>3, CallAloneKeeps DEF tables, flows

LEMMA FindIdentityKeeps ==
    ASSUME LoginInvariant, NEW r \in Visitors, FindByIdentity(r)
    PROVE  LoginInvariant'
  <1> DEFINE a == link[call[r].by]
  <1>1. /\ call[r].step = "identity" /\ UNCHANGED <<tables, flows, entryHistory>>
        /\ CallIsSound(call[r]) /\ call[r] \in CallRecords
        /\ stuck' \subseteq Accounts
    BY EntryTypes DEF FindByIdentity, At, LoginInvariant, CallsAreSound, entryHistory
  <1>2. call[r].by \in Identities /\ a \in Accounts \cup {Nothing}
    BY <1>1, EntryTypes DEF CallIsSound, LoginInvariant
  <1>3. "find" \in CallSteps /\ "issue" \in CallSteps
    BY DEF CallSteps
  <1>4. CASE a = Nothing /\ Proceed(r, "find", Nothing)
    <2>1. CallIsSound([step |-> "find", by |-> call[r].by, mail |-> call[r].mail,
                       tenant |-> call[r].tenant, of |-> Nothing, flow |-> call[r].flow])
      BY <1>1, <1>2 DEF CallIsSound
    <2> QED BY <1>1, <1>3, <1>4, <2>1, ProceedKeeps
  <1>5. CASE a # Nothing /\ Proceed(r, "issue", a)
    <2>0. Stands(call[r].by, a)
      BY <1>2, <1>5 DEF LoginInvariant, LinksStayInTenant, Stands
    <2>1. CallIsSound([step |-> "issue", by |-> call[r].by, mail |-> call[r].mail,
                       tenant |-> call[r].tenant, of |-> a, flow |-> call[r].flow])
      BY <1>1, <1>2, <1>5, <2>0 DEF CallIsSound
    <2> QED BY <1>1, <1>2, <1>3, <1>5, <2>1, ProceedKeeps
  <1>6. CASE Answered(r)
    BY <1>1, <1>6, AnswerKeeps DEF entryHistory
  <1> QED BY <1>4, <1>5, <1>6 DEF FindByIdentity

LEMMA FindEmailKeeps ==
    ASSUME LoginInvariant, NEW r \in Visitors, FindByEmail(r)
    PROVE  LoginInvariant'
  <1>1. /\ call[r].step = "find" /\ UNCHANGED <<tables, flows, entryHistory>>
        /\ CallIsSound(call[r]) /\ call[r] \in CallRecords
        /\ stuck' \subseteq Accounts
    BY EntryTypes DEF FindByEmail, At, LoginInvariant, CallsAreSound, entryHistory
  <1>2. "create" \in CallSteps /\ "link" \in CallSteps
    BY DEF CallSteps
  <1>3. CASE Proceed(r, "create", Nothing)
    <2>1. CallIsSound([step |-> "create", by |-> call[r].by, mail |-> call[r].mail,
                       tenant |-> call[r].tenant, of |-> Nothing, flow |-> call[r].flow])
      BY <1>1 DEF CallIsSound
    <2> QED BY <1>1, <1>2, <1>3, <2>1, ProceedKeeps
  <1>4. ASSUME NEW a \in Found(call[r].mail), MayLink(call[r].by, a), Proceed(r, "link", a)
        PROVE  LoginInvariant'
    <2>1. Exists(a) /\ Admits(call[r].by, a) /\ a \in Accounts
      BY <1>1, <1>4 DEF Found, Bearing, Exists, Admits, MayLink, CallIsSound
    <2>2. CallIsSound([step |-> "link", by |-> call[r].by, mail |-> call[r].mail,
                       tenant |-> call[r].tenant, of |-> a, flow |-> call[r].flow])
      BY <1>1, <2>1 DEF CallIsSound
    <2> QED BY <1>1, <1>2, <1>4, <2>1, <2>2, ProceedKeeps
  <1>5. CASE Answered(r)
    BY <1>1, <1>5, AnswerKeeps DEF entryHistory
  <1> QED BY <1>3, <1>4, <1>5 DEF FindByEmail

LEMMA TokenStepsKeep ==
    ASSUME LoginInvariant, NEW r \in Visitors, IssueToken(r) \/ SendToken(r) \/ BreaksOff(r)
    PROVE  LoginInvariant'
  <1>1. CallIsSound(call[r]) /\ call[r] \in CallRecords /\ stuck \subseteq Accounts
    BY EntryTypes DEF LoginInvariant, CallsAreSound
  <1>2. CASE IssueToken(r)
    <2> DEFINE c == [step |-> "mail", by |-> call[r].by, mail |-> call[r].mail,
                     tenant |-> call[r].tenant, of |-> call[r].of, flow |-> call[r].flow]
    <2>1. /\ call[r].of \in Accounts /\ "mail" \in CallSteps
          /\ UNCHANGED <<user, link, states, exchange, sessions, delivered, stuck>>
          /\ token' \subseteq Accounts
      BY <1>1, <1>2, EntryTypes
      DEF IssueToken, At, CallIsSound, CallSteps, flows, entryHistory, LoginInvariant
    <2>2. CallBecomes(r, c)
      BY <1>2, <2>1, ProceedFrame DEF IssueToken, LoginInvariant
    <2>3. c \in CallRecords /\ c.flow = call[r].flow /\ CallIsSound(c)
      BY <1>1, <2>1, <2>2 DEF CallBecomes, CallIsSound
    <2> HIDE DEF c
    <2>4. RowsStay
      BY <2>1 DEF RowsStay, Exists
    <2>5. CallsAreSound' /\ FlowsAreInOnePlace'
      BY <2>1, <2>2, <2>3, <2>4, CallsKeep, FlowsKeep, SoundForGood DEF LoginInvariant
    <2>6. EntryTypeOK'
      BY <2>1, <2>2 DEF EntryTypeOK, LoginInvariant, CallBecomes, CallRecords, CallSteps
    <2> QED
      BY <2>1, <2>4, <2>5, <2>6, LoginsStandForGood, LinksStandForGood DEF LoginInvariant
  <1>3. CASE SendToken(r)
    BY <1>1, <1>3, AnswerKeeps DEF SendToken, entryHistory
  <1>4. CASE BreaksOff(r)
    <2>1. stuck' \subseteq Accounts
      BY <1>1, <1>4 DEF BreaksOff, CallIsSound
    <2> QED BY <1>4, <2>1, AnswerKeeps DEF BreaksOff
  <1> QED BY <1>2, <1>3, <1>4

(* What changes rows of User, one at a time, and no link.                  *)
LEMMA RowKeeps ==
    ASSUME LoginInvariant, NEW a \in Accounts, NEW u \in UserRecords,
           user' = [user EXCEPT ![a] = u],
           Exists(a) => u.mail = user[a].mail /\ u.tenant = user[a].tenant
                        /\ u.erased = user[a].erased,
           UNCHANGED <<link, states, exchange, sessions, delivered>>,
           token' \subseteq Accounts, stuck' \subseteq Accounts
    PROVE  /\ RowsStay
           /\ LinksStayInTenant' /\ CodesStand' /\ SessionsStand'
           /\ call' \in [Visitors -> CallRecords] => EntryTypeOK'
  <1>1. user \in [Accounts -> UserRecords] /\ user' \in [Accounts -> UserRecords]
    BY EntryTypes DEF LoginInvariant
  <1>2. /\ user'[a] = u
        /\ \A b \in Accounts \ {a} : user'[b] = user[b]
    BY <1>1
  <1>3. RowsStay
    BY <1>2 DEF RowsStay, Exists
  <1>4. LinksStayInTenant' /\ CodesStand' /\ SessionsStand'
    BY <1>3, LoginsStandForGood, LinksStandForGood
  <1>6. ASSUME call' \in [Visitors -> CallRecords] PROVE EntryTypeOK'
    BY <1>1, <1>6, EntryTypes
    DEF LoginInvariant, EntryTypeOK, UserRecords, CallRecords, CallSteps
  <1> QED BY <1>3, <1>4, <1>6

(* Rows of User change and no call, nor any flow.                          *)
LEMMA RowAloneKeeps ==
    ASSUME LoginInvariant, NEW a \in Accounts, NEW u \in UserRecords,
           user' = [user EXCEPT ![a] = u],
           u.mail = user[a].mail, u.tenant = user[a].tenant, u.erased = user[a].erased,
           UNCHANGED <<link, flows, call, sessions, delivered>>,
           token' \subseteq Accounts, stuck' \subseteq Accounts
    PROVE  LoginInvariant'
  <1>1. call \in [Visitors -> CallRecords]
    BY EntryTypes DEF LoginInvariant
  <1>2. RowsStay /\ LinksStayInTenant' /\ CodesStand' /\ SessionsStand'
        /\ EntryTypeOK'
    BY <1>1, RowKeeps DEF flows
  <1>3. CallsAreSound'
    BY <1>1, <1>2, SoundForGood DEF CallsAreSound, LoginInvariant
  <1>4. FlowsAreInOnePlace'
    BY DEF LoginInvariant, FlowsAreInOnePlace, FlowIsInOnePlace, flows
  <1> QED BY <1>2, <1>3, <1>4 DEF LoginInvariant

LEMMA CreateUserKeeps ==
    ASSUME LoginInvariant, NEW r \in Visitors, CreateUser(r)
    PROVE  LoginInvariant'
  <1>1. /\ call[r].step = "create" /\ CallIsSound(call[r]) /\ call[r] \in CallRecords
        /\ UNCHANGED <<link, token, flows, entryHistory>>
        /\ token \subseteq Accounts /\ stuck \subseteq Accounts
    BY EntryTypes DEF CreateUser, At, LoginInvariant, CallsAreSound
  <1>2. CASE Answered(r) /\ UNCHANGED user
    BY <1>1, <1>2, AnswerKeeps DEF tables, entryHistory
  <1>3. ASSUME NEW a \in Accounts, user[a] = NoUser,
               user' = [user EXCEPT ![a] =
                 [live |-> TRUE, mail |-> call[r].mail, tenant |-> call[r].tenant,
                  password |-> call[r].by = Nothing, verified |-> call[r].by # Nothing,
                  erased |-> FALSE]],
               Proceed(r, IF call[r].by = Nothing THEN "token" ELSE "link", a)
        PROVE  LoginInvariant'
    <2> DEFINE step == IF call[r].by = Nothing THEN "token" ELSE "link"
               u == [live |-> TRUE, mail |-> call[r].mail, tenant |-> call[r].tenant,
                     password |-> call[r].by = Nothing, verified |-> call[r].by # Nothing,
                     erased |-> FALSE]
    <2>1. u \in UserRecords
      BY <1>1 DEF UserRecords, CallRecords
    <2>2. ~ Exists(a) /\ u.mail = call[r].mail /\ u.tenant = call[r].tenant
      BY <1>3 DEF Exists, NoUser
    <2>3. step \in CallSteps
      BY DEF CallSteps
    <2>4. PICK c \in CallRecords :
            /\ c = [step |-> step, by |-> call[r].by, mail |-> call[r].mail,
                    tenant |-> call[r].tenant, of |-> a, flow |-> call[r].flow]
            /\ CallBecomes(r, c)
      <3>1. CallBecomes(r, [step |-> step, by |-> call[r].by, mail |-> call[r].mail,
                            tenant |-> call[r].tenant, of |-> a, flow |-> call[r].flow])
        BY <1>3, <2>3, ProceedFrame DEF LoginInvariant
      <3> QED BY <3>1 DEF CallBecomes
    <2>5. /\ c.step \in {"token", "link"} /\ (c.step = "link" => call[r].by # Nothing)
          /\ c.by = call[r].by /\ c.tenant = call[r].tenant /\ c.of = a
          /\ c.flow = call[r].flow /\ call' \in [Visitors -> CallRecords]
      BY <2>4 DEF CallBecomes
    <2>6. user' = [user EXCEPT ![a] = u]
      BY <1>3
    <2> HIDE DEF u
    <2>7. /\ RowsStay /\ EntryTypeOK'
          /\ LinksStayInTenant' /\ CodesStand' /\ SessionsStand'
      BY <1>1, <2>1, <2>2, <2>5, <2>6, RowKeeps DEF flows, entryHistory
    <2>8. user'[a] = u
      BY <2>6, EntryTypes DEF LoginInvariant
    <2>9. CallIsSound(c)'
      BY <1>1, <2>2, <2>5, <2>8 DEF CallIsSound, Exists, Admits, CallRecords
    <2>10. CallsAreSound' /\ FlowsAreInOnePlace'
      BY <1>1, <2>4, <2>5, <2>7, <2>9, CallsKeep, FlowsKeep DEF flows, entryHistory
    <2> QED BY <2>7, <2>10 DEF LoginInvariant
  <1> QED BY <1>2, <1>3 DEF CreateUser

LEMMA AccountStepsKeep ==
    ASSUME LoginInvariant, NEW a \in Accounts,
           VerifyEmail(a) \/ TokenExpires(a) \/ DeleteUser(a)
    PROVE  LoginInvariant'
  <1>1. /\ user[a] \in UserRecords /\ user \in [Accounts -> UserRecords]
        /\ token \subseteq Accounts /\ stuck \subseteq Accounts
    BY EntryTypes DEF LoginInvariant
  <1>2. CASE VerifyEmail(a)
    <2> DEFINE u == [user[a] EXCEPT !.verified = TRUE]
    <2>1. u \in UserRecords /\ u.mail = user[a].mail /\ u.tenant = user[a].tenant
          /\ u.erased = user[a].erased
      BY <1>1 DEF UserRecords
    <2>2. user' = [user EXCEPT ![a] = u]
      BY <1>1, <1>2 DEF VerifyEmail
    <2> HIDE DEF u
    <2> QED
      BY <1>1, <1>2, <2>1, <2>2, RowAloneKeeps DEF VerifyEmail, flows, entryHistory
  <1>3. CASE TokenExpires(a)
    <2>1. user' = [user EXCEPT ![a] = user[a]]
      BY <1>1, <1>3 DEF TokenExpires
    <2> QED
      BY <1>1, <1>3, <2>1, RowAloneKeeps DEF TokenExpires, flows
  <1>4. CASE DeleteUser(a)
    <2> DEFINE u == [user[a] EXCEPT !.live = FALSE]
    <2>1. u \in UserRecords /\ u.mail = user[a].mail /\ u.tenant = user[a].tenant
          /\ u.erased = user[a].erased
      BY <1>1 DEF UserRecords
    <2>2. user' = [user EXCEPT ![a] = u]
      BY <1>1, <1>4 DEF DeleteUser
    <2> HIDE DEF u
    <2> QED
      BY <1>1, <1>4, <2>1, <2>2, RowAloneKeeps DEF DeleteUser, flows, entryHistory
  <1> QED BY <1>2, <1>3, <1>4

(* An erasure leaves the row, erased, and takes its links away.            *)
LEMMA EraseKeeps ==
    ASSUME LoginInvariant, NEW a \in Accounts, EraseUserData(a)
    PROVE  LoginInvariant'
  <1> DEFINE u == [user[a] EXCEPT !.live = FALSE, !.mail = Nothing, !.password = FALSE,
                                  !.erased = TRUE]
  <1>1. /\ user \in [Accounts -> UserRecords] /\ user[a] \in UserRecords
        /\ link \in [Identities -> Accounts \cup {Nothing}]
    BY EntryTypes DEF LoginInvariant
  <1>2. user' = [user EXCEPT ![a] = u]
    BY <1>1 DEF EraseUserData
  <1>3. u \in UserRecords /\ u.erased /\ u.tenant = user[a].tenant
    BY <1>1 DEF UserRecords
  <1> HIDE DEF u
  <1>4. /\ user' \in [Accounts -> UserRecords] /\ user'[a] = u
        /\ \A b \in Accounts \ {a} : user'[b] = user[b]
    BY <1>1, <1>2, <1>3
  <1>5. /\ link' \in [Identities -> Accounts \cup {Nothing}]
        /\ \A i \in Identities : IF link[i] = a THEN link'[i] = Nothing ELSE link'[i] = link[i]
        /\ token' \subseteq token
        /\ UNCHANGED <<states, exchange, call, sessions, delivered, stuck>>
    BY <1>1 DEF EraseUserData, flows, entryHistory
  <1>6. RowsStay
    BY <1>3, <1>4, <1>5 DEF RowsStay, Exists
  <1>7. EntryTypeOK'
    <2>1. EntryTypeOK
      BY DEF LoginInvariant
    <2> QED BY <1>4, <1>5, <2>1, EntryTypes DEF EntryTypeOK, UserRecords
  <1>8. CallsAreSound'
    BY <1>5, <1>6, SoundForGood, EntryTypes DEF CallsAreSound, LoginInvariant
  <1>9. LinksStayInTenant'
    BY <1>1, <1>5, <1>6 DEF LoginInvariant, LinksStayInTenant, RowsStay, Exists, Admits
  <1>10. CodesStand' /\ SessionsStand' /\ FlowsAreInOnePlace'
    BY <1>5, <1>6, LoginsStandForGood
    DEF LoginInvariant, FlowsAreInOnePlace, FlowIsInOnePlace
  <1> QED BY <1>7, <1>8, <1>9, <1>10 DEF LoginInvariant

LEMMA LinkKeeps ==
    ASSUME LoginInvariant, NEW r \in Visitors, LinkIdentity(r)
    PROVE  LoginInvariant'
  <1>1. /\ call[r].step = "link" /\ CallIsSound(call[r]) /\ call[r] \in CallRecords
        /\ UNCHANGED <<user, token, flows, entryHistory>>
        /\ stuck \subseteq Accounts /\ link \in [Identities -> Accounts \cup {Nothing}]
    BY EntryTypes DEF LinkIdentity, At, LoginInvariant, CallsAreSound
  <1>2. /\ call[r].by \in Identities /\ call[r].of \in Accounts
        /\ Exists(call[r].of) /\ Admits(call[r].by, call[r].of)
    BY <1>1 DEF CallIsSound, Exists
  <1>3. CASE Answered(r) /\ UNCHANGED link
    BY <1>1, <1>3, AnswerKeeps DEF tables, entryHistory
  <1>4. ASSUME link[call[r].by] = Nothing, link' = [link EXCEPT ![call[r].by] = call[r].of],
               Proceed(r, "issue", call[r].of)
        PROVE  LoginInvariant'
    <2>1. /\ link' \in [Identities -> Accounts \cup {Nothing}]
          /\ link'[call[r].by] = call[r].of
          /\ \A i \in Identities \ {call[r].by} : link'[i] = link[i]
      BY <1>1, <1>2, <1>4
    <2>2. RowsStay
      BY <1>1, <1>4, <2>1 DEF RowsStay, Exists, tables
    <2>3. "issue" \in CallSteps
      BY DEF CallSteps
    <2>4. PICK c \in CallRecords :
            /\ c = [step |-> "issue", by |-> call[r].by, mail |-> call[r].mail,
                    tenant |-> call[r].tenant, of |-> call[r].of, flow |-> call[r].flow]
            /\ CallBecomes(r, c)
      <3>1. CallBecomes(r, [step |-> "issue", by |-> call[r].by, mail |-> call[r].mail,
                            tenant |-> call[r].tenant, of |-> call[r].of,
                            flow |-> call[r].flow])
        BY <1>2, <1>4, <2>3, ProceedFrame DEF LoginInvariant
      <3> QED BY <3>1 DEF CallBecomes
    <2>5. /\ c.step = "issue" /\ c.by = call[r].by /\ c.of = call[r].of
          /\ c.flow = call[r].flow
      BY <2>4
    <2>6. CallIsSound(c)'
      BY <1>1, <1>2, <2>1, <2>5 DEF CallIsSound, Stands, Exists, Admits
    <2>7. CallsAreSound' /\ FlowsAreInOnePlace'
      BY <1>1, <2>2, <2>4, <2>5, <2>6, CallsKeep, FlowsKeep DEF flows, entryHistory
    <2>8. EntryTypeOK'
      BY <1>1, <2>1, <2>4
      DEF LoginInvariant, EntryTypeOK, CallBecomes, CallRecords, CallSteps, flows, entryHistory
    <2>9. LinksStayInTenant'
      BY <1>1, <1>2, <2>1 DEF LoginInvariant, LinksStayInTenant, Exists, Admits
    <2>10. CodesStand' /\ SessionsStand'
      BY <1>1, <2>2, LoginsStandForGood DEF flows, entryHistory
    <2> QED BY <2>7, <2>8, <2>9, <2>10 DEF LoginInvariant
  <1> QED BY <1>3, <1>4 DEF LinkIdentity

LEMMA IssueKeeps ==
    ASSUME LoginInvariant, NEW r \in Visitors, IssueTokens(r)
    PROVE  LoginInvariant'
  <1>1. /\ call[r].step = "issue" /\ CallIsSound(call[r]) /\ call[r] \in CallRecords
        /\ UNCHANGED <<tables, states, delivered, stuck>> /\ Answered(r)
        /\ stuck \subseteq Accounts
    BY EntryTypes DEF IssueTokens, At, LoginInvariant, CallsAreSound
  <1>2. PICK i \in Identities, a \in Accounts : Login(r) = <<i, a>> /\ i = call[r].by
                                                /\ Stands(i, a)
    BY <1>1 DEF CallIsSound, Stands, Exists, Login
  <1>3. NoCall \in CallRecords /\ NoCall.flow = Nothing /\ CallIsSound(NoCall)'
    BY DEF NoCall, CallRecords, CallSteps, CallIsSound
  <1>4. CallBecomes(r, NoCall)
    BY <1>1, AnsweredFrame DEF LoginInvariant
  <1>5. RowsStay
    BY <1>1 DEF RowsStay, Exists, tables
  <1>0. \A j, b : Stands(j, b) => Stands(j, b)'
    BY <1>5, StandsForGood
  <1>6. CallsAreSound'
    BY <1>3, <1>4, <1>5, CallsKeep
  <1>7. LinksStayInTenant'
    BY <1>1, <1>5, LinksStandForGood DEF tables
  <1>8. CASE /\ call[r].flow = Nothing
             /\ sessions' = sessions \cup {Login(r)} /\ UNCHANGED exchange
    <2>1. Login(r) \in Identities \X Accounts
      BY <1>2
    <2>2. EntryTypeOK'
      BY <1>1, <1>4, <1>8, <2>1
      DEF LoginInvariant, EntryTypeOK, CallBecomes, CallRecords, CallSteps, tables
    <2>3. FlowsAreInOnePlace'
      BY <1>1, <1>3, <1>4, <1>8, FlowsKeep
    <2>4. CodesStand'
      BY <1>5, <1>8, LoginsStandForGood
    <2>5. SessionsStand'
      <3>1. \A s \in sessions' : s \in sessions \/ s = <<i, a>>
        BY <1>2, <1>8
      <3> QED BY <1>0, <1>2, <3>1 DEF LoginInvariant, SessionsStand
    <2> QED BY <1>6, <1>7, <2>2, <2>3, <2>4, <2>5 DEF LoginInvariant
  <1>9. CASE /\ call[r].flow # Nothing
             /\ exchange' = [exchange EXCEPT ![call[r].flow] = Login(r)] /\ UNCHANGED sessions
    <2> DEFINE f == call[r].flow
    <2>1. f \in Flows /\ call[r].by \in Corporate
      BY <1>1, <1>9 DEF CallRecords, CallIsSound
    <2>2. Login(r) \in Corporate \X Accounts /\ Login(r) # Nothing
      BY <1>2, <2>1
    <2>3. /\ exchange \in [Flows -> (Corporate \X Accounts) \cup {Nothing}]
          /\ exchange' \in [Flows -> (Corporate \X Accounts) \cup {Nothing}]
          /\ exchange'[f] = Login(r)
          /\ \A g \in Flows \ {f} : exchange'[g] = exchange[g]
      BY <1>9, <2>1, <2>2, EntryTypes DEF LoginInvariant
    <2>4. EntryTypeOK'
      BY <1>1, <1>4, <1>9, <2>3
      DEF LoginInvariant, EntryTypeOK, CallBecomes, CallRecords, CallSteps, tables
    <2>5. FlowsAreInOnePlace'
      <3> SUFFICES ASSUME NEW g \in Flows PROVE FlowIsInOnePlace(g)'
        BY DEF FlowsAreInOnePlace
      <3>1. FlowIsInOnePlace(f) /\ FlowIsInOnePlace(g)
        BY <2>1 DEF LoginInvariant, FlowsAreInOnePlace
      <3>2. CASE g = f
        BY <1>1, <1>3, <1>4, <2>3, <3>1, <3>2 DEF FlowIsInOnePlace, CallBecomes
      <3>3. CASE g # f
        BY <1>1, <1>3, <1>4, <2>3, <3>1, <3>3 DEF FlowIsInOnePlace, CallBecomes
      <3> QED BY <3>2, <3>3
    <2>6. CodesStand'
      <3>1. exchange'[f] = <<i, a>>
        BY <1>2, <2>3
      <3> QED BY <1>0, <1>2, <2>3, <3>1 DEF LoginInvariant, CodesStand
    <2>7. SessionsStand'
      BY <1>5, <1>9, LoginsStandForGood
    <2> QED BY <1>6, <1>7, <2>4, <2>5, <2>6, <2>7 DEF LoginInvariant
  <1> QED BY <1>8, <1>9 DEF IssueTokens

(* The steps of a flow that no call takes.                                 *)
LEMMA FlowStepsKeep ==
    ASSUME LoginInvariant, NEW f \in Flows,
           \/ Consume(f) \/ KeyExpires(f)
           \/ \E t \in Tenants : BuildAuthorizationUrl(f, t)
    PROVE  LoginInvariant'
  <1>1. /\ UNCHANGED <<tables, call, stuck>>
        /\ states \in [Flows -> Tenants \cup {Nothing}]
        /\ exchange \in [Flows -> (Corporate \X Accounts) \cup {Nothing}]
        /\ delivered \in [Flows -> 0..2] /\ sessions \subseteq Identities \X Accounts
        /\ FlowIsInOnePlace(f)
    BY EntryTypes
    DEF Consume, KeyExpires, BuildAuthorizationUrl, LoginInvariant, FlowsAreInOnePlace,
        entryHistory
  <1>2. RowsStay /\ CallsAreSound' /\ LinksStayInTenant'
    BY <1>1
    DEF LoginInvariant, CallsAreSound, CallIsSound, LinksStayInTenant, RowsStay, Stands,
        Exists, Admits, tables
  <1>0. \A j, b : Stands(j, b) => Stands(j, b)'
    BY <1>2, StandsForGood
  <1>3. ASSUME /\ states' \in [Flows -> Tenants \cup {Nothing}]
               /\ exchange' \in [Flows -> (Corporate \X Accounts) \cup {Nothing}]
               /\ delivered' \in [Flows -> 0..2] /\ sessions' \subseteq Identities \X Accounts,
               FlowIsInOnePlace(f)', CodesStand', SessionsStand',
               \A g \in Flows \ {f} : /\ states'[g] = states[g] /\ exchange'[g] = exchange[g]
                                      /\ delivered'[g] = delivered[g]
        PROVE  LoginInvariant'
    <2>1. EntryTypeOK'
      BY <1>1, <1>3 DEF LoginInvariant, EntryTypeOK, tables
    <2>2. FlowsAreInOnePlace'
      BY <1>1, <1>3 DEF LoginInvariant, FlowsAreInOnePlace, FlowIsInOnePlace
    <2> QED BY <1>2, <1>3, <2>1, <2>2 DEF LoginInvariant
  <1>4. CASE Consume(f)
    <2>1. /\ exchange[f] # Nothing /\ exchange[f] \in Corporate \X Accounts
          /\ exchange' = [exchange EXCEPT ![f] = Nothing] /\ states' = states
          /\ sessions' = sessions \cup {exchange[f]}
          /\ delivered' = [delivered EXCEPT ![f] = @ + 1] /\ delivered[f] = 0
      BY <1>1, <1>4 DEF Consume, TakeOnce, FlowIsInOnePlace
    <2>2. exchange[f] \in Identities \X Accounts
      BY <2>1 DEF Identities
    <2>3. FlowIsInOnePlace(f)'
      BY <1>1, <2>1 DEF FlowIsInOnePlace
    <2>4. CodesStand' /\ SessionsStand'
      <3>1. /\ \A g \in Flows : exchange'[g] = exchange[g] \/ exchange'[g] = Nothing
            /\ \A s \in sessions' : s \in sessions \/ s = exchange[f]
        BY <1>1, <2>1
      <3> QED BY <1>0, <2>1, <3>1 DEF LoginInvariant, CodesStand, SessionsStand
    <2> QED BY <1>1, <1>3, <2>1, <2>2, <2>3, <2>4
  <1>5. CASE KeyExpires(f)
    <2>1. /\ \/ states' = [states EXCEPT ![f] = Nothing] /\ UNCHANGED exchange
             \/ exchange' = [exchange EXCEPT ![f] = Nothing] /\ UNCHANGED states
          /\ sessions' = sessions /\ delivered' = delivered
      BY <1>5 DEF KeyExpires, entryHistory
    <2>2. FlowIsInOnePlace(f)'
      BY <1>1, <2>1 DEF FlowIsInOnePlace
    <2>3. CodesStand' /\ SessionsStand'
      <3>1. \A g \in Flows : exchange'[g] = exchange[g] \/ exchange'[g] = Nothing
        BY <1>1, <2>1
      <3>2. CodesStand'
        BY <1>0, <3>1 DEF LoginInvariant, CodesStand
      <3> QED BY <1>2, <2>1, <3>2, LoginsStandForGood
    <2> QED BY <1>1, <1>3, <2>1, <2>2, <2>3
  <1>6. ASSUME NEW t \in Tenants, BuildAuthorizationUrl(f, t) PROVE LoginInvariant'
    <2>1. /\ states' = [states EXCEPT ![f] = t] /\ exchange[f] = Nothing /\ delivered[f] = 0
          /\ \A r \in Visitors : call[r].flow # f
          /\ exchange' = exchange /\ sessions' = sessions /\ delivered' = delivered
      BY <1>6 DEF BuildAuthorizationUrl, entryHistory
    <2>2. FlowIsInOnePlace(f)'
      BY <1>1, <2>1 DEF FlowIsInOnePlace
    <2>3. CodesStand' /\ SessionsStand'
      BY <1>2, <2>1, LoginsStandForGood
    <2> QED BY <1>1, <1>3, <2>1, <2>2, <2>3
  <1> QED BY <1>4, <1>5, <1>6

LEMMA LoginStep == ASSUME LoginInvariant, [EntryNext]_entryVars PROVE LoginInvariant'
  <1>1. CASE UNCHANGED entryVars
    <2>1. UNCHANGED <<user, link, token, states, exchange, call, sessions, delivered, stuck>>
      BY <1>1 DEF entryVars, tables, flows, entryHistory
    <2>2. EntryTypeOK' /\ CallsAreSound' /\ LinksStayInTenant'
      BY <2>1
      DEF LoginInvariant, EntryTypeOK, CallsAreSound, CallIsSound, LinksStayInTenant, Stands,
          Exists, Admits
    <2>3. CodesStand' /\ SessionsStand' /\ FlowsAreInOnePlace'
      BY <2>1
      DEF LoginInvariant, CodesStand, SessionsStand, FlowsAreInOnePlace, FlowIsInOnePlace,
          Stands, Exists, Admits
    <2> QED BY <2>2, <2>3 DEF LoginInvariant
  <1> QED
    BY <1>1, RegisterKeeps, ProviderKeeps, CallbackKeeps, FindIdentityKeeps, FindEmailKeeps,
       TokenStepsKeep, CreateUserKeeps, AccountStepsKeep, EraseKeeps, LinkKeeps, IssueKeeps, FlowStepsKeep
    DEF EntryNext

LEMMA LoginStarts == EntryInit => LoginInvariant
  <1> SUFFICES ASSUME EntryInit PROVE LoginInvariant
    OBVIOUS
  <1>1. NoUser \in UserRecords /\ NoCall \in CallRecords /\ CallIsSound(NoCall)
        /\ NoCall.flow = Nothing
    BY DEF NoUser, UserRecords, NoCall, CallRecords, CallSteps, CallIsSound
  <1>2. EntryTypeOK
    BY <1>1, EntryTypes DEF EntryInit
  <1>3. CallsAreSound /\ LinksStayInTenant
    BY <1>1 DEF EntryInit, CallsAreSound, LinksStayInTenant
  <1>4. CodesStand /\ SessionsStand /\ FlowsAreInOnePlace
    BY <1>1
    DEF EntryInit, CodesStand, SessionsStand, FlowsAreInOnePlace, FlowIsInOnePlace
  <1> QED BY <1>2, <1>3, <1>4 DEF LoginInvariant

(* A login that an identity provider vouches for enters the one account    *)
(* that is meant, the one its identity is linked to unless that has been   *)
(* erased, of its tenant or of none, and a redirect leads to one login at  *)
(* most, for any number of requests, accounts, identities and flows        *)
(* (oauth.service.ts:180-191, sso.service.ts:267-339,                      *)
(* privacy.repository.ts:38-88).                                           *)
THEOREM LoginsEnterOneAccount == EntrySpec => []LoginsStayApart
  <1>1. ASSUME LoginInvariant PROVE LoginsStayApart
    <2>1. IdentityNamesOneAccount
      BY <1>1 DEF LoginInvariant, SessionsStand, Stands, IdentityNamesOneAccount
    <2>2. SsoStaysInTenant
      BY <1>1 DEF LoginInvariant, SessionsStand, Stands, Admits, SsoStaysInTenant
    <2>3. FlowOpensOneSession
      BY <1>1 DEF LoginInvariant, FlowsAreInOnePlace, FlowIsInOnePlace, FlowOpensOneSession
    <2> QED BY <2>1, <2>2, <2>3 DEF LoginsStayApart
  <1> QED BY <1>1, LoginStarts, LoginStep, PTL DEF EntrySpec

-----------------------------------------------------------------------------
(* Accounts that wait for their verification.                              *)

Waits(a) == user[a].password /\ ~ user[a].verified
HasALink(a) == \/ a \in token \cup stuck
               \/ \E r \in Visitors : call[r].of = a /\ At(r, "token")

(* No call but that of r changes.                                          *)
OnlyCall(r) == \A s \in Visitors \ {r} : call'[s] = call[s]

LEMMA OneCallChanges ==
    ASSUME EntryTypeOK, NEW r \in Visitors,
           \/ Answered(r)
           \/ \E step, a : Proceed(r, step, a)
           \/ \E step, i, m, t, f : Begin(r, step, i, m, t, f)
    PROVE  OnlyCall(r)
  BY EntryTypes DEF OnlyCall, Answered, Proceed, Begin

(* A link stays while its call, its token or its loss stays.               *)
LEMMA LinkStays ==
    ASSUME NEW a \in Accounts, HasALink(a), token \cup stuck \subseteq token' \cup stuck',
           \A r \in Visitors : call[r].of = a /\ At(r, "token") =>
               call'[r] = call[r] \/ a \in token' \cup stuck'
    PROVE  HasALink(a)'
  BY DEF HasALink, At

LEMMA LinkStep ==
    ASSUME LoginInvariant, UnverifiedHasALink, [EntryNext]_entryVars
    PROVE  UnverifiedHasALink'
  <1> SUFFICES ASSUME NEW a \in Accounts, Waits(a)' PROVE HasALink(a)'
    BY DEF UnverifiedHasALink, Waits, HasALink, At
  <1>1. (Waits(a) => HasALink(a)) /\ EntryTypeOK
    BY DEF UnverifiedHasALink, Waits, HasALink, LoginInvariant
  <1>2. user[a] \in UserRecords /\ user \in [Accounts -> UserRecords] /\ token \subseteq Accounts
    BY <1>1, EntryTypes
  <1>3. ASSUME UNCHANGED <<user, token, stuck>>, NEW r \in Visitors, OnlyCall(r),
               ~ At(r, "token")
        PROVE  HasALink(a)'
    <2>1. Waits(a)
      BY <1>3 DEF Waits
    <2> QED BY <1>1, <1>3, <2>1, LinkStays DEF OnlyCall
  <1>4. ASSUME UNCHANGED <<user, token, stuck, call>> PROVE HasALink(a)'
    BY <1>1, <1>4 DEF Waits, HasALink, At
  <1>5. CASE UNCHANGED entryVars
    BY <1>4, <1>5 DEF entryVars, tables, entryHistory
  <1>6. ASSUME NEW r \in Visitors, CreateUser(r) PROVE HasALink(a)'
    <2>1. /\ OnlyCall(r) /\ ~ At(r, "token")
          /\ UNCHANGED <<token, stuck>> /\ call[r] \in CallRecords
      BY <1>1, <1>6, OneCallChanges, EntryTypes DEF CreateUser, At, entryHistory
    <2>2. CASE UNCHANGED user
      BY <1>3, <2>1, <2>2
    <2>3. ASSUME NEW b \in Accounts,
                 user' = [user EXCEPT ![b] =
                   [live |-> TRUE, mail |-> call[r].mail, tenant |-> call[r].tenant,
                    password |-> call[r].by = Nothing, verified |-> call[r].by # Nothing,
                  erased |-> FALSE]],
                 Proceed(r, IF call[r].by = Nothing THEN "token" ELSE "link", b)
          PROVE  HasALink(a)'
      <3>1. CASE b = a
        <4>1. call[r].by = Nothing
          BY <1>2, <2>3, <3>1 DEF Waits
        <4>2. Proceed(r, "token", a)
          BY <2>3, <3>1, <4>1
        <4>3. call'[r].step = "token" /\ call'[r].of = a
          BY <1>1, <4>2, EntryTypes DEF Proceed, CallRecords
        <4> QED BY <4>3 DEF HasALink, At
      <3>2. CASE b # a
        <4>1. Waits(a)
          BY <1>2, <2>3, <3>2 DEF Waits
        <4> QED BY <1>1, <2>1, <4>1, LinkStays DEF OnlyCall
      <3> QED BY <3>1, <3>2
    <2> QED BY <1>6, <2>2, <2>3 DEF CreateUser
  <1>7. ASSUME NEW r \in Visitors, IssueToken(r) \/ BreaksOff(r) PROVE HasALink(a)'
    <2>1. /\ OnlyCall(r) /\ user' = user /\ token \cup stuck \subseteq token' \cup stuck'
          /\ At(r, "token") => call[r].of \in token' \cup stuck'
      BY <1>1, <1>7, OneCallChanges DEF IssueToken, BreaksOff, At, tables, entryHistory
    <2>2. Waits(a)
      BY <2>1 DEF Waits
    <2> QED BY <1>1, <2>1, <2>2, LinkStays DEF OnlyCall
  <1>8. ASSUME NEW b \in Accounts,
               VerifyEmail(b) \/ TokenExpires(b) \/ DeleteUser(b) \/ EraseUserData(b)
        PROVE  HasALink(a)'
    <2>1. Waits(a) /\ (VerifyEmail(b) \/ EraseUserData(b) => b # a)
      BY <1>2, <1>8
      DEF VerifyEmail, TokenExpires, DeleteUser, EraseUserData, Waits, UserRecords
    <2>2. call' = call /\ (a \in token \cup stuck => a \in token' \cup stuck')
      BY <1>8, <2>1 DEF VerifyEmail, TokenExpires, DeleteUser, EraseUserData, entryHistory
    <2> QED BY <1>1, <2>1, <2>2 DEF HasALink, At
  <1>9. ASSUME NEW r \in Visitors,
               \/ SendToken(r) \/ FindByIdentity(r) \/ FindByEmail(r) \/ LinkIdentity(r)
               \/ IssueTokens(r)
        PROVE  HasALink(a)'
    <2>1. OnlyCall(r)
      BY <1>1, <1>9, OneCallChanges
      DEF SendToken, FindByIdentity, FindByEmail, LinkIdentity, IssueTokens
    <2>2. UNCHANGED <<user, token, stuck>> /\ ~ At(r, "token")
      BY <1>9
      DEF SendToken, FindByIdentity, FindByEmail, LinkIdentity, IssueTokens, At, tables,
          entryHistory
    <2> QED BY <1>3, <2>1, <2>2
  <1>10. ASSUME NEW r \in Visitors, NEW t \in Tenants \cup {Nothing}, NEW m \in Mails,
                Register(r, m, t) \/ \E i \in Consumer : LoginWithProvider(r, i, m, t)
         PROVE  HasALink(a)'
    <2>1. OnlyCall(r)
      BY <1>1, <1>10, OneCallChanges DEF Register, LoginWithProvider
    <2>2. UNCHANGED <<user, token, stuck>> /\ ~ At(r, "token")
      BY <1>10 DEF Register, LoginWithProvider, At, tables, entryHistory
    <2> QED BY <1>3, <2>1, <2>2
  <1>11. ASSUME NEW r \in Visitors, NEW f \in Flows, NEW t \in Tenants, HandleCallback(r, f, t)
         PROVE  HasALink(a)'
    <2>1. OnlyCall(r)
      BY <1>1, <1>11, OneCallChanges DEF HandleCallback, OnlyCall
    <2>2. UNCHANGED <<user, token, stuck>> /\ ~ At(r, "token")
      BY <1>11 DEF HandleCallback, At, tables, entryHistory
    <2> QED BY <1>3, <2>1, <2>2
  <1>12. ASSUME NEW f \in Flows,
                Consume(f) \/ KeyExpires(f) \/ \E t \in Tenants : BuildAuthorizationUrl(f, t)
         PROVE  HasALink(a)'
    BY <1>4, <1>12 DEF Consume, KeyExpires, BuildAuthorizationUrl, tables, entryHistory
  <1> QED
    BY <1>5, <1>6, <1>7, <1>8, <1>9, <1>10, <1>11, <1>12 DEF EntryNext

(* An account that waits for its verification has a token, is about to get *)
(* one, or is stuck for a reason the model names, whatever requests,       *)
(* links, logins and erasures cross (auth.service.ts:650-655).             *)
THEOREM UnverifiedKeepALink == EntrySpec => []UnverifiedHasALink
  <1>1. EntryInit => UnverifiedHasALink
    BY DEF EntryInit, UnverifiedHasALink, NoUser
  <1> QED BY <1>1, LoginStarts, LoginStep, LinkStep, PTL DEF EntrySpec
=============================================================================

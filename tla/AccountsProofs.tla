-------------------------- MODULE AccountsProofs ---------------------------
(***************************************************************************)
(* What the properties of Accounts rest on, for any number of users, codes,*)
(* challenges and tabs.                                                    *)
(***************************************************************************)
EXTENDS Accounts, FiniteSetTheorems, TLAPS

-----------------------------------------------------------------------------
(* Types.                                                                  *)
LEMMA WhoType == ASSUME TypeOK PROVE Who \in Users \cup {None}
  BY DEF TypeOK, Who, EnrollRows

LEMMA InitType == Init => TypeOK
<1> SUFFICES ASSUME Init PROVE TypeOK
  OBVIOUS
<1> USE DEF Init, TypeOK, NoCall, Steps, Calls
<1>1. CASE InitEmpty
  BY <1>1 DEF InitEmpty
<1>2. CASE InitEnrolled
  <2>1. PICK u \in Users, p \in Purposes, k \in Tokens :
          /\ codes = [c \in Codes |-> [user |-> u, purpose |-> p, attempts |-> 1]]
          /\ used = Codes
          /\ enrolls = [t \in Tokens |-> IF t = k THEN [user |-> u, purpose |-> p] ELSE None]
          /\ minted = {k} /\ enrollCookie = k
    BY <1>2 DEF InitEnrolled
  <2>2. codes \in [Codes -> CodeRows \cup {None}]
    BY <2>1 DEF CodeRows
  <2>3. enrolls \in [Tokens -> EnrollRows \cup {None}]
    BY <2>1 DEF EnrollRows
  <2> QED BY <1>2, <2>1, <2>2, <2>3 DEF InitEnrolled
<1>3. CASE InitSignedIn
  BY <1>3 DEF InitSignedIn
<1> QED
  BY <1>1, <1>2, <1>3

LEMMA IssueType ==
    ASSUME TypeOK, NEW u \in Users, NEW p \in Purposes, IssueEnrollmentCode(u, p),
           users' \subseteq Users, boot' \in {"idle", "create", "code"}
    PROVE  TypeOK'
<1>1. PICK c \in Codes :
        codes' = [codes EXCEPT ![c] = [user |-> u, purpose |-> p, attempts |-> 0]]
  BY DEF IssueEnrollmentCode
<1>2. [user |-> u, purpose |-> p, attempts |-> 0] \in CodeRows
  BY DEF CodeRows
<1>3. codes' \in [Codes -> CodeRows \cup {None}]
  BY <1>1, <1>2 DEF TypeOK
<1> QED
  BY <1>3 DEF IssueEnrollmentCode, TypeOK, enrolVars, keyVars

(* A tab that goes on keeps its locals.                                    *)
LEMMA GotoType ==
    ASSUME TypeOK, NEW q \in Tabs, NEW step \in Steps, Goto(q, step)
    PROVE  pc' \in [Tabs -> Steps]
  BY DEF Goto, TypeOK

LEMMA DoneType ==
    ASSUME TypeOK, NEW q \in Tabs, Done(q)
    PROVE  pc' \in [Tabs -> Steps] /\ call' \in [Tabs -> Calls]
<1>1. NoCall \in Calls
  BY DEF NoCall, Calls
<1>2. "idle" \in Steps
  BY DEF Steps
<1> QED
  BY <1>1, <1>2, GotoType DEF Done, TypeOK

LEMMA EnrollType ==
    ASSUME TypeOK, NEW u \in Users, NEW p \in Purposes, Enroll(u, p)
    PROVE  /\ enrolls' \in [Tokens -> EnrollRows \cup {None}]
           /\ minted' \subseteq Tokens /\ enrollCookie' \in Tokens \cup {None}
<1>1. PICK k \in Tokens : /\ enrolls' = [enrolls EXCEPT ![k] = [user |-> u, purpose |-> p]]
                          /\ minted' = minted \cup {k} /\ enrollCookie' = k
  BY DEF Enroll
<1>2. [user |-> u, purpose |-> p] \in EnrollRows
  BY DEF EnrollRows
<1> QED
  BY <1>1, <1>2 DEF TypeOK

LEMMA SaveType ==
    ASSUME TypeOK, NEW u \in Users, NEW k \in Kinds, SaveChallenge(u, k)
    PROVE  /\ challenges' \in [Challenges -> ChallengeRows \cup {None}]
           /\ issuedTo' \in [Challenges -> Users \cup {None}]
<1>1. PICK h \in Challenges : /\ challenges' = [challenges EXCEPT ![h] = [user |-> u, kind |-> k]]
                              /\ issuedTo' = [issuedTo EXCEPT ![h] = u]
  BY DEF SaveChallenge
<1>2. [user |-> u, kind |-> k] \in ChallengeRows
  BY DEF ChallengeRows
<1> QED
  BY <1>1, <1>2 DEF TypeOK

LEMMA UserActionsType ==
    ASSUME TypeOK,
           \/ BootstrapCount \/ BootstrapCreate \/ BootstrapCode
           \/ \E u \in Users : CreateUser(u) \/ IssueUserCode(u)
           \/ IssueAdminCode \/ IssueDeviceCode
    PROVE  TypeOK'
<1> USE AccountsAssumption
<1>1. CASE BootstrapCount
  BY <1>1 DEF BootstrapCount, TypeOK, codeVars, enrolVars, keyVars
<1>2. CASE BootstrapCreate
  BY <1>2 DEF BootstrapCreate, TypeOK, codeVars, enrolVars, keyVars
<1>3. CASE BootstrapCode
  <2>1. "initial" \in Purposes
    BY DEF Purposes
  <2> QED BY <1>3, <2>1, IssueType DEF BootstrapCode, TypeOK
<1>4. ASSUME NEW u \in Users, CreateUser(u) PROVE TypeOK'
  BY <1>4 DEF CreateUser, TypeOK, codeVars, enrolVars, keyVars
<1>5. ASSUME NEW u \in Users, IssueUserCode(u) PROVE TypeOK'
  <2>1. PICK p \in {"initial", "recovery"} : IssueEnrollmentCode(u, p)
    BY <1>5 DEF IssueUserCode
  <2>2. p \in Purposes
    BY DEF Purposes
  <2> QED BY <1>5, <2>1, <2>2, IssueType DEF IssueUserCode, TypeOK, userVars
<1>6. CASE IssueAdminCode
  <2>1. "recovery" \in Purposes
    BY DEF Purposes
  <2> QED BY <1>6, <2>1, IssueType DEF IssueAdminCode, TypeOK, userVars
<1>7. CASE IssueDeviceCode
  <2>1. "device" \in Purposes /\ session \in Users
    BY <1>7 DEF Purposes, IssueDeviceCode, TypeOK
  <2> QED BY <1>7, <2>1, IssueType DEF IssueDeviceCode, TypeOK, userVars
<1> QED
  BY <1>1, <1>2, <1>3, <1>4, <1>5, <1>6, <1>7

(* A request about a code's row has read it, and rows of codes stay.       *)
RowsFound == \A q \in Tabs : pc[q] \in {"mark", "enroll", "failcode"} => Found(q)

LEMMA RowType ==
    ASSUME TypeOK, NEW q \in Tabs, Found(q)
    PROVE  call[q].code \in Codes /\ Row(q) = codes[call[q].code] /\ Row(q) \in CodeRows
  BY DEF TypeOK, Found, Row, Calls

LEMMA VerifyActionsType ==
    ASSUME TypeOK, RowsFound, NEW q \in Tabs,
           \/ VerifyStart(q) \/ VerifyRead(q) \/ VerifyMark(q) \/ VerifyEnroll(q)
           \/ FailCode(q) \/ FailIP(q) \/ Abort(q)
    PROVE  TypeOK'
<1> USE AccountsAssumption
<1> USE DEF userVars, codeVars, enrolVars, keyVars
<1>0. Steps = {"idle", "read", "mark", "enroll", "failcode", "failip", "load",
               "check", "store", "lookup", "purge", "unenroll", "session"}
  BY DEF Steps
<1>1. CASE VerifyStart(q)
  <2>1. PICK c \in Codes \cup {None} : call' = [call EXCEPT ![q].code = c]
    BY <1>1 DEF VerifyStart
  <2>2. call' \in [Tabs -> Calls]
    BY <2>1 DEF TypeOK, Calls
  <2>3. pc' \in [Tabs -> Steps]
    BY <1>0, <1>1, GotoType DEF VerifyStart
  <2> QED BY <1>1, <2>2, <2>3 DEF VerifyStart, TypeOK
<1>2. CASE VerifyRead(q)
  <2>1. pc' \in [Tabs -> Steps] /\ call' \in [Tabs -> Calls]
    <3>1. \/ Goto(q, "failip") /\ UNCHANGED call
          \/ Goto(q, "failcode") /\ UNCHANGED call
          \/ Goto(q, "mark") /\ UNCHANGED call
          \/ Done(q)
      BY <1>2 DEF VerifyRead
    <3> QED BY <1>0, <3>1, GotoType, DoneType DEF TypeOK
  <2> QED BY <1>2, <2>1 DEF VerifyRead, TypeOK
<1>3. CASE VerifyMark(q)
  <2>1. codes' \in [Codes -> CodeRows \cup {None}]
    <3>1. call[q].code \in Codes /\ codes[call[q].code] \in CodeRows
      BY <1>3, RowType DEF VerifyMark, RowsFound
    <3>2. [codes[call[q].code] EXCEPT !.attempts = @ + 1] \in CodeRows
      BY <3>1 DEF CodeRows
    <3>3. codes' = codes \/ codes' = [codes EXCEPT ![call[q].code].attempts = @ + 1]
      BY <1>3 DEF VerifyMark
    <3> QED BY <3>1, <3>2, <3>3 DEF TypeOK
  <2>2. pc' \in [Tabs -> Steps]
    BY <1>0, <1>3, GotoType DEF VerifyMark
  <2>3. used' \subseteq Codes
    BY <1>3, RowType DEF VerifyMark, RowsFound, TypeOK
  <2> QED BY <1>3, <2>1, <2>2, <2>3 DEF VerifyMark, TypeOK
<1>4. CASE VerifyEnroll(q)
  <2>1. Row(q) \in CodeRows
    BY <1>4, RowType DEF VerifyEnroll, RowsFound
  <2>2. Row(q).user \in Users /\ Row(q).purpose \in Purposes
    BY <2>1 DEF CodeRows
  <2> QED BY <1>4, <2>2, EnrollType, DoneType DEF VerifyEnroll, TypeOK
<1>5. CASE FailCode(q)
  <2>1. codes' \in [Codes -> CodeRows \cup {None}]
    <3>1. call[q].code \in Codes /\ codes[call[q].code] \in CodeRows
      BY <1>5, RowType DEF FailCode, RowsFound
    <3>2. [codes[call[q].code] EXCEPT !.attempts = @ + 1] \in CodeRows
      BY <3>1 DEF CodeRows
    <3>3. codes' = codes \/ codes' = [codes EXCEPT ![call[q].code].attempts = @ + 1]
      BY <1>5 DEF FailCode
    <3> QED BY <3>1, <3>2, <3>3 DEF TypeOK
  <2>2. pc' \in [Tabs -> Steps]
    BY <1>0, <1>5, GotoType DEF FailCode
  <2> QED BY <1>5, <2>1, <2>2 DEF FailCode, TypeOK
<1>6. CASE FailIP(q)
  BY <1>6, DoneType DEF FailIP, TypeOK
<1>7. CASE Abort(q)
  BY <1>7, DoneType DEF Abort, TypeOK
<1> QED
  BY <1>1, <1>2, <1>3, <1>4, <1>5, <1>6, <1>7

LEMMA CeremonyActionsType ==
    ASSUME TypeOK, NEW q \in Tabs,
           \/ RegisterBegin(q) \/ LoginBegin(q) \/ RegisterFinish(q) \/ LoginFinish(q)
           \/ LoadSelect(q) \/ LoadDelete(q) \/ StoreCredential(q)
           \/ LookupEnrollment(q) \/ DeleteAllCredentialsExcept(q)
           \/ DeleteEnrollmentSession(q) \/ CreateSession(q)
    PROVE  TypeOK'
<1> USE AccountsAssumption
<1> USE DEF userVars, codeVars, enrolVars, keyVars
<1>0. Steps = {"idle", "read", "mark", "enroll", "failcode", "failip", "load",
               "check", "store", "lookup", "purge", "unenroll", "session"}
  BY DEF Steps
<1>1. CASE RegisterBegin(q)
  <2>1. Who \in Users /\ "register" \in Kinds
    BY <1>1, WhoType DEF RegisterBegin, Kinds
  <2> QED BY <1>1, <2>1, SaveType DEF RegisterBegin, TypeOK
<1>2. CASE LoginBegin(q)
  <2>1. PICK u \in IF Who # None THEN {Who} ELSE users :
          \/ Enroll(u, "initial") /\ UNCHANGED keyVars
          \/ SaveChallenge(u, "login") /\ UNCHANGED <<creds, enrolVars>>
    BY <1>2 DEF LoginBegin
  <2>2. u \in Users /\ "login" \in Kinds /\ "initial" \in Purposes
    BY <2>1, WhoType DEF TypeOK, Kinds, Purposes
  <2>3. UNCHANGED <<env, userVars, codeVars, session, pc, call>>
    BY <1>2 DEF LoginBegin
  <2> QED BY <2>1, <2>2, <2>3, SaveType, EnrollType DEF TypeOK
<1>3. CASE RegisterFinish(q)
  <2>1. PICK h \in Challenges :
          call' = [call EXCEPT ![q] = [NoCall EXCEPT !.user = Who, !.token = enrollCookie,
                                                     !.ch = h, !.kind = "register"]]
    BY <1>3 DEF RegisterFinish
  <2>2. [NoCall EXCEPT !.user = Who, !.token = enrollCookie, !.ch = h, !.kind = "register"] \in Calls
    BY WhoType DEF NoCall, Calls, TypeOK, Kinds
  <2>3. call' \in [Tabs -> Calls]
    BY <2>1, <2>2 DEF TypeOK
  <2>4. pc' \in [Tabs -> Steps]
    BY <1>0, <1>3, GotoType DEF RegisterFinish
  <2> QED BY <1>3, <2>3, <2>4 DEF RegisterFinish, TypeOK
<1>4. CASE LoginFinish(q)
  <2>1. PICK h \in Challenges, u \in users :
          call' = [call EXCEPT ![q] = [NoCall EXCEPT !.user = u, !.ch = h, !.kind = "login"]]
    BY <1>4 DEF LoginFinish
  <2>2. [NoCall EXCEPT !.user = u, !.ch = h, !.kind = "login"] \in Calls
    BY DEF NoCall, Calls, TypeOK, Kinds
  <2>3. call' \in [Tabs -> Calls]
    BY <2>1, <2>2 DEF TypeOK
  <2>4. pc' \in [Tabs -> Steps]
    BY <1>0, <1>4, GotoType DEF LoginFinish
  <2> QED BY <1>4, <2>3, <2>4 DEF LoginFinish, TypeOK
<1>5. CASE LoadSelect(q)
  <2>1. (Goto(q, "check") /\ UNCHANGED call) \/ Done(q)
    BY <1>5 DEF LoadSelect
  <2> QED BY <1>0, <1>5, <2>1, GotoType, DoneType DEF LoadSelect, TypeOK
<1>6. CASE LoadDelete(q)
  <2>1. \/ (Goto(q, "session") /\ UNCHANGED call)
        \/ (Goto(q, "store") /\ UNCHANGED call)
        \/ Done(q)
    BY <1>6 DEF LoadDelete
  <2>2. challenges' \in [Challenges -> ChallengeRows \cup {None}]
    BY <1>6 DEF LoadDelete, TypeOK
  <2> QED BY <1>0, <1>6, <2>1, <2>2, GotoType, DoneType DEF LoadDelete, TypeOK
<1>7. CASE StoreCredential(q)
  <2>1. Goto(q, "session") \/ Goto(q, "lookup")
    BY <1>7 DEF StoreCredential
  <2>2. creds' \in [Challenges -> Users \cup {None}]
    BY <1>7 DEF StoreCredential, TypeOK, Calls
  <2> QED BY <1>0, <1>7, <2>1, <2>2, GotoType DEF StoreCredential, TypeOK
<1>8. CASE LookupEnrollment(q)
  <2>1. Goto(q, "purge") \/ Goto(q, "unenroll")
    BY <1>8 DEF LookupEnrollment
  <2> QED BY <1>0, <1>8, <2>1, GotoType DEF LookupEnrollment, TypeOK
<1>9. CASE DeleteAllCredentialsExcept(q)
  <2>1. creds' \in [Challenges -> Users \cup {None}]
    BY <1>9 DEF DeleteAllCredentialsExcept, TypeOK
  <2>2. pc' \in [Tabs -> Steps]
    BY <1>0, <1>9, GotoType DEF DeleteAllCredentialsExcept
  <2> QED BY <1>9, <2>1, <2>2 DEF DeleteAllCredentialsExcept, TypeOK
<1>10. CASE DeleteEnrollmentSession(q)
  <2>1. enrolls' \in [Tokens -> EnrollRows \cup {None}]
    BY <1>10 DEF DeleteEnrollmentSession, TypeOK
  <2>2. pc' \in [Tabs -> Steps]
    BY <1>0, <1>10, GotoType DEF DeleteEnrollmentSession
  <2> QED BY <1>10, <2>1, <2>2 DEF DeleteEnrollmentSession, TypeOK
<1>11. CASE CreateSession(q)
  <2>1. session' \in Users \cup {None} /\ enrollCookie' \in Tokens \cup {None}
    BY <1>11 DEF CreateSession, TypeOK, Calls
  <2> QED BY <1>11, <2>1, DoneType DEF CreateSession, TypeOK
<1> QED
  BY <1>1, <1>2, <1>3, <1>4, <1>5, <1>6, <1>7, <1>8, <1>9, <1>10, <1>11

LEMMA OtherActionsType ==
    ASSUME TypeOK, Logout \/ (\E h \in Challenges : DeleteCredential(h)) \/ Expire
    PROVE  TypeOK'
<1> USE AccountsAssumption
<1> USE DEF userVars, codeVars, enrolVars, keyVars
<1>1. CASE Logout
  BY <1>1 DEF Logout, TypeOK
<1>2. ASSUME NEW h \in Challenges, DeleteCredential(h) PROVE TypeOK'
  BY <1>2 DEF DeleteCredential, TypeOK
<1>3. CASE Expire
  <2>1. /\ used' = used /\ expired' \subseteq Codes /\ ipRecent' \in BOOLEAN
        /\ enrolls' \in [Tokens -> EnrollRows \cup {None}]
        /\ challenges' \in [Challenges -> ChallengeRows \cup {None}]
        /\ session' \in Users \cup {None}
    <3>1. ASSUME NEW c \in Codes, expired' = expired \cup {c} PROVE expired' \subseteq Codes
      BY <3>1 DEF TypeOK
    <3>2. ASSUME NEW k \in Tokens, enrolls' = [enrolls EXCEPT ![k] = None]
          PROVE  enrolls' \in [Tokens -> EnrollRows \cup {None}]
      BY <3>2 DEF TypeOK
    <3>3. ASSUME NEW h \in Challenges, challenges' = [challenges EXCEPT ![h] = None]
          PROVE  challenges' \in [Challenges -> ChallengeRows \cup {None}]
      BY <3>3 DEF TypeOK
    <3>4. used' = used
      BY <1>3 DEF Expire
    <3>5. expired' \subseteq Codes /\ ipRecent' \in BOOLEAN
      BY <1>3, <3>1 DEF Expire, TypeOK
    <3>6. enrolls' \in [Tokens -> EnrollRows \cup {None}]
      BY <1>3, <3>2 DEF Expire, TypeOK
    <3>7. challenges' \in [Challenges -> ChallengeRows \cup {None}]
      BY <1>3, <3>3 DEF Expire, TypeOK
    <3>8. session' \in Users \cup {None}
      BY <1>3 DEF Expire, TypeOK
    <3> QED BY <3>4, <3>5, <3>6, <3>7, <3>8
  <2>2. UNCHANGED <<env, userVars, codes, ipAttempts, minted, enrollCookie, issuedTo, creds, pc, call>>
    BY <1>3 DEF Expire
  <2> QED BY <2>1, <2>2 DEF TypeOK
<1> QED
  BY <1>1, <1>2, <1>3

-----------------------------------------------------------------------------
(* Enrollment codes.                                                       *)
FailsSpent == \A q \in Tabs : pc[q] = "failcode" => Spent(q)

CodeInv == RowsFound /\ FailsSpent /\ LiveCodesUncounted

(* A row of codes stays and is used or expires once for all.               *)
CodesOnlyAge ==
    /\ \A c \in Codes : codes[c] # None => codes'[c] # None
    /\ used \subseteq used' /\ expired \subseteq expired'

(* The requests that have read a row and go on hold on to their code.      *)
LEMMA HoldersKeep ==
    ASSUME TypeOK, CodeInv, CodesOnlyAge,
           \A q \in Tabs : pc'[q] \in {"mark", "enroll", "failcode"} =>
               \/ pc'[q] = pc[q] /\ call'[q].code = call[q].code
               \/ /\ call'[q].code = call[q].code /\ Found(q)
                  /\ pc'[q] = "failcode" => Spent(q)
    PROVE  RowsFound' /\ FailsSpent'
<1>1. ASSUME NEW q \in Tabs, pc'[q] \in {"mark", "enroll", "failcode"}
      PROVE  Found(q)' /\ (pc'[q] = "failcode" => Spent(q)')
  <2>1. Found(q) /\ call'[q].code = call[q].code /\ (pc'[q] = "failcode" => Spent(q))
    BY <1>1 DEF CodeInv, RowsFound, FailsSpent
  <2>2. call[q].code \in Codes
    BY <2>1, RowType
  <2> QED BY <2>1, <2>2 DEF Found, Row, Spent, CodesOnlyAge
<1> QED
  BY <1>1 DEF RowsFound, FailsSpent

(* Actions that leave the codes alone, of a tab that does not go on with   *)
(* one.                                                                    *)
LEMMA CodesUntouched ==
    ASSUME TypeOK, CodeInv, codes' = codes, used' = used, expired \subseteq expired',
           \A q \in Tabs : pc'[q] \in {"mark", "enroll", "failcode"} =>
                            pc'[q] = pc[q] /\ call'[q] = call[q]
    PROVE  CodeInv'
<1>1. CodesOnlyAge
  BY DEF CodesOnlyAge
<1>2. RowsFound' /\ FailsSpent'
  BY <1>1, HoldersKeep
<1>3. LiveCodesUncounted'
  BY DEF CodeInv, LiveCodesUncounted
<1> QED
  BY <1>2, <1>3 DEF CodeInv

LEMMA IssueCodes ==
    ASSUME TypeOK, CodeInv, NEW u \in Users, NEW p \in Purposes, IssueEnrollmentCode(u, p)
    PROVE  CodeInv'
<1>1. PICK c \in Codes :
        /\ codes[c] = None
        /\ codes' = [codes EXCEPT ![c] = [user |-> u, purpose |-> p, attempts |-> 0]]
  BY DEF IssueEnrollmentCode
<1>2. used' = used /\ expired' = expired /\ pc' = pc /\ call' = call
  BY DEF IssueEnrollmentCode
<1>3. [user |-> u, purpose |-> p, attempts |-> 0] \in CodeRows
  BY DEF CodeRows
<1>4. codes'[c] # None /\ codes'[c].attempts = 0 /\ \A d \in Codes \ {c} : codes'[d] = codes[d]
  <2>1. codes'[c] = [user |-> u, purpose |-> p, attempts |-> 0]
    BY <1>1 DEF TypeOK
  <2>2. None \notin CodeRows
    BY NoneIsNoRow
  <2> QED BY <1>1, <1>3, <2>1, <2>2 DEF TypeOK
<1>5. CodesOnlyAge
  BY <1>2, <1>4 DEF CodesOnlyAge
<1>6. RowsFound' /\ FailsSpent'
  BY <1>2, <1>5, HoldersKeep
<1>7. LiveCodesUncounted'
  BY <1>2, <1>4 DEF CodeInv, LiveCodesUncounted
<1> QED
  BY <1>6, <1>7 DEF CodeInv

LEMMA VerifyCodes ==
    ASSUME TypeOK, CodeInv, NEW q \in Tabs,
           VerifyStart(q) \/ VerifyRead(q) \/ VerifyMark(q) \/ FailCode(q)
    PROVE  CodeInv'
<1> USE DEF codeVars
<1>0. pc \in [Tabs -> Steps] /\ call \in [Tabs -> Calls]
  BY DEF TypeOK
<1>1. CASE VerifyStart(q)
  <2>1. PICK c \in Codes \cup {None} : call' = [call EXCEPT ![q].code = c]
    BY <1>1 DEF VerifyStart
  <2>2. pc' = [pc EXCEPT ![q] = "read"] /\ UNCHANGED codeVars
    BY <1>1 DEF VerifyStart, Goto
  <2>3. \A r \in Tabs : pc'[r] \in {"mark", "enroll", "failcode"} => pc'[r] = pc[r] /\ call'[r] = call[r]
    BY <1>0, <2>1, <2>2
  <2> QED BY <2>2, <2>3, CodesUntouched
<1>2. CASE VerifyRead(q)
  <2>1. UNCHANGED codeVars /\ pc[q] = "read"
    BY <1>2 DEF VerifyRead
  <2>2. \/ pc' = [pc EXCEPT ![q] = "failip"] /\ call' = call
        \/ pc' = [pc EXCEPT ![q] = "failcode"] /\ call' = call /\ Found(q) /\ Spent(q)
        \/ pc' = [pc EXCEPT ![q] = "mark"] /\ call' = call /\ Found(q)
        \/ pc' = [pc EXCEPT ![q] = "idle"] /\ \A r \in Tabs \ {q} : call'[r] = call[r]
    BY <1>0, <1>2 DEF VerifyRead, Goto, Done
  <2>3. \A r \in Tabs : pc'[r] \in {"mark", "enroll", "failcode"} =>
          \/ pc'[r] = pc[r] /\ call'[r].code = call[r].code
          \/ /\ call'[r].code = call[r].code /\ Found(r)
             /\ pc'[r] = "failcode" => Spent(r)
    BY <1>0, <2>1, <2>2
  <2>4. CodesOnlyAge
    BY <2>1 DEF CodesOnlyAge
  <2>5. RowsFound' /\ FailsSpent'
    BY <2>3, <2>4, HoldersKeep
  <2> QED BY <2>1, <2>5 DEF CodeInv, LiveCodesUncounted
<1>3. CASE VerifyMark(q) \/ FailCode(q)
  <2> DEFINE c == call[q].code
  <2>1. c \in Codes /\ codes[c] \in CodeRows
    BY <1>3, RowType DEF VerifyMark, FailCode, CodeInv, RowsFound
  <2>2. [codes[c] EXCEPT !.attempts = @ + 1] \in CodeRows
    BY <2>1 DEF CodeRows
  <2>3. codes' = codes \/ codes' = [codes EXCEPT ![c].attempts = @ + 1]
    BY <1>3 DEF VerifyMark, FailCode
  <2>4. c \in used' \cup expired' /\ used \subseteq used' /\ expired' = expired
    BY <1>3 DEF VerifyMark, FailCode, CodeInv, FailsSpent, Spent
  <2>5. call' = call /\ pc' \in {[pc EXCEPT ![q] = "enroll"], [pc EXCEPT ![q] = "failip"]}
        /\ (pc' = [pc EXCEPT ![q] = "enroll"] => pc[q] = "mark")
    BY <1>0, <1>3 DEF VerifyMark, FailCode, Goto
  <2>6. codes'[c] # None /\ \A d \in Codes \ {c} : codes'[d] = codes[d]
    <3> HIDE DEF c
    <3> QED BY <2>1, <2>2, <2>3, NoneIsNoRow DEF TypeOK
  <2>7. CodesOnlyAge
    BY <2>4, <2>6 DEF CodesOnlyAge
  <2>8. \A r \in Tabs : pc'[r] \in {"mark", "enroll", "failcode"} =>
          \/ pc'[r] = pc[r] /\ call'[r].code = call[r].code
          \/ /\ call'[r].code = call[r].code /\ Found(r)
             /\ pc'[r] = "failcode" => Spent(r)
    BY <1>0, <2>5 DEF CodeInv, RowsFound
  <2>9. RowsFound' /\ FailsSpent'
    BY <2>7, <2>8, HoldersKeep
  <2>10. LiveCodesUncounted'
    BY <2>4, <2>6 DEF CodeInv, LiveCodesUncounted
  <2> QED BY <2>9, <2>10 DEF CodeInv
<1> QED
  BY <1>1, <1>2, <1>3

(* A step of a tab that has nothing to do with codes, or is done with them.*)
LEMMA TabCodes ==
    ASSUME TypeOK, CodeInv, NEW q \in Tabs, codes' = codes, used' = used, expired' = expired,
           NEW step \in Steps \ {"mark", "enroll", "failcode"},
           pc' = [pc EXCEPT ![q] = step], \A r \in Tabs \ {q} : call'[r] = call[r]
    PROVE  CodeInv'
<1>1. \A r \in Tabs : pc'[r] \in {"mark", "enroll", "failcode"} => pc'[r] = pc[r] /\ call'[r] = call[r]
  BY DEF TypeOK
<1> QED
  BY <1>1, CodesUntouched

LEMMA CodeStep == ASSUME TypeOK, CodeInv, Next PROVE CodeInv'
<1> USE DEF codeVars
<1>0. call \in [Tabs -> Calls]
  BY DEF TypeOK
<1>1. CASE BootstrapCount \/ BootstrapCreate \/ Logout
           \/ (\E u \in Users : CreateUser(u)) \/ (\E h \in Challenges : DeleteCredential(h))
  <2>1. UNCHANGED <<codeVars, pc, call>>
    BY <1>1 DEF BootstrapCount, BootstrapCreate, Logout, CreateUser, DeleteCredential
  <2> QED BY <2>1, CodesUntouched
<1>2. CASE BootstrapCode \/ IssueAdminCode \/ IssueDeviceCode \/ \E u \in Users : IssueUserCode(u)
  <2>1. \E u \in Users, p \in Purposes : IssueEnrollmentCode(u, p)
    BY <1>2, AccountsAssumption
    DEF BootstrapCode, IssueAdminCode, IssueDeviceCode, IssueUserCode, Purposes, TypeOK
  <2> QED BY <2>1, IssueCodes
<1>3. CASE Expire
  <2>1. codes' = codes /\ used' = used /\ expired \subseteq expired' /\ pc' = pc /\ call' = call
    BY <1>3 DEF Expire
  <2> QED BY <2>1, CodesUntouched
<1>4. ASSUME NEW q \in Tabs, VerifyStart(q) \/ VerifyRead(q) \/ VerifyMark(q) \/ FailCode(q)
      PROVE  CodeInv'
  BY <1>4, VerifyCodes
<1>5. ASSUME NEW q \in Tabs, RegisterBegin(q) \/ LoginBegin(q) PROVE CodeInv'
  <2>1. UNCHANGED <<codeVars, pc, call>>
    BY <1>5 DEF RegisterBegin, LoginBegin
  <2> QED BY <2>1, CodesUntouched
<1>6. ASSUME NEW q \in Tabs,
             \/ VerifyEnroll(q) \/ FailIP(q) \/ Abort(q) \/ RegisterFinish(q) \/ LoginFinish(q)
             \/ LoadSelect(q) \/ LoadDelete(q) \/ StoreCredential(q) \/ LookupEnrollment(q)
             \/ DeleteAllCredentialsExcept(q) \/ DeleteEnrollmentSession(q) \/ CreateSession(q)
      PROVE  CodeInv'
  <2>1. codes' = codes /\ used' = used /\ expired' = expired
    BY <1>6 DEF VerifyEnroll, FailIP, Abort, RegisterFinish, LoginFinish, LoadSelect, LoadDelete,
                StoreCredential, LookupEnrollment, DeleteAllCredentialsExcept,
                DeleteEnrollmentSession, CreateSession
  <2>2. \E step \in {"idle", "load", "check", "store", "session", "lookup", "purge", "unenroll"} :
          pc' = [pc EXCEPT ![q] = step]
    BY <1>6 DEF VerifyEnroll, FailIP, Abort, RegisterFinish, LoginFinish, LoadSelect, LoadDelete,
                StoreCredential, LookupEnrollment, DeleteAllCredentialsExcept,
                DeleteEnrollmentSession, CreateSession, Goto, Done
  <2>3. \A r \in Tabs \ {q} : call'[r] = call[r]
    BY <1>0, <1>6 DEF VerifyEnroll, FailIP, Abort, RegisterFinish, LoginFinish, LoadSelect,
                LoadDelete, StoreCredential, LookupEnrollment, DeleteAllCredentialsExcept,
                DeleteEnrollmentSession, CreateSession, Goto, Done
  <2>4. PICK step \in Steps \ {"mark", "enroll", "failcode"} : pc' = [pc EXCEPT ![q] = step]
    BY <2>2 DEF Steps
  <2> QED BY <2>1, <2>3, <2>4, TabCodes
<1> QED
  BY <1>1, <1>2, <1>3, <1>4, <1>5, <1>6 DEF Next

-----------------------------------------------------------------------------
(* Types, once rows are known to be there.                                 *)
LEMMA TypeStep == ASSUME TypeOK, RowsFound, Next PROVE TypeOK'
  BY UserActionsType, VerifyActionsType, CeremonyActionsType, OtherActionsType DEF Next

LEMMA TypeStutter == ASSUME TypeOK, UNCHANGED vars PROVE TypeOK'
  BY DEF TypeOK, vars, userVars, codeVars, enrolVars, keyVars

LEMMA CodeStutter == ASSUME CodeInv, UNCHANGED vars PROVE CodeInv'
  BY DEF CodeInv, RowsFound, FailsSpent, LiveCodesUncounted, Found, Row, Spent, vars, codeVars

LEMMA CodeInit == ASSUME Init PROVE CodeInv
<1>1. \A q \in Tabs : pc[q] = "idle"
  BY DEF Init
<1>2. LiveCodesUncounted
  BY DEF Init, InitEmpty, InitEnrolled, InitSignedIn, LiveCodesUncounted
<1> QED
  BY <1>1, <1>2 DEF CodeInv, RowsFound, FailsSpent

(* The rows and requests of Accounts keep their types: no request stores   *)
(* or signs in with a row it has not read.                                 *)
THEOREM AccountsTypeCorrect == Spec => [](TypeOK /\ CodeInv)
<1>1. Init => TypeOK /\ CodeInv
  BY InitType, CodeInit
<1>2. TypeOK /\ CodeInv /\ [Next]_vars => (TypeOK /\ CodeInv)'
  BY TypeStep, CodeStep, TypeStutter, CodeStutter DEF CodeInv
<1> QED
  BY <1>1, <1>2, PTL DEF Spec

(* A code that can still be used has never been counted against, whatever  *)
(* requests about it overlap (VerifyEnrollmentCode reads, marks and counts *)
(* in separate statements).                                                *)
THEOREM LiveCodesStayUncounted == Spec => []LiveCodesUncounted
<1>1. TypeOK /\ CodeInv => LiveCodesUncounted
  BY DEF CodeInv
<1> QED
  BY <1>1, AccountsTypeCorrect, PTL

-----------------------------------------------------------------------------
(* The limit on wrong codes.                                               *)
Guessing == {q \in Tabs : pc[q] \in {"read", "failcode", "failip"}}

(* Within the window the requests that may still be counted are counted in *)
(* advance; a window that has ended can begin anew with one.               *)
GuessInv ==
    IF ipRecent THEN ipAttempts + Cardinality(Guessing) < MaxCodeAttempts + Cardinality(Tabs)
    ELSE ipAttempts < MaxCodeAttempts + Cardinality(Tabs)

LEMMA GuessingFinite ==
    /\ IsFiniteSet(Guessing) /\ Cardinality(Guessing) \in Nat /\ Cardinality(Tabs) \in Nat
    /\ Cardinality(Guessing) <= Cardinality(Tabs)
<1>1. Guessing \subseteq Tabs /\ IsFiniteSet(Tabs)
  BY AccountsAssumption DEF Guessing
<1>2. IsFiniteSet(Guessing) /\ Cardinality(Guessing) <= Cardinality(Tabs)
  BY <1>1, FS_Subset
<1> QED
  BY <1>1, <1>2, FS_CardinalityType

LEMMA GuessingFinitePrime ==
    /\ IsFiniteSet(Guessing') /\ Cardinality(Guessing') \in Nat
    /\ Cardinality(Guessing') <= Cardinality(Tabs)
<1>1. Guessing' \subseteq Tabs /\ IsFiniteSet(Tabs)
  BY AccountsAssumption DEF Guessing
<1>2. IsFiniteSet(Guessing') /\ Cardinality(Guessing') <= Cardinality(Tabs)
  BY <1>1, FS_Subset
<1> QED
  BY <1>2, FS_CardinalityType

(* A step that counts nothing and lets nobody begin to guess.              *)
LEMMA FewerGuess ==
    ASSUME TypeOK, GuessInv, ipAttempts' = ipAttempts, ipRecent' = ipRecent \/ ipRecent' = FALSE,
           Guessing' \subseteq Guessing
    PROVE  GuessInv'
<1>1. Cardinality(Guessing') <= Cardinality(Guessing)
  BY GuessingFinite, FS_Subset
<1>2. ipAttempts \in Nat /\ MaxCodeAttempts \in Nat
  BY AccountsAssumption DEF TypeOK
<1>3. ipAttempts < MaxCodeAttempts + Cardinality(Tabs)
  BY <1>2, GuessingFinite DEF GuessInv
<1>4. CASE ipRecent' = FALSE
  BY <1>3, <1>4 DEF GuessInv
<1>5. CASE ipRecent' = ipRecent /\ ipRecent
  <2>1. ipAttempts + Cardinality(Guessing) < MaxCodeAttempts + Cardinality(Tabs)
    BY <1>5 DEF GuessInv
  <2>2. ipAttempts + Cardinality(Guessing') < MaxCodeAttempts + Cardinality(Tabs)
    BY <1>1, <1>2, <2>1, GuessingFinite, GuessingFinitePrime
  <2> QED BY <1>3, <2>2 DEF GuessInv
<1>6. CASE ipRecent' = ipRecent /\ ~ipRecent
  BY <1>3, <1>6 DEF GuessInv
<1> QED
  BY <1>4, <1>5, <1>6

LEMMA GuessStep == ASSUME TypeOK, GuessInv, [Next]_vars PROVE GuessInv'
<1> USE DEF codeVars
<1>0. pc \in [Tabs -> Steps] /\ ipAttempts \in Nat /\ MaxCodeAttempts \in Nat \ {0}
  BY AccountsAssumption DEF TypeOK
<1>1. ASSUME NEW q \in Tabs, VerifyStart(q) PROVE GuessInv'
  <2>1. ipAttempts' = ipAttempts /\ ipRecent' = ipRecent /\ (ipRecent => ipAttempts < MaxCodeAttempts)
    BY <1>0, <1>1 DEF VerifyStart, IPLimited
  <2>2. CASE ipRecent
    BY <1>0, <2>1, <2>2, GuessingFinite, GuessingFinitePrime DEF GuessInv
  <2>3. CASE ~ipRecent
    BY <2>1, <2>3 DEF GuessInv
  <2> QED BY <2>2, <2>3
<1>2. ASSUME NEW q \in Tabs, FailIP(q) PROVE GuessInv'
  <2>1. pc' = [pc EXCEPT ![q] = "idle"] /\ pc[q] = "failip" /\ ipRecent' = TRUE
        /\ ipAttempts' = IF ipRecent THEN ipAttempts + 1 ELSE 1
    BY <1>2 DEF FailIP, Done, Goto
  <2>2. q \in Guessing /\ Guessing' = Guessing \ {q}
    BY <1>0, <2>1 DEF Guessing
  <2>3. Cardinality(Guessing') = Cardinality(Guessing) - 1
    BY <2>2, GuessingFinite, FS_RemoveElement
  <2>4. CASE ipRecent
    BY <1>0, <2>1, <2>3, <2>4, GuessingFinite DEF GuessInv
  <2>5. CASE ~ipRecent
    BY <1>0, <2>1, <2>3, <2>5, GuessingFinite DEF GuessInv
  <2> QED BY <2>4, <2>5
<1>3. ASSUME ipAttempts' = ipAttempts, ipRecent' = ipRecent \/ ipRecent' = FALSE,
             \/ pc' = pc
             \/ \E q \in Tabs, step \in Steps :
                   /\ pc' = [pc EXCEPT ![q] = step]
                   /\ step \in {"read", "failcode", "failip"} => q \in Guessing
      PROVE  GuessInv'
  <2>1. Guessing' \subseteq Guessing
    BY <1>0, <1>3 DEF Guessing
  <2> QED BY <1>3, <2>1, FewerGuess
<1>4. CASE \/ BootstrapCount \/ BootstrapCreate \/ BootstrapCode \/ IssueAdminCode
           \/ IssueDeviceCode \/ (\E u \in Users : CreateUser(u) \/ IssueUserCode(u))
           \/ Logout \/ (\E h \in Challenges : DeleteCredential(h)) \/ Expire \/ UNCHANGED vars
  <2>1. ipAttempts' = ipAttempts /\ (ipRecent' = ipRecent \/ ipRecent' = FALSE) /\ pc' = pc
    BY <1>4 DEF BootstrapCount, BootstrapCreate, BootstrapCode, IssueAdminCode, IssueDeviceCode,
                CreateUser, IssueUserCode, IssueEnrollmentCode, Logout, DeleteCredential, Expire, vars
  <2> QED BY <1>3, <2>1
<1>5. ASSUME NEW q \in Tabs, RegisterBegin(q) \/ LoginBegin(q) PROVE GuessInv'
  <2>1. ipAttempts' = ipAttempts /\ ipRecent' = ipRecent /\ pc' = pc
    BY <1>5 DEF RegisterBegin, LoginBegin
  <2> QED BY <1>3, <2>1
<1>6. ASSUME NEW q \in Tabs, VerifyRead(q) \/ FailCode(q) PROVE GuessInv'
  <2>1. ipAttempts' = ipAttempts /\ ipRecent' = ipRecent /\ q \in Guessing
    BY <1>6 DEF VerifyRead, FailCode, Guessing
  <2>2. \E step \in {"failip", "failcode", "mark", "idle"} : pc' = [pc EXCEPT ![q] = step]
    BY <1>6 DEF VerifyRead, FailCode, Goto, Done
  <2>3. \E step \in Steps : pc' = [pc EXCEPT ![q] = step]
    BY <2>2 DEF Steps
  <2> QED BY <1>3, <2>1, <2>3
<1>7. ASSUME NEW q \in Tabs,
             \/ VerifyMark(q) \/ VerifyEnroll(q) \/ Abort(q) \/ RegisterFinish(q) \/ LoginFinish(q)
             \/ LoadSelect(q) \/ LoadDelete(q) \/ StoreCredential(q) \/ LookupEnrollment(q)
             \/ DeleteAllCredentialsExcept(q) \/ DeleteEnrollmentSession(q) \/ CreateSession(q)
      PROVE  GuessInv'
  <2>1. ipAttempts' = ipAttempts /\ ipRecent' = ipRecent
    BY <1>7 DEF VerifyMark, VerifyEnroll, Abort, RegisterFinish, LoginFinish, LoadSelect, LoadDelete,
                StoreCredential, LookupEnrollment, DeleteAllCredentialsExcept,
                DeleteEnrollmentSession, CreateSession
  <2>2. \E step \in {"idle", "enroll", "load", "check", "store", "session", "lookup", "purge", "unenroll"} :
          pc' = [pc EXCEPT ![q] = step]
    BY <1>7 DEF VerifyMark, VerifyEnroll, Abort, RegisterFinish, LoginFinish, LoadSelect, LoadDelete,
                StoreCredential, LookupEnrollment, DeleteAllCredentialsExcept,
                DeleteEnrollmentSession, CreateSession, Goto, Done
  <2>3. \E step \in Steps : /\ pc' = [pc EXCEPT ![q] = step]
                            /\ step \notin {"read", "failcode", "failip"}
    BY <2>2 DEF Steps
  <2> QED BY <1>3, <2>1, <2>3
<1> QED
  BY <1>1, <1>2, <1>4, <1>5, <1>6, <1>7 DEF Next

(* However the tabs interleave and the window ends, the wrong codes counted*)
(* for an address exceed max_code_attempts by no more than the requests    *)
(* that were under way (checkEnrollmentIPLimit, recordIPFailedAttempt).    *)
THEOREM GuessesStayBounded == Spec => []GuessesBounded
<1>1. Init => GuessInv
  <2> SUFFICES ASSUME Init PROVE GuessInv
    OBVIOUS
  <2>1. ipAttempts = 0 /\ ipRecent = FALSE
    BY DEF Init
  <2>2. Tabs # {} /\ IsFiniteSet(Tabs) /\ MaxCodeAttempts \in Nat \ {0}
    BY AccountsAssumption
  <2> QED BY <2>1, <2>2, GuessingFinite DEF GuessInv
<1>2. TypeOK /\ GuessInv /\ [Next]_vars => GuessInv'
  BY GuessStep
<1>3. TypeOK /\ GuessInv => GuessesBounded
  <2> SUFFICES ASSUME TypeOK, GuessInv PROVE GuessesBounded
    OBVIOUS
  <2>1. ipAttempts \in Nat /\ MaxCodeAttempts \in Nat
    BY AccountsAssumption DEF TypeOK
  <2> QED BY <2>1, GuessingFinite DEF GuessInv, GuessesBounded
<1> QED
  BY <1>1, <1>2, <1>3, AccountsTypeCorrect, PTL DEF Spec

-----------------------------------------------------------------------------
(* Challenges and passkeys.                                                *)
Late == {"store", "lookup", "purge", "unenroll", "session"}
Ceremony == Late \cup {"load", "check"}

(* A ceremony's second half has a user and a challenge.                    *)
KeyInv ==
    /\ AnswersFitChallenges
    /\ \A q \in Tabs : pc[q] \in Ceremony => call[q].user \in Users /\ call[q].ch \in Challenges

LEMMA KeyUnfold ==
    KeyInv <=> /\ \A h \in Challenges : creds[h] # None => creds[h] = issuedTo[h]
               /\ \A q \in Tabs : /\ pc[q] \in Late => call[q].user = issuedTo[call[q].ch]
                                  /\ pc[q] \in Ceremony => /\ call[q].user \in Users
                                                           /\ call[q].ch \in Challenges
  BY DEF KeyInv, AnswersFitChallenges, Late

LEMMA KeyFold ==
    ASSUME \A h \in Challenges : creds'[h] # None => creds'[h] = issuedTo'[h],
           \A q \in Tabs : /\ pc'[q] \in Late => call'[q].user = issuedTo'[call'[q].ch]
                           /\ pc'[q] \in Ceremony => /\ call'[q].user \in Users
                                                    /\ call'[q].ch \in Challenges
    PROVE  KeyInv'
<1>1. AnswersFitChallenges'
  BY Zenon DEF AnswersFitChallenges, Late
<1>2. (\A q \in Tabs : pc[q] \in Ceremony => call[q].user \in Users /\ call[q].ch \in Challenges)'
  BY Zenon
<1> QED
  BY <1>1, <1>2 DEF KeyInv

(* Passkeys are only deleted, and no tab gets further than it was.         *)
LEMMA KeysUntouched ==
    ASSUME KeyInv, issuedTo' = issuedTo,
           \A h \in Challenges : creds'[h] = None \/ creds'[h] = creds[h],
           \A q \in Tabs : pc'[q] \in Ceremony =>
               /\ call'[q] = call[q] /\ pc[q] \in Ceremony
               /\ pc'[q] \in Late => pc[q] \in Late
    PROVE  KeyInv'
<1>1. \A h \in Challenges : creds'[h] # None => creds'[h] = issuedTo'[h]
  BY KeyUnfold
<1>2. \A q \in Tabs : /\ pc'[q] \in Late => call'[q].user = issuedTo'[call'[q].ch]
                      /\ pc'[q] \in Ceremony => call'[q].user \in Users /\ call'[q].ch \in Challenges
  <2>1. ASSUME NEW q \in Tabs, pc'[q] \in Ceremony
        PROVE  call'[q] = call[q] /\ call'[q].user \in Users /\ call'[q].ch \in Challenges
    BY <2>1, KeyUnfold
  <2>2. ASSUME NEW q \in Tabs, pc'[q] \in Late PROVE call'[q].user = issuedTo'[call'[q].ch]
    BY <2>1, <2>2, KeyUnfold DEF Ceremony
  <2> QED BY <2>1, <2>2
<1> QED
  BY <1>1, <1>2, KeyFold

(* A step of one tab that creates no challenge and no passkey.             *)
LEMMA TabKeys ==
    ASSUME TypeOK, KeyInv, NEW q \in Tabs, issuedTo' = issuedTo, NEW step \in Steps,
           \A h \in Challenges : creds'[h] = None \/ creds'[h] = creds[h],
           pc' = [pc EXCEPT ![q] = step], \A r \in Tabs \ {q} : call'[r] = call[r],
           \/ step \notin Ceremony
           \/ call' = call /\ pc[q] \in Late
           \/ call' = call /\ pc[q] \in Ceremony /\ step \notin Late
    PROVE  KeyInv'
<1>1. \A r \in Tabs : pc'[r] \in Ceremony =>
          /\ call'[r] = call[r] /\ pc[r] \in Ceremony
          /\ pc'[r] \in Late => pc[r] \in Late
  BY DEF TypeOK, Ceremony
<1> QED
  BY <1>1, KeysUntouched

(* A challenge nobody has used before: no passkey and no request names it  *)
(* yet.                                                                    *)
LEMMA SaveKeys ==
    ASSUME TypeOK, KeyInv, NEW u \in Users, NEW k \in Kinds, SaveChallenge(u, k),
           creds' = creds, pc' = pc, call' = call
    PROVE  KeyInv'
<1>1. PICK h \in Challenges : issuedTo[h] = None /\ issuedTo' = [issuedTo EXCEPT ![h] = u]
  BY DEF SaveChallenge
<1>2. \A g \in Challenges : issuedTo[g] # None => issuedTo'[g] = issuedTo[g]
  BY <1>1 DEF TypeOK
<1>3. \A g \in Challenges : creds'[g] # None => creds'[g] = issuedTo'[g]
  BY <1>2, KeyUnfold
<1>4. ASSUME NEW q \in Tabs, pc'[q] \in Late PROVE call'[q].user = issuedTo'[call'[q].ch]
  <2>1. call[q].user = issuedTo[call[q].ch] /\ call[q].user \in Users /\ call[q].ch \in Challenges
    BY <1>4, KeyUnfold DEF Ceremony
  <2>2. None \notin Users
    BY AccountsAssumption
  <2> QED BY <1>2, <2>1, <2>2
<1>5. \A q \in Tabs : pc'[q] \in Ceremony => call'[q].user \in Users /\ call'[q].ch \in Challenges
  BY DEF KeyInv
<1> QED
  BY <1>3, <1>4, <1>5, KeyFold

LEMMA FinishKeys ==
    ASSUME TypeOK, KeyInv, NEW q \in Tabs, RegisterFinish(q) \/ LoginFinish(q)
    PROVE  KeyInv'
<1>1. /\ pc \in [Tabs -> Steps] /\ call \in [Tabs -> Calls]
      /\ pc' = [pc EXCEPT ![q] = "load"] /\ issuedTo' = issuedTo /\ creds' = creds
  BY DEF RegisterFinish, LoginFinish, Goto, TypeOK, keyVars
<1>2. /\ call'[q].user \in Users /\ call'[q].ch \in Challenges
      /\ \A r \in Tabs \ {q} : call'[r] = call[r]
  <2>1. CASE RegisterFinish(q)
    <3>1. PICK h \in Challenges :
            call' = [call EXCEPT ![q] = [NoCall EXCEPT !.user = Who, !.token = enrollCookie,
                                                       !.ch = h, !.kind = "register"]]
      BY <2>1 DEF RegisterFinish
    <3>2. Who \in Users
      BY <2>1, WhoType DEF RegisterFinish
    <3>3. call'[q] = [NoCall EXCEPT !.user = Who, !.token = enrollCookie, !.ch = h, !.kind = "register"]
          /\ \A r \in Tabs \ {q} : call'[r] = call[r]
      BY <1>1, <3>1
    <3> QED BY <3>2, <3>3 DEF NoCall
  <2>2. CASE LoginFinish(q)
    <3>1. PICK h \in Challenges, u \in users :
            call' = [call EXCEPT ![q] = [NoCall EXCEPT !.user = u, !.ch = h, !.kind = "login"]]
      BY <2>2 DEF LoginFinish
    <3>2. u \in Users
      BY DEF TypeOK
    <3>3. call'[q] = [NoCall EXCEPT !.user = u, !.ch = h, !.kind = "login"]
          /\ \A r \in Tabs \ {q} : call'[r] = call[r]
      BY <1>1, <3>1
    <3> QED BY <3>2, <3>3 DEF NoCall
  <2> QED BY <2>1, <2>2
<1>3. \A r \in Tabs : /\ pc'[r] \in Late => call'[r].user = issuedTo'[call'[r].ch]
                      /\ pc'[r] \in Ceremony => call'[r].user \in Users /\ call'[r].ch \in Challenges
  BY <1>1, <1>2, KeyUnfold DEF Late, Ceremony
<1>4. \A h \in Challenges : creds'[h] # None => creds'[h] = issuedTo'[h]
  BY <1>1, KeyUnfold
<1> QED
  BY <1>3, <1>4, KeyFold

LEMMA LoadKeys == ASSUME TypeOK, KeyInv, NEW q \in Tabs, LoadDelete(q) PROVE KeyInv'
<1>1. /\ pc \in [Tabs -> Steps] /\ call \in [Tabs -> Calls]
      /\ issuedTo' = issuedTo /\ creds' = creds /\ pc[q] = "check"
  BY DEF LoadDelete, TypeOK
<1>2. CASE Done(q)
  <2>1. pc' = [pc EXCEPT ![q] = "idle"] /\ \A r \in Tabs \ {q} : call'[r] = call[r]
    BY <1>1, <1>2 DEF Done, Goto
  <2>2. "idle" \in Steps /\ "idle" \notin Ceremony
    BY DEF Steps, Ceremony, Late
  <2> QED BY <1>1, <2>1, <2>2, TabKeys
<1>3. CASE ~Done(q)
  <2>1. call[q].user = issuedTo[call[q].ch] /\ call' = call
        /\ \E step \in {"session", "store"} : pc' = [pc EXCEPT ![q] = step]
    BY <1>3 DEF LoadDelete, Verified, Goto
  <2>2. \A r \in Tabs : /\ pc'[r] \in Late => call'[r].user = issuedTo'[call'[r].ch]
                        /\ pc'[r] \in Ceremony => call'[r].user \in Users /\ call'[r].ch \in Challenges
    BY <1>1, <2>1, KeyUnfold DEF Late, Ceremony
  <2>3. \A h \in Challenges : creds'[h] # None => creds'[h] = issuedTo'[h]
    BY <1>1, KeyUnfold
  <2> QED BY <2>2, <2>3, KeyFold
<1> QED
  BY <1>2, <1>3

LEMMA StoreKeys == ASSUME TypeOK, KeyInv, NEW q \in Tabs, StoreCredential(q) PROVE KeyInv'
<1>1. /\ pc \in [Tabs -> Steps] /\ call' = call /\ issuedTo' = issuedTo /\ pc[q] = "store"
      /\ creds \in [Challenges -> Users \cup {None}]
  BY DEF StoreCredential, TypeOK
<1>2. call[q].user = issuedTo[call[q].ch] /\ call[q].ch \in Challenges
  BY <1>1, KeyUnfold DEF Late, Ceremony
<1>3. \A h \in Challenges : creds'[h] # None => creds'[h] = issuedTo'[h]
  <2>1. \A h \in Challenges : creds'[h] = creds[h] \/ (h = call[q].ch /\ creds'[h] = call[q].user)
    BY <1>1 DEF StoreCredential
  <2> QED BY <1>1, <1>2, <2>1, KeyUnfold
<1>4. \E step \in {"session", "lookup"} : pc' = [pc EXCEPT ![q] = step]
  BY DEF StoreCredential, Goto
<1>5. \A r \in Tabs : /\ pc'[r] \in Late => call'[r].user = issuedTo'[call'[r].ch]
                      /\ pc'[r] \in Ceremony => call'[r].user \in Users /\ call'[r].ch \in Challenges
  BY <1>1, <1>4, KeyUnfold DEF Late, Ceremony
<1> QED
  BY <1>3, <1>5, KeyFold

LEMMA KeyStep == ASSUME TypeOK, KeyInv, [Next]_vars PROVE KeyInv'
<1> USE DEF keyVars
<1>1. ASSUME issuedTo' = issuedTo, pc' = pc, call' = call,
             \A h \in Challenges : creds'[h] = None \/ creds'[h] = creds[h]
      PROVE  KeyInv'
  BY <1>1, KeysUntouched
<1>2. CASE \/ BootstrapCount \/ BootstrapCreate \/ BootstrapCode \/ IssueAdminCode
           \/ IssueDeviceCode \/ (\E u \in Users : CreateUser(u) \/ IssueUserCode(u))
           \/ Logout \/ Expire \/ UNCHANGED vars
  <2>1. issuedTo' = issuedTo /\ pc' = pc /\ call' = call /\ creds' = creds
    BY <1>2 DEF BootstrapCount, BootstrapCreate, BootstrapCode, IssueAdminCode, IssueDeviceCode,
                CreateUser, IssueUserCode, IssueEnrollmentCode, Logout, Expire, vars
  <2> QED BY <1>1, <2>1
<1>3. ASSUME NEW h \in Challenges, DeleteCredential(h) PROVE KeyInv'
  <2>1. issuedTo' = issuedTo /\ pc' = pc /\ call' = call /\ creds' = [creds EXCEPT ![h] = None]
    BY <1>3 DEF DeleteCredential
  <2>2. \A g \in Challenges : creds'[g] = None \/ creds'[g] = creds[g]
    BY <2>1 DEF TypeOK
  <2> QED BY <1>1, <2>1, <2>2
<1>4. ASSUME NEW q \in Tabs, RegisterBegin(q) \/ LoginBegin(q) PROVE KeyInv'
  <2>1. creds' = creds /\ pc' = pc /\ call' = call
    BY <1>4 DEF RegisterBegin, LoginBegin
  <2>2. Who # None => Who \in Users
    BY WhoType
  <2>3. issuedTo' = issuedTo \/ \E u \in Users, k \in Kinds : SaveChallenge(u, k)
    BY <1>4, <2>2 DEF RegisterBegin, LoginBegin, Kinds, TypeOK
  <2>4. CASE issuedTo' = issuedTo
    BY <1>1, <2>1, <2>4
  <2> QED BY <2>1, <2>3, <2>4, SaveKeys
<1>5. ASSUME NEW q \in Tabs, issuedTo' = issuedTo, creds' = creds, NEW step \in Steps,
             pc' = [pc EXCEPT ![q] = step],
             \A r \in Tabs \ {q} : call'[r] = call[r],
             \/ step \notin Ceremony
             \/ call' = call /\ pc[q] \in Late
             \/ call' = call /\ pc[q] \in Ceremony /\ step \notin Late
      PROVE  KeyInv'
  BY <1>5, TabKeys
<1>6. ASSUME NEW q \in Tabs,
             \/ VerifyStart(q) \/ VerifyRead(q) \/ VerifyMark(q) \/ VerifyEnroll(q) \/ FailCode(q)
             \/ FailIP(q) \/ Abort(q) \/ CreateSession(q)
      PROVE  KeyInv'
  <2>1. issuedTo' = issuedTo /\ creds' = creds
    BY <1>6 DEF VerifyStart, VerifyRead, VerifyMark, VerifyEnroll, FailCode, FailIP, Abort,
                CreateSession
  <2>2. \E step \in {"read", "mark", "enroll", "failcode", "failip", "idle"} :
          pc' = [pc EXCEPT ![q] = step]
    BY <1>6 DEF VerifyStart, VerifyRead, VerifyMark, VerifyEnroll, FailCode, FailIP, Abort,
                CreateSession, Goto, Done
  <2>3. call' = call \/ \E new : call' = [call EXCEPT ![q] = new]
    BY <1>6 DEF VerifyStart, VerifyRead, VerifyMark, VerifyEnroll, FailCode, FailIP, Abort,
                CreateSession, Done
  <2>4. \A r \in Tabs \ {q} : call'[r] = call[r]
    BY <2>3 DEF TypeOK
  <2>5. \E step \in Steps : pc' = [pc EXCEPT ![q] = step] /\ step \notin Ceremony
    BY <2>2 DEF Steps, Ceremony, Late
  <2> QED BY <1>5, <2>1, <2>4, <2>5
<1>7. ASSUME NEW q \in Tabs, LoadSelect(q) PROVE KeyInv'
  <2>1. issuedTo' = issuedTo /\ creds' = creds /\ pc[q] = "load"
    BY <1>7 DEF LoadSelect
  <2>2. CASE pc' = [pc EXCEPT ![q] = "check"] /\ call' = call
    BY <1>5, <2>1, <2>2 DEF Steps, Ceremony, Late
  <2>3. CASE Done(q)
    <3>1. pc' = [pc EXCEPT ![q] = "idle"] /\ \A r \in Tabs \ {q} : call'[r] = call[r]
      BY <2>3 DEF Done, Goto, TypeOK
    <3> QED BY <1>5, <2>1, <3>1 DEF Steps, Ceremony, Late
  <2> QED BY <1>7, <2>2, <2>3 DEF LoadSelect, Goto
<1>8. ASSUME NEW q \in Tabs,
             LookupEnrollment(q) \/ DeleteAllCredentialsExcept(q) \/ DeleteEnrollmentSession(q)
      PROVE  KeyInv'
  <2>1. issuedTo' = issuedTo /\ call' = call /\ pc[q] \in Late
    BY <1>8 DEF LookupEnrollment, DeleteAllCredentialsExcept, DeleteEnrollmentSession, Late
  <2>2. \A h \in Challenges : creds'[h] = None \/ creds'[h] = creds[h]
    BY <1>8 DEF LookupEnrollment, DeleteAllCredentialsExcept, DeleteEnrollmentSession
  <2>3. \E step \in {"purge", "unenroll", "session"} : pc' = [pc EXCEPT ![q] = step]
    BY <1>8 DEF LookupEnrollment, DeleteAllCredentialsExcept, DeleteEnrollmentSession, Goto
  <2>4. \E step \in Steps : pc' = [pc EXCEPT ![q] = step]
    BY <2>3 DEF Steps
  <2> QED BY <2>1, <2>2, <2>4, TabKeys
<1> QED
  BY <1>2, <1>3, <1>4, <1>6, <1>7, <1>8, FinishKeys, LoadKeys, StoreKeys DEF Next

(* Cookies may change between the halves of a ceremony and a challenge may *)
(* be loaded twice: LoadChallenge and the comparison of its user keep every*)
(* passkey, and every request about to sign in, with the user the challenge*)
(* was made for.                                                           *)
THEOREM AnswersStayFitting == Spec => []AnswersFitChallenges
<1>1. Init => KeyInv
  <2> SUFFICES ASSUME Init PROVE KeyInv
    OBVIOUS
  <2>1. creds = issuedTo
    BY DEF Init, InitEmpty, InitEnrolled, InitSignedIn
  <2>2. \A q \in Tabs : pc[q] = "idle"
    BY DEF Init
  <2> QED BY <2>1, <2>2, KeyUnfold DEF Late, Ceremony
<1>2. TypeOK /\ KeyInv /\ [Next]_vars => KeyInv'
  BY KeyStep
<1>3. KeyInv => AnswersFitChallenges
  BY DEF KeyInv
<1> QED
  BY <1>1, <1>2, <1>3, AccountsTypeCorrect, PTL DEF Spec
=============================================================================

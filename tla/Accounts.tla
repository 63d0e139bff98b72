------------------------------ MODULE Accounts ------------------------------
(***************************************************************************)
(* Users, enrollment codes, passkeys and sessions (internal/auth/service.go,*)
(* handlers/auth.go, users.go, internal/cli/auth.go), as one browser with  *)
(* several tabs sees them: the cookies are shared by the tabs, and each tab *)
(* has one request under way, whose statements interleave with those of    *)
(* the others.  The administrator and the command line are the environment.*)
(*                                                                         *)
(* The passkey a registration creates is identified by the challenge it    *)
(* answers.  Nothing sets users.disabled.  An expired row is never         *)
(* selected again, and so is one that is gone.  Reads that only shape an   *)
(* answer, names, nicknames and the audit records are left out.            *)
(***************************************************************************)
EXTENDS FiniteSets, Integers

CONSTANTS Users, Codes, Tokens, Challenges, Tabs,
          Admin,             \* the user BootstrapAdmin creates
          None,
          MaxCodeAttempts,   \* settings: max_code_attempts
          Scenarios          \* sets of request kinds to consider together

ASSUME AccountsAssumption ==
    /\ Admin \in Users
    /\ None \notin Users \cup Codes \cup Tokens \cup Challenges
    /\ IsFiniteSet(Tabs) /\ Tabs # {}
    /\ MaxCodeAttempts \in Nat \ {0}
    /\ Scenarios \subseteq SUBSET {"guesses", "passkeys", "devices"}

VARIABLES
    env,           \* the scenario, which does not change
    users, boot,   \* the rows of users, and where BootstrapAdmin is
    codes,         \* enrollment_codes: the user, purpose and attempts of each
    used, expired, \* the codes with used_at set, and those past expires_at
    ipAttempts,    \* enrollment_verify_attempts of the browser's address
    ipRecent,      \* its window_start is within the window
    enrolls,       \* enrollment_sessions
    minted,        \* tokens handed out
    enrollCookie,  \* the token the browser holds
    session,       \* the user whose session the browser's cookie names
    challenges,    \* webauthn_challenges
    issuedTo,      \* history: the user a challenge was created for
    creds,         \* webauthn_credentials: the user each belongs to
    pc, call       \* the request of each tab, and its locals

userVars  == <<users, boot>>
codeVars  == <<codes, used, expired, ipAttempts, ipRecent>>
enrolVars == <<enrolls, minted, enrollCookie>>
keyVars   == <<challenges, issuedTo, creds>>
vars == <<env, userVars, codeVars, enrolVars, session, keyVars, pc, call>>

Purposes == {"initial", "device", "recovery"}
Kinds    == {"register", "login"}
NoCall   == [user |-> None, code |-> None, token |-> None, ch |-> None, kind |-> None]

CodeRows  == [user : Users, purpose : Purposes, attempts : Nat]
EnrollRows == [user : Users, purpose : Purposes]
ChallengeRows == [user : Users, kind : Kinds]

ASSUME NoneIsNoRow == None \notin CodeRows /\ None \notin EnrollRows /\ None \notin ChallengeRows

Steps == {"idle", "read", "mark", "enroll", "failcode", "failip", "load",
          "check", "store", "lookup", "purge", "unenroll", "session"}
Calls == [user : Users \cup {None}, code : Codes \cup {None}, token : Tokens \cup {None},
          ch : Challenges \cup {None}, kind : Kinds \cup {None}]

TypeOK ==
    /\ env \in Scenarios
    /\ users \subseteq Users /\ boot \in {"idle", "create", "code"}
    /\ codes \in [Codes -> CodeRows \cup {None}]
    /\ used \subseteq Codes /\ expired \subseteq Codes
    /\ ipAttempts \in Nat /\ ipRecent \in BOOLEAN
    /\ enrolls \in [Tokens -> EnrollRows \cup {None}]
    /\ minted \subseteq Tokens
    /\ enrollCookie \in Tokens \cup {None}
    /\ session \in Users \cup {None}
    /\ challenges \in [Challenges -> ChallengeRows \cup {None}]
    /\ issuedTo \in [Challenges -> Users \cup {None}]
    /\ creds \in [Challenges -> Users \cup {None}]
    /\ pc \in [Tabs -> Steps] /\ call \in [Tabs -> Calls]

(* An empty database; or one in which a user has just exchanged the code   *)
(* k came from for an enrollment session; or one in which a user with a    *)
(* passkey is signed in (the used code behind it is never looked at again  *)
(* and left out).                                                          *)
InitEmpty ==
    /\ env = {"guesses"}
    /\ users = {}
    /\ codes = [c \in Codes |-> None] /\ used = {}
    /\ enrolls = [k \in Tokens |-> None] /\ minted = {} /\ enrollCookie = None
    /\ session = None
    /\ issuedTo = [h \in Challenges |-> None] /\ creds = issuedTo

InitEnrolled ==
    /\ env = {"passkeys"}
    /\ users = Users
    /\ \E u \in Users, p \in Purposes, k \in Tokens :
        /\ codes = [c \in Codes |-> [user |-> u, purpose |-> p, attempts |-> 1]]
        /\ used = Codes
        /\ enrolls = [t \in Tokens |-> IF t = k THEN [user |-> u, purpose |-> p] ELSE None]
        /\ minted = {k} /\ enrollCookie = k
    /\ session = None
    /\ issuedTo = [h \in Challenges |-> None] /\ creds = issuedTo

InitSignedIn ==
    /\ env = {"guesses", "devices"}
    /\ users = Users
    /\ codes = [c \in Codes |-> None] /\ used = {}
    /\ enrolls = [k \in Tokens |-> None] /\ minted = {} /\ enrollCookie = None
    /\ session \in Users
    /\ \E h \in Challenges : issuedTo = [x \in Challenges |-> IF x = h THEN session ELSE None]
    /\ creds = issuedTo

Init ==
    /\ env \in Scenarios
    /\ InitEmpty \/ InitEnrolled \/ InitSignedIn
    /\ boot = "idle" /\ expired = {} /\ ipAttempts = 0 /\ ipRecent = FALSE
    /\ challenges = [h \in Challenges |-> None]
    /\ pc = [q \in Tabs |-> "idle"] /\ call = [q \in Tabs |-> NoCall]

Goto(q, step) == pc' = [pc EXCEPT ![q] = step]
Done(q) == Goto(q, "idle") /\ call' = [call EXCEPT ![q] = NoCall]

CredsOf(u) == {h \in Challenges : creds[h] = u}

-----------------------------------------------------------------------------
(* Users and codes.  BootstrapAdmin counts, creates and issues, one        *)
(* statement after the other.                                              *)
IssueEnrollmentCode(u, purpose) ==
    \E c \in Codes :
        /\ codes[c] = None
        /\ codes' = [codes EXCEPT ![c] =
               [user |-> u, purpose |-> purpose, attempts |-> 0]]
        /\ UNCHANGED <<env, used, expired, ipAttempts, ipRecent, enrolVars, session, keyVars, pc, call>>

BootstrapCount ==
    /\ boot = "idle" /\ users = {}
    /\ boot' = "create"
    /\ UNCHANGED <<env, users, codeVars, enrolVars, session, keyVars, pc, call>>

BootstrapCreate ==
    /\ boot = "create" /\ Admin \notin users
    /\ users' = users \cup {Admin}
    /\ boot' = "code"
    /\ UNCHANGED <<env, codeVars, enrolVars, session, keyVars, pc, call>>

BootstrapCode ==
    /\ boot = "code"
    /\ boot' = "idle"
    /\ IssueEnrollmentCode(Admin, "initial")
    /\ UNCHANGED users

CreateUser(u) ==
    /\ u \notin users /\ u # Admin
    /\ users' = users \cup {u}
    /\ UNCHANGED <<env, boot, codeVars, enrolVars, session, keyVars, pc, call>>

(* issueUserCode, whose purpose the administrator chooses.                 *)
IssueUserCode(u) ==
    /\ u \in users
    /\ \E p \in {"initial", "recovery"} : IssueEnrollmentCode(u, p)
    /\ UNCHANGED userVars

(* issue-admin-code, of the command line and of the handler.               *)
IssueAdminCode ==
    /\ Admin \in users
    /\ IssueEnrollmentCode(Admin, "recovery")
    /\ UNCHANGED userVars

IssueDeviceCode ==
    /\ session # None
    /\ IssueEnrollmentCode(session, "device")
    /\ UNCHANGED userVars

-----------------------------------------------------------------------------
(* enrollVerify of a code, or of one that does not exist (None): first the *)
(* limit on the address ...                                                *)
(* Variant: one wrong code too many.                                       *)
IPLimitedLater == ipAttempts > MaxCodeAttempts /\ ipRecent

IPLimited == ipAttempts >= MaxCodeAttempts /\ ipRecent

VerifyStart(q) ==
    /\ "guesses" \in env
    /\ pc[q] = "idle"
    /\ ~IPLimited
    /\ \E c \in Codes \cup {None} : call' = [call EXCEPT ![q].code = c]
    /\ Goto(q, "read")
    /\ UNCHANGED <<env, userVars, codeVars, enrolVars, session, keyVars>>

Row(q) == codes[call[q].code]
Found(q) == call[q].code # None /\ Row(q) # None
Spent(q) == call[q].code \in used \cup expired

(* ... then the row: a code that was used or has expired counts against    *)
(* itself and the address, one that is not there against the address.  One *)
(* that was counted against too often in the time since it was issued is   *)
(* refused; LiveCodesUncounted says that there is none.                    *)
VerifyRead(q) ==
    /\ pc[q] = "read"
    /\ CASE ~Found(q) -> Goto(q, "failip") /\ UNCHANGED call
         [] Found(q) /\ Spent(q) -> Goto(q, "failcode") /\ UNCHANGED call
         [] OTHER -> \/ Goto(q, "mark") /\ UNCHANGED call
                     \/ Row(q).attempts >= MaxCodeAttempts /\ Done(q)
    /\ UNCHANGED <<env, userVars, codeVars, enrolVars, session, keyVars>>

(* Variant: the attempt is counted, the use is not recorded.               *)
VerifyMarkNotUsed(q) ==
    /\ pc[q] = "mark"
    /\ codes' = [codes EXCEPT ![call[q].code].attempts = @ + 1]
    /\ Goto(q, "enroll")
    /\ UNCHANGED <<env, userVars, used, expired, ipAttempts, ipRecent, enrolVars, session,
                   keyVars, call>>

(* UPDATE ... WHERE used_at IS NULL, whose count of rows is not looked at. *)
VerifyMark(q) ==
    /\ pc[q] = "mark"
    /\ used' = used \cup {call[q].code}
    /\ codes' = IF call[q].code \in used THEN codes
                ELSE [codes EXCEPT ![call[q].code].attempts = @ + 1]
    /\ Goto(q, "enroll")
    /\ UNCHANGED <<env, userVars, expired, ipAttempts, ipRecent, enrolVars, session, keyVars, call>>

(* CreateEnrollmentSession, and the cookie of the answer.                  *)
Enroll(u, purpose) ==
    \E k \in Tokens \ minted :
        /\ enrolls' = [enrolls EXCEPT ![k] = [user |-> u, purpose |-> purpose]]
        /\ minted' = minted \cup {k}
        /\ enrollCookie' = k

VerifyEnroll(q) ==
    /\ pc[q] = "enroll"
    /\ Enroll(Row(q).user, Row(q).purpose)
    /\ Done(q)
    /\ UNCHANGED <<env, userVars, codeVars, session, keyVars>>

(* recordFailedAttempt, whose error is dropped.  Bound: attempts beyond    *)
(* MaxCodeAttempts are not told apart.                                     *)
FailCode(q) ==
    /\ pc[q] = "failcode"
    /\ \/ /\ Row(q).attempts <= MaxCodeAttempts
          /\ codes' = [codes EXCEPT ![call[q].code].attempts = @ + 1]
       \/ UNCHANGED codes
    /\ Goto(q, "failip")
    /\ UNCHANGED <<env, userVars, used, expired, ipAttempts, ipRecent, enrolVars, session,
                   keyVars, call>>

FailIP(q) ==
    /\ pc[q] = "failip"
    /\ ipAttempts' = IF ipRecent THEN ipAttempts + 1 ELSE 1
    /\ ipRecent' = TRUE
    /\ Done(q)
    /\ UNCHANGED <<env, userVars, codes, used, expired, enrolVars, session, keyVars>>

-----------------------------------------------------------------------------
(* enrollOrSessionUserID.                                                  *)
Who == IF enrollCookie # None /\ enrolls[enrollCookie] # None THEN enrolls[enrollCookie].user
       ELSE session

SaveChallenge(u, kind) ==
    \E h \in Challenges :
        /\ issuedTo[h] = None
        /\ challenges' = [challenges EXCEPT ![h] = [user |-> u, kind |-> kind]]
        /\ issuedTo' = [issuedTo EXCEPT ![h] = u]

RegisterBegin(q) ==
    /\ "passkeys" \in env
    /\ pc[q] = "idle"
    /\ Who # None
    /\ SaveChallenge(Who, "register")
    /\ UNCHANGED <<env, userVars, codeVars, enrolVars, session, creds, pc, call>>

(* A user without a passkey is sent to enrollment.                         *)
LoginBegin(q) ==
    /\ "passkeys" \in env
    /\ pc[q] = "idle"
    /\ \E u \in IF Who # None THEN {Who} ELSE users :
        \/ /\ CredsOf(u) = {}
           /\ Enroll(u, "initial")
           /\ UNCHANGED keyVars
        \/ /\ CredsOf(u) # {}
           /\ SaveChallenge(u, "login")
           /\ UNCHANGED <<creds, enrolVars>>
    /\ UNCHANGED <<env, userVars, codeVars, session, pc, call>>

(* The two finishing requests name a challenge the page was given, again   *)
(* perhaps; the cookies are those of this moment.                          *)
RegisterFinish(q) ==
    /\ pc[q] = "idle"
    /\ Who # None
    /\ \E h \in {x \in Challenges : issuedTo[x] # None} :
        call' = [call EXCEPT ![q] = [NoCall EXCEPT !.user = Who, !.token = enrollCookie,
                                                   !.ch = h, !.kind = "register"]]
    /\ Goto(q, "load")
    /\ UNCHANGED <<env, userVars, codeVars, enrolVars, session, keyVars>>

LoginFinish(q) ==
    /\ pc[q] = "idle"
    /\ \E h \in {x \in Challenges : issuedTo[x] # None}, u \in users :
        call' = [call EXCEPT ![q] = [NoCall EXCEPT !.user = u, !.ch = h, !.kind = "login"]]
    /\ Goto(q, "load")
    /\ UNCHANGED <<env, userVars, codeVars, enrolVars, session, keyVars>>

(* LoadChallenge selects ...                                               *)
LoadSelect(q) ==
    /\ pc[q] = "load"
    /\ IF challenges[call[q].ch] # None /\ challenges[call[q].ch].kind = call[q].kind
       THEN Goto(q, "check") /\ UNCHANGED call
       ELSE Done(q)
    /\ UNCHANGED <<env, userVars, codeVars, enrolVars, session, keyVars>>

(* Variant: the user of the challenge is not compared.                     *)
VerifiedAnybody(q) ==
    call[q].kind = "login" => CredsOf(call[q].user) # {}

(* The answer to a login is signed by a passkey of the user's list.        *)
Verified(q) ==
    /\ call[q].user = issuedTo[call[q].ch]
    /\ call[q].kind = "login" => CredsOf(call[q].user) # {}

(* ... and deletes, whatever comes of it; then the user must be the one    *)
(* the challenge was made for, and the authenticator's answer must verify. *)
LoadDelete(q) ==
    /\ pc[q] = "check"
    /\ \/ challenges' = [challenges EXCEPT ![call[q].ch] = None]
       \/ UNCHANGED challenges
    /\ \/ Verified(q) /\ Goto(q, IF call[q].kind = "login" THEN "session" ELSE "store")
                      /\ UNCHANGED call
       \/ Done(q)
    /\ UNCHANGED <<env, userVars, codeVars, enrolVars, session, issuedTo, creds>>

(* ON CONFLICT the row keeps its user.                                     *)
StoreCredential(q) ==
    /\ pc[q] = "store"
    /\ creds' = [creds EXCEPT ![call[q].ch] = IF @ = None THEN call[q].user ELSE @]
    /\ Goto(q, IF call[q].token = None THEN "session" ELSE "lookup")
    /\ UNCHANGED <<env, userVars, codeVars, enrolVars, session, challenges, issuedTo, call>>

(* The enrollment session of the request, read a second time: a recovery   *)
(* replaces the other passkeys.                                            *)
LookupEnrollment(q) ==
    /\ pc[q] = "lookup"
    /\ LET row == enrolls[call[q].token] IN
       Goto(q, IF row # None /\ row.purpose = "recovery" THEN "purge" ELSE "unenroll")
    /\ UNCHANGED <<env, userVars, codeVars, enrolVars, session, keyVars, call>>

DeleteAllCredentialsExcept(q) ==
    /\ pc[q] = "purge"
    /\ \/ creds' = [h \in Challenges |->
              IF creds[h] = call[q].user /\ h # call[q].ch THEN None ELSE creds[h]]
       \/ UNCHANGED creds
    /\ Goto(q, "unenroll")
    /\ UNCHANGED <<env, userVars, codeVars, enrolVars, session, challenges, issuedTo, call>>

DeleteEnrollmentSession(q) ==
    /\ pc[q] = "unenroll"
    /\ \/ enrolls' = [enrolls EXCEPT ![call[q].token] = None]
       \/ UNCHANGED enrolls
    /\ Goto(q, "session")
    /\ UNCHANGED <<env, userVars, codeVars, minted, enrollCookie, session, keyVars, call>>

(* CreateSession, and the cookies of the answer.                           *)
CreateSession(q) ==
    /\ pc[q] = "session"
    /\ session' = call[q].user
    /\ enrollCookie' = IF call[q].token # None THEN None ELSE enrollCookie
    /\ Done(q)
    /\ UNCHANGED <<env, userVars, codeVars, enrolls, minted, keyVars>>

Logout ==
    /\ session # None
    /\ session' = None
    /\ UNCHANGED <<env, userVars, codeVars, enrolVars, keyVars, pc, call>>

DeleteCredential(h) ==
    /\ creds[h] # None
    /\ creds' = [creds EXCEPT ![h] = None]
    /\ UNCHANGED <<env, userVars, codeVars, enrolVars, session, challenges, issuedTo, pc, call>>

-----------------------------------------------------------------------------
(* A statement that fails ends the request, except those marked above; the *)
(* enrollment cookie is cleared by any answer after it was used.           *)
Abort(q) ==
    /\ pc[q] \in {"read", "mark", "enroll", "failip", "load", "store", "session"}
    /\ enrollCookie' = IF pc[q] = "session" /\ call[q].token # None THEN None ELSE enrollCookie
    /\ Done(q)
    /\ UNCHANGED <<env, userVars, codeVars, enrolls, minted, session, keyVars>>

(* Time passes.                                                            *)
Expire ==
    /\ \/ \E c \in Codes : /\ "guesses" \in env /\ codes[c] # None /\ c \notin expired
                           /\ expired' = expired \cup {c}
                           /\ UNCHANGED <<ipRecent, enrolls, challenges, session>>
       \/ /\ ipRecent /\ ipRecent' = FALSE
          /\ UNCHANGED <<expired, enrolls, challenges, session>>
       \/ \E k \in Tokens : /\ enrolls[k] # None
                            /\ enrolls' = [enrolls EXCEPT ![k] = None]
                            /\ UNCHANGED <<expired, ipRecent, challenges, session>>
       \/ \E h \in Challenges : /\ challenges[h] # None
                                /\ challenges' = [challenges EXCEPT ![h] = None]
                                /\ UNCHANGED <<expired, ipRecent, enrolls, session>>
       \/ /\ session # None /\ session' = None
          /\ UNCHANGED <<expired, ipRecent, enrolls, challenges>>
    /\ UNCHANGED <<env, userVars, codes, used, ipAttempts, minted, enrollCookie, issuedTo, creds, pc, call>>

Next ==
    \/ BootstrapCount \/ BootstrapCreate \/ BootstrapCode
    \/ \E u \in Users : CreateUser(u) \/ IssueUserCode(u)
    \/ IssueAdminCode \/ IssueDeviceCode
    \/ \E q \in Tabs : VerifyStart(q) \/ VerifyRead(q) \/ VerifyMark(q) \/ VerifyEnroll(q)
    \/ \E q \in Tabs : FailCode(q) \/ FailIP(q) \/ Abort(q)
    \/ \E q \in Tabs : RegisterBegin(q) \/ LoginBegin(q) \/ RegisterFinish(q) \/ LoginFinish(q)
    \/ \E q \in Tabs : LoadSelect(q) \/ LoadDelete(q) \/ StoreCredential(q)
    \/ \E q \in Tabs : LookupEnrollment(q) \/ DeleteAllCredentialsExcept(q)
    \/ \E q \in Tabs : DeleteEnrollmentSession(q) \/ CreateSession(q)
    \/ Logout
    \/ \E h \in Challenges : DeleteCredential(h)
    \/ Expire

Spec == Init /\ [][Next]_vars

-----------------------------------------------------------------------------
(* The limit on wrong codes is read in one statement and counted in        *)
(* another, with the window ending in between: however the tabs interleave,*)
(* they exceed it by no more than the requests that were under way.        *)
GuessesBounded == ipAttempts < MaxCodeAttempts + Cardinality(Tabs)

(* A code that can still be used has never been counted against: wrong     *)
(* guesses and late retries do not use up the code of somebody else.       *)
LiveCodesUncounted ==
    \A c \in Codes :
        codes[c] # None /\ codes[c].attempts > 0 => c \in used \cup expired

(* Cookies change between the two halves of a ceremony, and challenges are *)
(* loaded more than once: still every passkey belongs to the user its      *)
(* challenge was made for, and so does every request about to sign in.     *)
AnswersFitChallenges ==
    /\ \A h \in Challenges : creds[h] # None => creds[h] = issuedTo[h]
    /\ \A q \in Tabs : pc[q] \in {"store", "lookup", "purge", "unenroll", "session"} =>
           call[q].user = issuedTo[call[q].ch]
=============================================================================

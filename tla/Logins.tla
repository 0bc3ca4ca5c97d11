------------------------------- MODULE Logins -------------------------------
(***************************************************************************)
(* Accounts of one organisation and the ways into them: the social-auth    *)
(* pipeline (src/voteit/organisation/pipeline.py, in the order of          *)
(* project/settings.py), the matching of a login to an account that        *)
(* exists (matching.py), terms of service (utils.py), connecting and       *)
(* removing login methods, switching between and merging accounts          *)
(* (src/voteit/core/rest_api/views.py, core/user_merger.py).               *)
(*                                                                         *)
(* A login request has two parts that other requests may come between:     *)
(* resolving the account, up to require_tos_accept, and finishing, from    *)
(* create_user on.  It may also be paused, and resumed by another request. *)
(* All accounts have the same verified address, the worst case for the     *)
(* matcher.  People use their own credentials and answer truthfully.       *)
(***************************************************************************)
EXTENDS Integers, FiniteSets

CONSTANTS
    People,      \* also their uid at every provider
    Accounts,
    Browsers,
    MayUse,      \* pairs of a browser and a person who may sit down at it
    IdProxy,     \* the provider that owns identity_id
    Providers,
    MaxVersion,  \* bound on the versions of the terms
    MaxLogins,   \* bound on the logins begun
    MaxOthers    \* bound on the other requests

ASSUME MayUseAssumption == MayUse \subseteq Browsers \X People
ASSUME ProvidersAssumption == IdProxy \in Providers
ASSUME BoundsAssumption == MaxVersion \in Nat /\ MaxLogins \in Nat /\ MaxOthers \in Nat

VARIABLES
    owner,     \* whose an account is; Nobody for an account that does not exist
    acc,       \* the row of each account
    cred,      \* UserSocialAuth: the account a person's credential reaches
    session,   \* the account each browser is signed in to
    intent,    \* voteit_connect_intent of each browser's session
    flight,    \* the login each browser has under way or paused
    tos,       \* newest version of the terms in effect
    at,        \* who signed in last in each browser
    logins, others,  \* requests made so far
    overlap    \* has a person had logins under way in two browsers at a time

loginVars == <<owner, acc, cred, session, intent, flight, tos, at, overlap, logins, others>>

Nobody == "nobody"
NoAccount == "no account"
NoProvider == "no provider"
ASSUME NonesAssumption == Nobody \notin People /\ NoAccount \notin Accounts /\ NoProvider \notin Providers

Versions == 0..MaxVersion

\* Fields of a user row and of its related rows that logins look at: name is
\* the person's as the provider spells it, or another spelling.
UserRows == [active : BOOLEAN, identity : People \cup {Nobody}, name : People \cup {Nobody},
             used : BOOLEAN, elevated : BOOLEAN, accepted : Versions]

NoLogin == [step |-> "none"]
Logins == [step : {"match", "tos", "finish"}, provider : Providers, person : People,
           user : Accounts \cup {NoAccount}, matched : BOOLEAN, agreed : BOOLEAN,
           version : Versions]

LoginTypeOK ==
    /\ owner \in [Accounts -> People \cup {Nobody}]
    /\ acc \in [Accounts -> UserRows]
    /\ cred \in [Providers -> [People -> Accounts \cup {NoAccount}]]
    /\ session \in [Browsers -> Accounts \cup {NoAccount}]
    /\ intent \in [Browsers -> Providers \cup {NoProvider}]
    /\ flight \in [Browsers -> Logins \cup {NoLogin}]
    /\ tos \in Versions
    /\ at \in [Browsers -> People \cup {Nobody}]
    /\ overlap \in BOOLEAN
    /\ logins \in 0..MaxLogins /\ others \in 0..MaxOthers

Exists(a) == owner[a] # Nobody

NewRow == [active |-> TRUE, identity |-> Nobody, name |-> Nobody, used |-> FALSE,
           elevated |-> FALSE, accepted |-> 0]

\* Accounts from before: of any person, with any row that person may have, and
\* a credential of the id proxy or none.
LoginInit ==
    /\ tos = 0
    /\ \E old \in SUBSET Accounts :
         /\ Cardinality(old) < Cardinality(Accounts)
         /\ owner \in {f \in [Accounts -> People \cup {Nobody}] :
                         \A a \in Accounts : (f[a] = Nobody) <=> (a \notin old)}
         /\ acc \in {f \in [Accounts -> {r \in UserRows : r.accepted = 0}] :
                       \A a \in Accounts :
                         /\ a \notin old => f[a] = NewRow
                         /\ f[a].identity \in {Nobody, owner[a]}
                         /\ f[a].name \in {Nobody, owner[a]}}
         /\ \A a, b \in old : (a # b /\ acc[a].identity = acc[b].identity
                                /\ acc[a].active /\ acc[b].active) => acc[a].identity = Nobody
    /\ cred \in {f \in [Providers -> [People -> Accounts \cup {NoAccount}]] :
                   \A pr \in Providers, p \in People :
                     /\ f[pr][p] # NoAccount => pr = IdProxy /\ owner[f[pr][p]] = p
                     /\ f[pr][p] # NoAccount => acc[f[pr][p]].identity = p}
    /\ session = [b \in Browsers |-> NoAccount]
    /\ intent = [b \in Browsers |-> NoProvider]
    /\ flight = [b \in Browsers |-> NoLogin]
    /\ at = [b \in Browsers |-> Nobody]
    /\ overlap = FALSE
    /\ logins = 0 /\ others = 0

-----------------------------------------------------------------------------
(* The pipeline's steps, as functions of what they read *)

\* request.user of a browser: a session of an inactive account is anonymous.
SignedIn(b) ==
    IF session[b] # NoAccount /\ acc[session[b]].active THEN session[b] ELSE NoAccount

\* Active accounts of the organisation that hold this identity.
Holders(p) == {a \in Accounts : Exists(a) /\ acc[a].active /\ acc[a].identity = p}

\* The account social_user prefers among them: one that has been used.
Preferred(p) ==
    LET used == {a \in Holders(p) : acc[a].used}
    IN  IF used # {} THEN used ELSE Holders(p)

\* _reaches_other_account.
ReachesOther(pr, p, u) ==
    LET social == cred[pr][p]
        other == Holders(p) \ {u}
    IN  IF pr = IdProxy
        THEN /\ acc[u].identity # p
             /\ IF social = NoAccount \/ ~acc[social].active
                THEN other # {} \/ (social # NoAccount /\ social # u)
                ELSE social # u
        ELSE social # NoAccount /\ social # u

\* Mutant of SessionUser: a signed-in account takes on any new login method.
SessionUserKept(b, p, pr) == SignedIn(b)

\* require_connect_intent: the session's user, unless the credential is new
\* and nobody asked to connect it.
SessionUser(b, p, pr) ==
    IF SignedIn(b) # NoAccount /\ intent[b] # pr /\ cred[pr][p] = NoAccount
    THEN NoAccount ELSE SignedIn(b)

Refused(b, p, pr) ==
    SignedIn(b) # NoAccount /\ intent[b] = pr /\ ReachesOther(pr, p, SignedIn(b))

\* Move the credentials of one provider, or of all, to another account.
Transfer(c, from, to, providers) ==
    [pr \in Providers |-> [p \in People |->
        IF pr \in providers /\ c[pr][p] = from THEN to ELSE c[pr][p]]]

\* What social_user may resolve to: the account, the credentials afterwards and
\* whether the session is given to that account at once (_reauth_user).
Resolution(user, creds, reauth) == [user |-> user, cred |-> creds, reauth |-> reauth]

\* social_user.
SocialUser(b, p, pr) ==
    LET social == cred[pr][p]
        u == SessionUser(b, p, pr)
        moved(a) == [cred EXCEPT ![pr][p] = a]
        \* the owner is inactive: prefer an active holder of the identity
        settle(a, c) ==
            IF acc[a].active \/ Holders(p) = {} THEN {Resolution(a, c, FALSE)}
            ELSE {Resolution(h, Transfer([c EXCEPT ![pr][p] = h], a, h, {pr}), FALSE)
                    : h \in Holders(p)}
    IN  IF pr # IdProxy
        THEN IF social = NoAccount THEN {Resolution(u, cred, FALSE)}
             ELSE {Resolution(social, cred, u # NoAccount /\ u # social)}
        ELSE IF social # NoAccount
        THEN IF u = NoAccount THEN settle(social, cred)
             ELSE IF u = social THEN settle(u, cred)
             ELSE IF acc[u].identity = p THEN settle(u, moved(u))
             ELSE {Resolution(social, cred, TRUE)}
        ELSE IF Holders(p) = {} THEN {Resolution(u, cred, FALSE)}
        ELSE {Resolution(h, IF u # NoAccount /\ u # h THEN Transfer(cred, u, h, {pr}) ELSE cred,
                         u # h) : h \in Preferred(p)}

\* find_candidates: active accounts on the address that have no credential of
\* this provider.
Candidates(pr) ==
    {a \in Accounts : Exists(a) /\ acc[a].active /\ \A p \in People : cred[pr][p] # a}

\* names_match and is_elevated.
NameMatches(a, p) == acc[a].name = p
Offered(pr) == {a \in Candidates(pr) : ~acc[a].elevated}
Exact(p, pr) == {a \in Candidates(pr) : NameMatches(a, p)}

\* match_existing_user for a login nothing else has resolved: refuse, go on
\* without an account or with one, or ask.
Match(p, pr, answer) ==
    LET to(step, a, m) == [to |-> step, user |-> a, matched |-> m]
        exact == Exact(p, pr)
    IN
    IF Candidates(pr) = {} THEN to("on", NoAccount, FALSE)
    ELSE IF \E a \in exact : acc[a].elevated THEN to("refuse", NoAccount, FALSE)
    ELSE IF Cardinality(exact) = 1 /\ \A a \in exact : acc[a].used
    THEN to("on", CHOOSE a \in exact : TRUE, TRUE)
    ELSE IF Offered(pr) = {} \/ answer = "new" THEN to("on", NoAccount, FALSE)
    ELSE IF answer \in Offered(pr) THEN to("on", answer, TRUE)
    ELSE to("ask", NoAccount, FALSE)

\* What a person answers truthfully: an account of theirs, or a new one.
Answers(p) == {a \in Accounts : owner[a] = p} \cup {"new"}

\* get_current_tos(...).must_accept: nothing to accept before the first version.
MustAccept(a) == tos > 0 /\ (a = NoAccount \/ acc[a].accepted < tos)

-----------------------------------------------------------------------------
(* Logging in *)

\* require_tos_accept: go on, or pause showing the version in effect.
CheckTerms(login, shown) ==
    IF MustAccept(login.user) /\ shown < tos
    THEN [login EXCEPT !.step = "tos", !.version = tos]
    ELSE [login EXCEPT !.step = "finish", !.agreed = MustAccept(login.user), !.version = tos]

\* The flight record after match_existing_user and require_tos_accept.
Pursue(b, login, answer) ==
    LET found == Match(login.person, login.provider, answer)
        resolved == [login EXCEPT !.user = found.user, !.matched = found.matched]
    IN  CASE login.user # NoAccount -> flight' = [flight EXCEPT ![b] = CheckTerms(login, 0)]
          [] login.user = NoAccount /\ found.to = "refuse" -> flight' = [flight EXCEPT ![b] = NoLogin]
          [] login.user = NoAccount /\ found.to = "ask" -> flight' = [flight EXCEPT ![b] = [login EXCEPT !.step = "match"]]
          [] OTHER -> flight' = [flight EXCEPT ![b] = CheckTerms(resolved, 0)]

NewLogin(p, pr, user) ==
    [step |-> "match", provider |-> pr, person |-> p, user |-> user, matched |-> FALSE,
     agreed |-> FALSE, version |-> tos]

\* A person comes back from a provider: the pipeline up to its first pause, or
\* to create_user.  A browser with an open connect is that person's.
Begin(b, p, pr) ==
    /\ <<b, p>> \in MayUse /\ flight[b] = NoLogin
    /\ intent[b] # NoProvider => owner[session[b]] = p
    /\ intent' = [intent EXCEPT ![b] = NoProvider]
    /\ IF Refused(b, p, pr) THEN UNCHANGED <<cred, session, at, acc, flight>>
       ELSE \E r \in SocialUser(b, p, pr) :
              /\ cred' = r.cred
              /\ IF r.reauth
                 THEN /\ session' = [session EXCEPT ![b] = r.user]
                      /\ at' = [at EXCEPT ![b] = p]
                      /\ acc' = [acc EXCEPT ![r.user].used = TRUE]
                 ELSE UNCHANGED <<session, at, acc>>
              /\ Pursue(b, NewLogin(p, pr, r.user), NoAccount)
    /\ overlap' = (overlap \/ \E c \in Browsers : flight[c] # NoLogin /\ flight[c].person = p)
    /\ logins < MaxLogins /\ logins' = logins + 1
    /\ UNCHANGED <<owner, tos, others>>

\* The person answers which account is theirs; the choices are looked up anew.
ResumeMatch(b) ==
    /\ flight[b].step = "match"
    /\ \E answer \in Answers(flight[b].person) : Pursue(b, flight[b], answer)
    /\ UNCHANGED <<owner, acc, cred, session, intent, tos, at, overlap, logins, others>>

\* The person accepts the version that was shown.
ResumeTos(b) ==
    /\ flight[b].step = "tos"
    /\ flight' = [flight EXCEPT ![b] = CheckTerms(flight[b], flight[b].version)]
    /\ UNCHANGED <<owner, acc, cred, session, intent, tos, at, overlap, logins, others>>

\* Mutant of StoreAccept: the accept is stored only for a new account.
StoreAcceptOfNew(login, row) == IF login.agreed /\ login.user = NoAccount THEN tos ELSE row.accepted

\* store_tos_accept: the time of the accept is that of storing it.
StoreAccept(login, row) == IF login.agreed THEN tos ELSE row.accepted

\* create_user, for a login without an account.
Created(login) ==
    [NewRow EXCEPT !.identity = IF login.provider = IdProxy THEN login.person ELSE Nobody,
                   !.name = login.person]

\* inherit_users and store_tos_accept, and login() for an active account.
Finished(login, row) ==
    [row EXCEPT !.identity = IF login.provider = IdProxy THEN login.person ELSE @,
                !.accepted = StoreAccept(login, row),
                !.used = @ \/ row.active]

\* From create_user to the end.  associate_user fails when another request has
\* given the credential to another account; a created account then stays.
Finish(b) ==
    LET login == flight[b]
        p == login.person
        social == cred[login.provider][p]
    IN
    /\ login.step = "finish"
    /\ \E a \in Accounts :
         /\ IF login.user = NoAccount THEN ~Exists(a) ELSE a = login.user
         /\ owner' = IF Exists(a) THEN owner ELSE [owner EXCEPT ![a] = p]
         /\ LET row == IF Exists(a) THEN acc[a] ELSE Created(login)
                failed == social \notin {NoAccount, a}
            IN  /\ acc' = [acc EXCEPT ![a] = IF failed THEN row ELSE Finished(login, row)]
                /\ cred' = IF failed THEN cred ELSE [cred EXCEPT ![login.provider][p] = a]
                /\ IF failed \/ ~row.active THEN UNCHANGED <<session, at>>
                   ELSE /\ session' = [session EXCEPT ![b] = a]
                        /\ at' = [at EXCEPT ![b] = p]
    /\ flight' = [flight EXCEPT ![b] = NoLogin]
    /\ intent' = [intent EXCEPT ![b] = NoProvider]
    /\ UNCHANGED <<tos, overlap, logins, others>>

\* cleanup_social_auth_leftovers: a paused login nobody came back for.
CleanupPartial(b) ==
    /\ flight[b].step \in {"match", "tos"}
    /\ flight' = [flight EXCEPT ![b] = NoLogin]
    /\ UNCHANGED <<owner, acc, cred, session, intent, tos, at, overlap, logins, others>>

-----------------------------------------------------------------------------
(* Other requests *)

Other == others < MaxOthers /\ others' = others + 1

\* UserView.connect: the owner asks to attach a login method.
Connect(b, pr) ==
    /\ SignedIn(b) # NoAccount /\ owner[session[b]] = at[b] /\ flight[b] = NoLogin
    /\ intent' = [intent EXCEPT ![b] = pr]
    /\ UNCHANGED <<owner, acc, cred, session, flight, tos, at, overlap, logins>>
    /\ Other

\* UserView.disconnect: remove the account's credentials of one provider.
DisconnectLogin(b, pr) ==
    /\ SignedIn(b) # NoAccount
    /\ cred' = Transfer(cred, session[b], NoAccount, {pr})
    /\ UNCHANGED <<owner, acc, session, intent, flight, tos, at, overlap, logins>>
    /\ Other

\* UserView.get_queryset: the other accounts that are the same person.
Switchable(b) ==
    IF acc[session[b]].identity = Nobody THEN {}
    ELSE Holders(acc[session[b]].identity)

\* UserView.switch: every credential follows.
Switch(b) ==
    /\ SignedIn(b) # NoAccount
    /\ \E a \in Switchable(b) \ {session[b]} :
         /\ cred' = Transfer(cred, session[b], a, Providers)
         /\ session' = [session EXCEPT ![b] = a]
         /\ acc' = [acc EXCEPT ![a].used = TRUE]
    /\ intent' = [intent EXCEPT ![b] = NoProvider]
    /\ UNCHANGED <<owner, flight, tos, at, overlap, logins>>
    /\ Other

\* UserView.logout.
Logout(b) ==
    /\ session[b] # NoAccount
    /\ session' = [session EXCEPT ![b] = NoAccount]
    /\ intent' = [intent EXCEPT ![b] = NoProvider]
    /\ at' = [at EXCEPT ![b] = Nobody]
    /\ UNCHANGED <<owner, acc, cred, flight, tos, overlap, logins>>
    /\ Other

\* TermsOfServiceViewSet.accept, with the version in effect.
AcceptTos(b) ==
    /\ SignedIn(b) # NoAccount
    /\ acc' = [acc EXCEPT ![session[b]].accepted = tos]
    /\ UNCHANGED <<owner, cred, session, intent, flight, tos, at, overlap, logins>>
    /\ Other

\* OrganisationRolesViewSet.add_roles and remove_roles.
SetElevated(a, elevated) ==
    /\ Exists(a) /\ acc[a].elevated # elevated
    /\ acc' = [acc EXCEPT ![a].elevated = elevated]
    /\ UNCHANGED <<owner, cred, session, intent, flight, tos, at, overlap, logins>>
    /\ Other

\* UserMerger.run: credentials and roles of the source go to the target of the
\* same identity, and the source is deactivated.
Merge(source, target) ==
    /\ source # target /\ Exists(source) /\ Exists(target)
    /\ acc[source].identity # Nobody /\ acc[source].identity = acc[target].identity
    /\ cred' = Transfer(cred, source, target, Providers)
    /\ acc' = [acc EXCEPT ![target].elevated = @ \/ acc[source].elevated,
                          ![source].elevated = FALSE,
                          ![source].active = FALSE]
    /\ UNCHANGED <<owner, session, intent, flight, tos, at, overlap, logins>>
    /\ Other

\* A version of the terms, global or of the organisation, takes effect.
NewTos ==
    /\ tos < MaxVersion
    /\ tos' = tos + 1
    /\ UNCHANGED <<owner, acc, cred, session, intent, flight, at, overlap, logins>>
    /\ Other

LoginNext ==
    \/ \E b \in Browsers, p \in People, pr \in Providers : Begin(b, p, pr)
    \/ \E b \in Browsers : ResumeMatch(b)
    \/ \E b \in Browsers : ResumeTos(b)
    \/ \E b \in Browsers : Finish(b)
    \/ \E b \in Browsers : CleanupPartial(b)
    \/ \E b \in Browsers, pr \in Providers : Connect(b, pr)
    \/ \E b \in Browsers, pr \in Providers : DisconnectLogin(b, pr)
    \/ \E b \in Browsers : Switch(b)
    \/ \E b \in Browsers : Logout(b)
    \/ \E b \in Browsers : AcceptTos(b)
    \/ \E a \in Accounts, elevated \in BOOLEAN : SetElevated(a, elevated)
    \/ \E source, target \in Accounts : Merge(source, target)
    \/ NewTos

LoginSpec == LoginInit /\ [][LoginNext]_loginVars

-----------------------------------------------------------------------------
(* Properties *)

\* A credential only ever reaches an account of the person it belongs to, on
\* shared computers, with shared addresses, through pauses, merges and switches.
CredentialReachesOwner ==
    \A pr \in Providers, p \in People :
        cred[pr][p] # NoAccount => owner[cred[pr][p]] = p

\* Who signed in at a browser is signed in to an account of theirs.
SignedInAsOneself ==
    \A b \in Browsers : session[b] # NoAccount => owner[session[b]] = at[b]

\* A person does not get a second active account with the same identity, unless
\* two logins were under way at the same time.
IdentityHasOneAccount ==
    ~overlap => \A p \in People : Cardinality(Holders(p)) =< 1

\* Everyone ends up in an account of their own, the one their identity has.
AccountsAreOnesOwn ==
    LoginTypeOK /\ CredentialReachesOwner /\ SignedInAsOneself /\ IdentityHasOneAccount

\* A login that ends has its terms accepted, also when a new version took
\* effect while it was paused: the accept is no older than the version that was
\* in effect when the login was let through.
FinishedLoginHasAccepted ==
    [][\A b \in Browsers :
         (flight[b].step = "finish" /\ flight'[b] = NoLogin /\ session'[b] # session[b]) =>
            acc'[session'[b]].accepted >= flight[b].version]_loginVars
=============================================================================

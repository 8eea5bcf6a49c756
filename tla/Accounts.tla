------------------------------- MODULE Accounts -------------------------------
(***************************************************************************)
(* Users, sessions and the copies of users that the session layer keeps in *)
(* memory: registration, signing in and out, the account pages, the admin  *)
(* switch that closes registration, and the counting of visitors.          *)
(*                                                                         *)
(* People act through browsers.  A browser's session names a user id, and  *)
(* a request of that session is served with the cached copy of the row     *)
(* when there is one.  The id of a user is the request that created it.    *)
(***************************************************************************)
EXTENDS WebCalls

CONSTANTS
  People,              \* each knows a password of their own
  Browsers,            \* <<person, n>>: sessions
  Emails,
  SeedUser,            \* id of the user there may be before the first request
  SeedRows             \* what its row may be; Nothing: a new installation

VARIABLES
  user,                \* rows of `user`
  session,             \* per browser: the id it is signed in with
  copied,              \* per id: the copy in the cache of the session layer
  open,                \* system_settings.registrations_enabled
  overtaken,           \* calls with a copy of the settings row in hand when
                       \* another switched registration (history)
  visits,              \* the `analytics` row
  counted,             \* browsers whose session has counted_visitor
  crossed,             \* registrations that had counted the users and not yet
                       \* created one when another created one (history)
  taken,               \* ids created while a change of password was under way
                       \* for their email (history)
  outdated             \* ids whose copy was cached after it had changed (history)

switchVars == <<open, overtaken>>
rowVars == <<user, session, switchVars>>
tallyVars == <<visits, counted>>
accountVars == <<user, session, copied, switchVars, visits, counted, crossed, taken, outdated>>

-----------------------------------------------------------------------------
UserIds == Calls \cup {SeedUser}

(* `person` is who registered, `secret` whose password is stored *)
NewUser(person, email, admin) ==
  [email |-> email, secret |-> person, person |-> person, admin |-> admin,
   key |-> Nothing, prefs |-> Nothing]

UserRows == [email : Emails, secret : People, person : People, admin : BOOLEAN,
             key : Calls \cup {Nothing}, prefs : Calls \cup {Nothing}]

Registered(id) == user[id] # Nothing
WithEmail(e) == {id \in UserIds : Registered(id) /\ user[id].email = e}
PersonOf(b) == b[1]

(* The user there may be at first is one that a registration has made *)
ASSUME AccountsAssumption ==
  /\ SeedUser \notin Calls
  /\ \A b \in Browsers : PersonOf(b) \in People
  /\ \A row \in SeedRows \ {Nothing} : row \in UserRows /\ row.secret = row.person

AccountsInit ==
  /\ \E row \in SeedRows :
       /\ user = [id \in UserIds |-> IF id = SeedUser THEN row ELSE Nothing]
       /\ session = [b \in Browsers |->
            IF row # Nothing /\ PersonOf(b) = row.person THEN SeedUser ELSE Nothing]
  /\ copied = [id \in UserIds |-> Nothing]
  /\ open = TRUE /\ overtaken = {}
  /\ visits = [visitors |-> 0, loads |-> 0]
  /\ counted = {} /\ crossed = {} /\ taken = {} /\ outdated = {}

-----------------------------------------------------------------------------
(* process_signup_and_show_verification, User::create_new *)
ReadRegistration(c) ==
  /\ At(c, "signup", "settings")
  /\ IF open THEN Goto(c, "count") ELSE Refuses(c)
  /\ UNCHANGED <<accountVars, faults>>

(* Slip: the first administrator is the first of each email *)
CountUsersByEmail(c) ==
  /\ At(c, "signup", "count")
  /\ call' = [call EXCEPT ![c].at = "create",
                          ![c].got = [email |-> @, first |-> WithEmail(@) = {}]]
  /\ UNCHANGED <<accountVars, faults>>

(* LET $count: a statement, hence a transaction, of its own *)
CountUsers(c) ==
  /\ At(c, "signup", "count")
  /\ call' = [call EXCEPT ![c].at = "create",
                          ![c].got = [email |-> @, first |-> \A id \in UserIds : ~Registered(id)]]
  /\ UNCHANGED <<accountVars, faults>>

(* CREATE, refused by the unique index on email; then the browser is signed in *)
CreateUser(c) ==
  /\ At(c, "signup", "create")
  /\ LET g == call[c].got
         b == call[c].key
     IN IF WithEmail(g.email) # {}
          THEN Refuses(c) /\ UNCHANGED <<rowVars, crossed, taken>>
          ELSE /\ user' = [user EXCEPT ![c] = NewUser(PersonOf(b), g.email, g.first)]
               /\ session' = [session EXCEPT ![b] = c]
               /\ crossed' = crossed \cup {d \in Calls \ {c} : At(d, "signup", "create")}
               /\ taken' = IF \E d \in Calls : At(d, "password", "patch")
                                               /\ call[d].got.email = g.email
                             THEN taken \cup {c} ELSE taken
               /\ Answers(c, {})
               /\ UNCHANGED switchVars
  /\ UNCHANGED <<copied, tallyVars, outdated, faults>>

(* authenticate_user: one SELECT, then the session names the user *)
SignIn(c) ==
  /\ At(c, "signin", "find")
  /\ LET b == call[c].key
         found == {id \in WithEmail(call[c].got) : user[id].secret = PersonOf(b)}
     IN IF found = {} THEN Refuses(c) /\ UNCHANGED session
        ELSE /\ \E id \in found : session' = [session EXCEPT ![b] = id]
             /\ Answers(c, {})
  /\ UNCHANGED <<user, switchVars, copied, tallyVars, crossed, taken, outdated, faults>>

-----------------------------------------------------------------------------
(* The session layer (axum_session_auth) and require_auth, require_admin:  *)
(* the copy if there is one, else the row, which is kept as the copy.      *)
FirstStep(op, copy) ==
  CASE op = "prefs"    -> "update"
    [] op = "key"      -> "update"
    [] op = "password" -> "check"
    [] op = "leave"    -> "delete"
    [] op = "account"  -> "page"
    [] op \in {"toggle", "options"} -> IF copy.admin THEN "read" ELSE "refused"

UserOps == {"prefs", "key", "password", "leave", "account", "toggle", "options"}

Serves(c, id, copy) ==
  call' = [call EXCEPT ![c].user = id, ![c].got = copy,
                       ![c].at = FirstStep(call[c].op, copy)]

LookUpCopy(c) ==
  /\ call[c].op \in UserOps /\ call[c].at = "load"
  /\ LET id == session[call[c].key]
     IN IF id = Nothing THEN Refuses(c)
        ELSE IF copied[id] # Nothing THEN Serves(c, id, copied[id])
        ELSE call' = [call EXCEPT ![c].user = id, ![c].at = "select"]
  /\ UNCHANGED <<accountVars, faults>>

LoadUser(c) ==
  /\ call[c].op \in UserOps /\ call[c].at = "select"
  /\ IF Registered(call[c].user) THEN Reads(c, user[call[c].user], "keep") ELSE Refuses(c)
  /\ UNCHANGED <<accountVars, faults>>

KeepCopy(c) ==
  /\ call[c].op \in UserOps /\ call[c].at = "keep"
  /\ copied' = [copied EXCEPT ![call[c].user] = call[c].got]
  /\ outdated' = IF call[c].got # user[call[c].user] THEN outdated \cup {call[c].user} ELSE outdated
  /\ Serves(c, call[c].user, call[c].got)
  /\ UNCHANGED <<rowVars, tallyVars, crossed, taken, faults>>

(* The layer drops copies after a while *)
ForgetCopy(id) ==
  /\ copied[id] # Nothing
  /\ copied' = [copied EXCEPT ![id] = Nothing]
  /\ UNCHANGED <<rowVars, tallyVars, crossed, taken, outdated, callVars>>

(* sign_out_user *)
SignOut(c) ==
  /\ At(c, "signout", "out")
  /\ session' = [session EXCEPT ![call[c].key] = Nothing]
  /\ Answers(c, {})
  /\ UNCHANGED <<user, switchVars, copied, tallyVars, crossed, taken, outdated, faults>>

-----------------------------------------------------------------------------
(* UPDATE of the user's own row, then the copy is cleared.  An UPDATE of a  *)
(* row that has gone changes nothing; set_api_key alone notices.           *)
SetApiKey(c) ==
  /\ At(c, "key", "update")
  /\ LET id == call[c].user
     IN IF user[id] = Nothing THEN Refuses(c) /\ UNCHANGED user
        ELSE user' = [user EXCEPT ![id].key = c] /\ Goto(c, "clear")
  /\ UNCHANGED <<session, switchVars, copied, tallyVars, crossed, taken, outdated, faults>>

(* update_theme, update_timezone *)
UpdatePreference(c) ==
  /\ At(c, "prefs", "update")
  /\ LET id == call[c].user
     IN user' = IF user[id] = Nothing THEN user ELSE [user EXCEPT ![id].prefs = c]
  /\ Goto(c, "clear")
  /\ UNCHANGED <<session, switchVars, copied, tallyVars, crossed, taken, outdated, faults>>

Clears(c) ==
  /\ copied' = [copied EXCEPT ![call[c].user] = Nothing]
  /\ Answers(c, {call[c].user})
  /\ UNCHANGED <<rowVars, tallyVars, crossed, taken, outdated, faults>>

ShowApiKey(c) == At(c, "key", "clear") /\ Clears(c)

(* Slip: the page is shown without clearing the copy *)
ShowPreferenceAtOnce(c) ==
  /\ At(c, "prefs", "clear")
  /\ Answers(c, {call[c].user})
  /\ UNCHANGED <<rowVars, copied, tallyVars, crossed, taken, outdated, faults>>

ShowPreference(c) == At(c, "prefs", "clear") /\ Clears(c)

ConfirmPassword(c) == At(c, "password", "clear") /\ Clears(c)

(* Slip: the old password is not asked for *)
CheckNoPassword(c) ==
  /\ At(c, "password", "check")
  /\ Goto(c, "patch")
  /\ UNCHANGED <<accountVars, faults>>

(* change_password: authenticate the email of the copy with the old        *)
(* password, and in a second statement UPDATE ... WHERE email              *)
CheckOldPassword(c) ==
  /\ At(c, "password", "check")
  /\ IF \E id \in WithEmail(call[c].got.email) : user[id].secret = PersonOf(call[c].key)
       THEN Goto(c, "patch") ELSE Refuses(c)
  /\ UNCHANGED <<accountVars, faults>>

(* Slip: the session is stored for the password *)
PatchPasswordBySession(c) ==
  /\ At(c, "password", "patch")
  /\ user' = [id \in UserIds |->
       IF id \in WithEmail(call[c].got.email)
         THEN [user[id] EXCEPT !.secret = call[c].key] ELSE user[id]]
  /\ Goto(c, "clear")
  /\ UNCHANGED <<session, switchVars, copied, tallyVars, crossed, taken, outdated, faults>>

PatchPassword(c) ==
  /\ At(c, "password", "patch")
  /\ user' = [id \in UserIds |->
       IF id \in WithEmail(call[c].got.email)
         THEN [user[id] EXCEPT !.secret = PersonOf(call[c].key)] ELSE user[id]]
  /\ Goto(c, "clear")
  /\ UNCHANGED <<session, switchVars, copied, tallyVars, crossed, taken, outdated, faults>>

(* delete_account: the row, then the session; the copy stays in the cache *)
DeleteUser(c) ==
  /\ At(c, "leave", "delete")
  /\ user' = [user EXCEPT ![call[c].user] = Nothing]
  /\ session' = [session EXCEPT ![call[c].key] = Nothing]
  /\ Answers(c, {})
  /\ UNCHANGED <<switchVars, copied, tallyVars, crossed, taken, outdated, faults>>

(* show_account_page shows the key of the copy *)
ShowAccount(c) ==
  /\ At(c, "account", "page")
  /\ Answers(c, {call[c].user})
  /\ UNCHANGED <<accountVars, faults>>

(* The settings row is read whole, patched in memory and merged back whole  *)
(* (SystemSettingsPatch::apply), by toggle_registration_status, by the      *)
(* handlers of models and prompts (`options`), and by a server that starts  *)
(* (`sync`).  Only the first patches registrations_enabled: the others      *)
(* bring back what they have read.  None of the rest of the row is kept.    *)
SettingsOps == {"toggle", "options", "sync"}

PatchedCopies(op) == IF op = "toggle" THEN BOOLEAN ELSE {open}

(* An empty prompt or an unknown model is refused; a server that finds its *)
(* own provider in the row has nothing to merge                            *)
ReadSettings(c) ==
  /\ call[c].op \in SettingsOps /\ call[c].at = "read"
  /\ \/ \E copy \in PatchedCopies(call[c].op) : Reads(c, copy, "merge")
     \/ call[c].op # "toggle" /\ Refuses(c)
  /\ UNCHANGED <<accountVars, faults>>

HoldsCopy(c) == call[c].op \in {"options", "sync"} /\ call[c].at = "merge"

(* Slip: a patch that does not name the switch merges its default, TRUE *)
MergeDefaults(c) ==
  /\ call[c].op \in SettingsOps /\ call[c].at = "merge"
  /\ open' = (call[c].op = "options" \/ call[c].got)
  /\ overtaken' = IF open' = open THEN overtaken
                  ELSE overtaken \cup {d \in Calls \ {c} : HoldsCopy(d)}
  /\ Answers(c, {})
  /\ UNCHANGED <<user, session, copied, tallyVars, crossed, taken, outdated, faults>>

(* UPDATE ... MERGE of the whole copy *)
MergeSettings(c) ==
  /\ call[c].op \in SettingsOps /\ call[c].at = "merge"
  /\ open' = call[c].got
  /\ overtaken' = IF open' = open THEN overtaken
                  ELSE overtaken \cup {d \in Calls \ {c} : HoldsCopy(d)}
  /\ Answers(c, {})
  /\ UNCHANGED <<user, session, copied, tallyVars, crossed, taken, outdated, faults>>

(* api_auth: the row with the key, read on every request *)
FindByApiKey(c) ==
  /\ At(c, "api", "find")
  /\ LET found == {id \in UserIds : Registered(id) /\ user[id].key = call[c].got}
     IN IF found = {} THEN Refuses(c) ELSE Answers(c, found)
  /\ UNCHANGED <<accountVars, faults>>

-----------------------------------------------------------------------------
(* analytics_middleware: the session is asked, then marked; the row is     *)
(* incremented by a task of its own                                        *)
AskVisitor(c) ==
  /\ At(c, "visit", "ask")
  /\ IF call[c].key \in counted THEN Reads(c, FALSE, "record") ELSE Reads(c, TRUE, "mark")
  /\ UNCHANGED <<accountVars, faults>>

MarkVisitor(c) ==
  /\ At(c, "visit", "mark")
  /\ counted' = counted \cup {call[c].key}
  /\ Goto(c, "record")
  /\ UNCHANGED <<rowVars, copied, visits, crossed, taken, outdated, faults>>

RecordPageView(c) ==
  /\ At(c, "visit", "record")
  /\ visits' = [visitors |-> visits.visitors + IF call[c].got THEN 1 ELSE 0,
                loads |-> visits.loads + 1]
  /\ Answers(c, {})
  /\ UNCHANGED <<rowVars, copied, counted, crossed, taken, outdated, faults>>

-----------------------------------------------------------------------------
(* A request of a browser, with the email or the key it sends *)
Sends(c, op, b, sent, step) ==
  /\ Arrives(c)
  /\ call' = [call EXCEPT ![c] = [Unused EXCEPT !.op = op, !.key = b, !.got = sent,
                                                !.at = step]]

AccountRequest(c) ==
  /\ \E b \in Browsers :
       \/ \E e \in Emails : \/ Sends(c, "signup", b, e, "settings")
                            \/ Sends(c, "signin", b, e, "find")
       \/ session[b] # Nothing /\ \E op \in UserOps : Sends(c, op, b, Nothing, "load")
       \/ session[b] # Nothing /\ Sends(c, "signout", b, Nothing, "out")
       \/ \E k \in UserIds : Registered(k) /\ user[k].key # Nothing
                             /\ Sends(c, "api", b, user[k].key, "find")
       \/ Sends(c, "visit", b, Nothing, "ask")
  /\ UNCHANGED <<accountVars, faults>>

(* A server starts: sync_from_embedding_provider *)
StartServer(c) ==
  /\ Starts(c, "sync", Nobody, Nothing, "read")
  /\ UNCHANGED <<accountVars, faults>>

AccountStep(c) ==
  \/ ReadRegistration(c) \/ CountUsers(c) \/ CreateUser(c) \/ SignIn(c) \/ SignOut(c)
  \/ LookUpCopy(c) \/ LoadUser(c) \/ KeepCopy(c)
  \/ SetApiKey(c) \/ ShowApiKey(c) \/ UpdatePreference(c) \/ ShowPreference(c)
  \/ CheckOldPassword(c) \/ PatchPassword(c) \/ ConfirmPassword(c)
  \/ DeleteUser(c) \/ ShowAccount(c) \/ ReadSettings(c) \/ MergeSettings(c)
  \/ FindByApiKey(c) \/ AskVisitor(c) \/ MarkVisitor(c) \/ RecordPageView(c)

AccountsNext ==
  \/ \E c \in Calls : \/ AccountRequest(c) \/ StartServer(c)
                      \/ AccountStep(c)
                      \/ AbandonCall(c) /\ UNCHANGED accountVars
  \/ \E id \in UserIds : ForgetCopy(id)

AccountsSpec == AccountsInit /\ CallsInit /\ [][AccountsNext]_<<accountVars, callVars>>

-----------------------------------------------------------------------------
AccountsTypeOK ==
  /\ user \in [UserIds -> UserRows \cup {Nothing}]
  /\ session \in [Browsers -> UserIds \cup {Nothing}]
  /\ copied \in [UserIds -> UserRows \cup {Nothing}]
  /\ open \in BOOLEAN /\ overtaken \subseteq Calls
  /\ counted \subseteq Browsers
  /\ crossed \subseteq UserIds /\ taken \subseteq UserIds /\ outdated \subseteq UserIds

(* There is one administrator, the first to register: of two, one had     *)
(* counted the users before the other was created, and was created after.  *)
(* user.rs:235.                                                            *)
OneFirstAdmin ==
  \A a, b \in UserIds :
    Registered(a) /\ Registered(b) /\ user[a].admin /\ user[b].admin /\ a # b =>
      a \in crossed \/ b \in crossed

(* A user's password is one that the person who registered has chosen,     *)
(* unless the account was created while a change of password was under way *)
(* for the same email: the change names the email, and the account that    *)
(* was authenticated may be gone.  user.rs:269, account/handlers.rs:185.   *)
PasswordsAreOwn ==
  \A id \in UserIds :
    Registered(id) /\ user[id].secret # user[id].person => id \in taken

(* A copy in the cache that differs from its row is one that a request is  *)
(* about to clear, that was read before the row changed and kept after, or *)
(* that a failed request or a deletion left there.  handlers.rs:78.        *)
StaleCopiesHaveReasons ==
  \A id \in UserIds :
    copied[id] # Nothing /\ copied[id] # user[id] =>
      \/ ~Registered(id)
      \/ id \in outdated \/ id \in taken
      \/ \E c \in Calls : /\ call[c].op \in {"prefs", "key", "password"}
                          /\ call[c].user = id
                          /\ call[c].at = "clear" \/ (call[c].at = "failed" /\ faults > 0)

(* Registration is opened and closed by what an administrator (or one      *)
(* whose account has been deleted and whose copy is still cached) asks for *)
(* with the toggle.  Another change of the settings, or a server that      *)
(* starts, does so only with a copy that such a switch has overtaken: it   *)
(* brings the earlier value back.  system_settings.rs:118,                 *)
(* auth_middleware.rs:56.                                                  *)
SettingsByAdmins ==
  [][open' # open =>
       \E c \in Calls :
         /\ call'[c] # call[c] /\ call[c].at = "merge"
         /\ call[c].op = "toggle" \/ c \in overtaken
         /\ call[c].op # "sync" /\ Registered(call[c].user) => user[call[c].user].admin
    ]_<<accountVars, callVars>>
=============================================================================

------------------------------ MODULE PagesProofs ------------------------------
(***************************************************************************)
(* Proofs about the pages: Accounts and Scratchpads, for any number of     *)
(* requests, browsers, emails, pads and texts, and with AnswerStream as    *)
(* MCPages composes them.                                                  *)
(*                                                                         *)
(* Accounts: an id is given to a user once, by the request that creates    *)
(* it, so that whoever names an id (a row, a copy, a session, a request    *)
(* that is served) names the same user for good; and an email stands in    *)
(* one row at most (AccountsInv).  Scratchpads: an ingestion carries the   *)
(* text it has read from statement to statement; unless a save came late   *)
(* that is the text of the pad, and from the moment the task is stored a   *)
(* queued task has it (IngestInv).                                         *)
(***************************************************************************)
EXTENDS MCPages, AnswerProofs

CallFields == {"op", "at", "user", "key", "got", "page"}

(* The steps of a request whose user is known *)
ServingSteps == {"select", "keep", "update", "check", "patch", "clear", "delete", "page", "read",
                 "merge"}

CallShape == DOMAIN call = Calls /\ \A c \in Calls : DOMAIN call[c] = CallFields

(* An id is used up when its request is answered *)
Created(id) == id \in Calls => call[id].at = "answered"

(* What is known of the user of an id does not change its rights *)
SameRights(id, row) == row \in UserRows /\ (Registered(id) => row.admin = user[id].admin)

(* Whose password a change that has been authorised will set *)
IsAuthorised(c) ==
  \A id \in WithEmail(call[c].got.email) : user[id].person = PersonOf(call[c].key) \/ id \in taken

(* Let in by require_admin *)
ChangesSettings(c) ==
  call[c].op \in {"toggle", "options"} /\ call[c].at \in {"read", "merge"}

CallInv(c) ==
  /\ call[c].at # "unused" /\ call[c].op # "sync" => call[c].key \in Browsers
  /\ call[c].op = "signup" /\ call[c].at \in {"settings", "count"} => call[c].got \in Emails
  /\ At(c, "signup", "create") =>
       /\ call[c].got.email \in Emails /\ call[c].got.first \in BOOLEAN
       /\ call[c].got.first => c \in crossed \/ \A id \in UserIds : ~Registered(id)
  /\ call[c].op \in UserOps /\ call[c].at \in ServingSteps =>
       call[c].user \in UserIds /\ Created(call[c].user)
  /\ call[c].op \in UserOps /\ call[c].at = "keep" => SameRights(call[c].user, call[c].got)
  /\ At(c, "password", "patch") => IsAuthorised(c)
  /\ ChangesSettings(c) => (Registered(call[c].user) => user[call[c].user].admin)
  /\ call[c].op \in SettingsOps /\ call[c].at = "merge" => call[c].got \in BOOLEAN

IdsAreUsedOnce ==
  /\ \A id \in UserIds : Registered(id) \/ copied[id] # Nothing => Created(id)
  /\ \A b \in Browsers : session[b] # Nothing => Created(session[b])

CopiesKeepRights == \A id \in UserIds : copied[id] # Nothing => SameRights(id, copied[id])

EmailsAreUnique ==
  \A a, b \in UserIds : Registered(a) /\ Registered(b) /\ user[a].email = user[b].email => a = b

AccountsInv ==
  /\ AccountsTypeOK /\ CallShape /\ faults \in Nat
  /\ \A c \in Calls : CallInv(c)
  /\ IdsAreUsedOnce /\ CopiesKeepRights /\ EmailsAreUnique
  /\ OneFirstAdmin /\ PasswordsAreOwn /\ StaleCopiesHaveReasons
-----------------------------------------------------------------------------
Ends == {"answered", "refused", "failed"}

(* The calls after a step of c *)
Moves(c) ==
  /\ DOMAIN call' = Calls /\ DOMAIN call'[c] = CallFields
  /\ \A d \in Calls \ {c} : call'[d] = call[d]

LEMMA GotoFields ==
  ASSUME CallShape, NEW c \in Calls, NEW s, Goto(c, s)
  PROVE  /\ Moves(c) /\ call'[c].op = call[c].op /\ call'[c].at = s
         /\ call'[c].user = call[c].user /\ call'[c].key = call[c].key
         /\ call'[c].got = call[c].got
BY DEF CallShape, Moves, Goto, CallFields

LEMMA ReadsFields ==
  ASSUME CallShape, NEW c \in Calls, NEW r, NEW s, Reads(c, r, s)
  PROVE  /\ Moves(c) /\ call'[c].op = call[c].op /\ call'[c].at = s
         /\ call'[c].user = call[c].user /\ call'[c].key = call[c].key
         /\ call'[c].got = r
BY DEF CallShape, Moves, Reads, CallFields

LEMMA EndFields ==
  ASSUME CallShape, NEW c \in Calls, Refuses(c) \/ Fails(c) \/ \E o : Answers(c, o)
  PROVE  /\ Moves(c) /\ call'[c].op = call[c].op /\ call'[c].at \in Ends
         /\ call'[c].user = call[c].user /\ call'[c].key = call[c].key
         /\ Fails(c) => call'[c].at = "failed"
BY DEF CallShape, Moves, Refuses, Fails, Reads, Answers, CallFields, Ends

LEMMA ServesFields ==
  ASSUME CallShape, NEW c \in Calls, NEW id, NEW row, Serves(c, id, row)
  PROVE  /\ Moves(c) /\ call'[c].op = call[c].op
         /\ call'[c].at = FirstStep(call[c].op, row)
         /\ call'[c].user = id /\ call'[c].key = call[c].key /\ call'[c].got = row
BY DEF CallShape, Moves, Serves, CallFields

LEMMA EndIsFree ==
  ASSUME NEW c \in Calls, call'[c].at \in Ends,
         call'[c].op = "sync" \/ call'[c].key \in Browsers
  PROVE  CallInv(c)'
BY DEF CallInv, Ends, At, ServingSteps, ChangesSettings

-----------------------------------------------------------------------------
(* No row appears, and none changes its rights, its email or its person *)
RowsStay ==
  \A id \in UserIds : Registered(id)' =>
    /\ Registered(id) /\ user'[id].admin = user[id].admin
    /\ user'[id].email = user[id].email /\ user'[id].person = user[id].person

LEMMA CreatedStays ==
  ASSUME NEW c \in Calls, NEW id, Moves(c), call[c].at \notin Ends, Created(id)
  PROVE  Created(id)'
BY DEF Moves, Ends, Created

(* Every action but CreateUser *)
LEMMA StepKeeps ==
  ASSUME AccountsInv, NEW c \in Calls, Moves(c), call[c].at \notin Ends,
         AccountsTypeOK', faults' \in Nat, CallInv(c)',
         RowsStay, crossed' = crossed, taken' = taken,
         \A id \in UserIds : copied'[id] # Nothing =>
           copied'[id] = copied[id] \/ (SameRights(id, copied'[id]) /\ Created(id)),
         \A b \in Browsers : session'[b] # Nothing =>
           session'[b] = session[b] \/ Created(session'[b]),
         PasswordsAreOwn', StaleCopiesHaveReasons'
  PROVE  AccountsInv'
<1>1. CallShape'
  BY DEF AccountsInv, CallShape, Moves
<1>2. ASSUME NEW d \in Calls, d # c PROVE CallInv(d)'
  <2>1. call'[d] = call[d] /\ CallInv(d)
    BY <1>2 DEF Moves, AccountsInv
  <2>2. ASSUME call[d].op \in UserOps, call[d].at \in ServingSteps
        PROVE  call[d].user \in UserIds /\ Created(call[d].user)'
    BY <2>1, <2>2, CreatedStays DEF CallInv
  <2>3. ASSUME call[d].op \in UserOps, call[d].at = "keep"
        PROVE  SameRights(call[d].user, call[d].got)'
    <3>1. call[d].user \in UserIds /\ SameRights(call[d].user, call[d].got)
      BY <2>1, <2>3, <2>2 DEF CallInv, ServingSteps
    <3> QED BY <3>1, <2>1 DEF RowsStay, SameRights
  <2>4. At(d, "password", "patch") => IsAuthorised(d)'
    BY <2>1 DEF CallInv, IsAuthorised, WithEmail, RowsStay
  <2>5. ChangesSettings(d) => (Registered(call[d].user) => user[call[d].user].admin)'
    BY <2>1, <2>2 DEF CallInv, RowsStay, ChangesSettings, UserOps, ServingSteps
  <2>6. At(d, "signup", "create") =>
          /\ call[d].got.email \in Emails /\ call[d].got.first \in BOOLEAN
          /\ call[d].got.first => d \in crossed' \/ \A id \in UserIds : ~Registered(id)'
    BY <2>1 DEF CallInv, RowsStay
  <2> QED BY <2>1, <2>2, <2>3, <2>4, <2>5, <2>6 DEF CallInv, At, ChangesSettings
<1>3. IdsAreUsedOnce'
  <2>1. ASSUME NEW id \in UserIds, Registered(id)' \/ copied'[id] # Nothing
        PROVE  Created(id)'
    BY <2>1, CreatedStays DEF AccountsInv, IdsAreUsedOnce, RowsStay
  <2>2. ASSUME NEW b \in Browsers, session'[b] # Nothing PROVE Created(session[b])'
    <3>1. PICK id : id = session'[b]
      OBVIOUS
    <3>2. Created(id)
      BY <2>2, <3>1 DEF AccountsInv, IdsAreUsedOnce
    <3> QED BY <3>1, <3>2, CreatedStays DEF Created
  <2> QED BY <2>1, <2>2 DEF IdsAreUsedOnce, Registered
<1>4. CopiesKeepRights'
  BY DEF AccountsInv, CopiesKeepRights, SameRights, RowsStay
<1>5. EmailsAreUnique' /\ OneFirstAdmin'
  BY DEF AccountsInv, EmailsAreUnique, OneFirstAdmin, RowsStay
<1> QED BY <1>1, <1>2, <1>3, <1>4, <1>5 DEF AccountsInv

(* A statement that reads: the call moves on, and does not leave a copy      *)
(* that it was about to clear, unless it fails                              *)
LEMMA CallMoves ==
  ASSUME AccountsInv, NEW c \in Calls, Moves(c), call[c].at \notin Ends,
         UNCHANGED <<user, copied, crossed, taken, outdated>>,
         open' \in BOOLEAN, overtaken' \subseteq Calls, counted' \subseteq Browsers,
         session' \in [Browsers -> UserIds \cup {Nothing}],
         \A b \in Browsers : session'[b] # Nothing =>
           session'[b] = session[b] \/ Created(session'[b]),
         CallInv(c)',
         \/ faults' = faults /\ call[c].at # "clear"
         \/ /\ faults' = faults + 1 /\ call'[c].at = "failed"
            /\ call'[c].op = call[c].op /\ call'[c].user = call[c].user
  PROVE  AccountsInv'
<1>1. AccountsTypeOK' /\ faults' \in Nat
  BY DEF AccountsInv, AccountsTypeOK
<1>2. RowsStay
  BY DEF RowsStay, Registered
<1>3. PasswordsAreOwn'
  BY DEF AccountsInv, PasswordsAreOwn, Registered
<1>4. StaleCopiesHaveReasons'
  <2>1. SUFFICES ASSUME NEW id \in UserIds, NEW d \in Calls,
                        call[d].op \in {"prefs", "key", "password"}, call[d].user = id,
                        call[d].at = "clear" \/ (call[d].at = "failed" /\ faults > 0)
                 PROVE  /\ call'[d].op = call[d].op /\ call'[d].user = id
                        /\ call'[d].at = "clear" \/ (call'[d].at = "failed" /\ faults' > 0)
    BY DEF AccountsInv, StaleCopiesHaveReasons, Registered
  <2>2. CASE d = c
    BY <2>1, <2>2 DEF Ends, AccountsInv
  <2>3. CASE d # c
    BY <2>1, <2>3 DEF Moves, AccountsInv
  <2> QED BY <2>2, <2>3
<1> QED BY <1>1, <1>2, <1>3, <1>4, StepKeeps

LEMMA CallEnds ==
  ASSUME AccountsInv, NEW c \in Calls, call[c].at \notin Ends \cup {"unused", "clear"},
         UNCHANGED <<user, copied, crossed, taken, outdated, faults>>,
         open' \in BOOLEAN, overtaken' \subseteq Calls, counted' \subseteq Browsers,
         session' \in [Browsers -> UserIds \cup {Nothing}],
         \A b \in Browsers : session'[b] # Nothing =>
           session'[b] = session[b] \/ Created(session'[b]),
         Refuses(c) \/ \E o : Answers(c, o)
  PROVE  AccountsInv'
<1>1. /\ Moves(c) /\ call'[c].at \in Ends
      /\ call'[c].op = call[c].op /\ call'[c].key = call[c].key
  BY EndFields DEF AccountsInv
<1>2. CallInv(c)'
  BY <1>1, EndIsFree DEF AccountsInv, CallInv
<1> QED BY <1>1, <1>2, CallMoves

LEMMA Abandoning ==
  ASSUME AccountsInv, NEW c \in Calls, AbandonCall(c), UNCHANGED accountVars
  PROVE  AccountsInv'
<1>1. /\ Moves(c) /\ call'[c].at = "failed" /\ call'[c].key = call[c].key
      /\ call'[c].op = call[c].op /\ call'[c].user = call[c].user
  BY EndFields DEF AccountsInv, AbandonCall
<1>2. call[c].at \notin Ends \cup {"unused"} /\ faults' = faults + 1
  BY DEF AbandonCall, Running, Ended, Ends, Fault
<1>3. CallInv(c)'
  BY <1>1, <1>2, EndIsFree DEF AccountsInv, CallInv, Ends
<1> QED BY <1>1, <1>2, <1>3, CallMoves DEF accountVars, switchVars, AccountsInv, AccountsTypeOK

LEMMA Requesting ==
  ASSUME AccountsInv, NEW c \in Calls, AccountRequest(c) PROVE AccountsInv'
<1>1. PICK b, o, s, sent :
        /\ b \in Browsers /\ Sends(c, o, b, sent, s)
        /\ s \in {"settings", "find", "load", "out", "ask"}
        /\ s = "settings" => sent \in Emails
  BY DEF AccountRequest
<1>2. call[c].at = "unused"
  BY <1>1 DEF Sends, Arrives
<1>3. Moves(c) /\ call'[c].key = b /\ call'[c].at = s /\ call'[c].got = sent
  BY <1>1 DEF Sends, Unused, Moves, CallFields, AccountsInv, CallShape
<1>4. CallInv(c)'
  BY <1>1, <1>3 DEF CallInv, At, ServingSteps, ChangesSettings, SettingsOps, UserOps
<1> QED
  BY <1>2, <1>3, <1>4, CallMoves
     DEF Ends, AccountRequest, accountVars, switchVars, AccountsInv, AccountsTypeOK

-----------------------------------------------------------------------------
(* Requests without an account: registration up to CREATE, signing in and   *)
(* out, the API, the counting of visitors                                   *)
LEMMA ReadingRegistration ==
  ASSUME AccountsInv, NEW c \in Calls, ReadRegistration(c) \/ CountUsers(c)
  PROVE  AccountsInv'
<1>0. /\ UNCHANGED <<accountVars, faults>> /\ call[c].op = "signup"
      /\ call[c].at \in {"settings", "count"}
      /\ call[c].key \in Browsers /\ call[c].got \in Emails
  BY DEF ReadRegistration, CountUsers, At, AccountsInv, CallInv
<1>1. CASE Refuses(c)
  BY <1>0, <1>1, CallEnds DEF accountVars, switchVars, Ends, AccountsInv, AccountsTypeOK
<1>2. CASE Goto(c, "count")
  <2>1. /\ Moves(c) /\ call'[c].op = "signup" /\ call'[c].at = "count"
        /\ call'[c].key = call[c].key /\ call'[c].got = call[c].got
    BY <1>0, <1>2, GotoFields DEF AccountsInv
  <2>2. CallInv(c)'
    BY <1>0, <2>1 DEF CallInv, At, UserOps, ChangesSettings, SettingsOps
  <2> QED
    BY <1>0, <2>1, <2>2, CallMoves DEF accountVars, switchVars, Ends, AccountsInv, AccountsTypeOK
<1>3. CASE CountUsers(c)
  <2>1. /\ Moves(c) /\ call'[c].op = "signup" /\ call'[c].at = "create"
        /\ call'[c].key = call[c].key /\ call'[c].got.email = call[c].got
        /\ call'[c].got.first = \A id \in UserIds : ~Registered(id)
    BY <1>0, <1>3 DEF CountUsers, Moves, CallFields, AccountsInv, CallShape
  <2>2. CallInv(c)'
    BY <1>0, <2>1 DEF CallInv, At, UserOps, Registered, accountVars, switchVars,
       ChangesSettings, SettingsOps
  <2> QED
    BY <1>0, <2>1, <2>2, CallMoves DEF accountVars, switchVars, Ends, AccountsInv, AccountsTypeOK
<1> QED BY <1>1, <1>2, <1>3 DEF ReadRegistration

LEMMA SigningIn ==
  ASSUME AccountsInv, NEW c \in Calls, SignIn(c) PROVE AccountsInv'
<1>1. /\ UNCHANGED <<user, open, overtaken, copied, tallyVars, crossed, taken, outdated, faults>>
      /\ call[c].at = "find" /\ call[c].key \in Browsers
      /\ Refuses(c) \/ \E o : Answers(c, o)
  BY DEF SignIn, At, AccountsInv, CallInv, switchVars
<1>2. session' = session \/ \E id \in UserIds :
        Registered(id) /\ session' = [session EXCEPT ![call[c].key] = id]
  BY DEF SignIn, WithEmail
<1>3. /\ session' \in [Browsers -> UserIds \cup {Nothing}]
      /\ \A b \in Browsers : session'[b] # Nothing =>
           session'[b] = session[b] \/ Created(session'[b])
  BY <1>1, <1>2 DEF AccountsInv, AccountsTypeOK, IdsAreUsedOnce
<1> QED BY <1>1, <1>3, CallEnds DEF Ends, tallyVars, AccountsInv, AccountsTypeOK

LEMMA SigningOut ==
  ASSUME AccountsInv, NEW c \in Calls, SignOut(c) PROVE AccountsInv'
<1>1. /\ UNCHANGED <<user, open, overtaken, copied, tallyVars, crossed, taken, outdated, faults>>
      /\ call[c].at = "out" /\ Answers(c, {})
      /\ session' = [session EXCEPT ![call[c].key] = Nothing]
  BY DEF SignOut, At, switchVars, UserOps
<1>2. /\ session' \in [Browsers -> UserIds \cup {Nothing}]
      /\ \A b \in Browsers : session'[b] # Nothing => session'[b] = session[b]
  BY <1>1 DEF AccountsInv, AccountsTypeOK
<1> QED BY <1>1, <1>2, CallEnds DEF Ends, tallyVars, AccountsInv, AccountsTypeOK

LEMMA Visiting ==
  ASSUME AccountsInv, NEW c \in Calls,
         AskVisitor(c) \/ MarkVisitor(c) \/ RecordPageView(c) \/ FindByApiKey(c)
  PROVE  AccountsInv'
<1>0. /\ UNCHANGED <<user, session, open, overtaken, copied, crossed, taken, outdated, faults>>
      /\ call[c].op \in {"visit", "api"} /\ call[c].at \in {"ask", "mark", "record", "find"}
      /\ call[c].key \in Browsers /\ counted' \subseteq Browsers
  BY DEF AskVisitor, MarkVisitor, RecordPageView, FindByApiKey, At, accountVars, switchVars,
     rowVars, switchVars, tallyVars, AccountsInv, AccountsTypeOK, CallInv
<1>1. CASE Refuses(c) \/ \E o : Answers(c, o)
  BY <1>0, <1>1, CallEnds DEF Ends, AccountsInv, AccountsTypeOK
<1>2. ASSUME NEW s \in {"mark", "record"}, Goto(c, s) \/ \E r : Reads(c, r, s)
      PROVE  AccountsInv'
  <2>1. /\ Moves(c) /\ call'[c].op = call[c].op /\ call'[c].at = s
        /\ call'[c].key = call[c].key
    BY <1>2, GotoFields, ReadsFields DEF AccountsInv
  <2>2. CallInv(c)'
    BY <1>0, <2>1 DEF CallInv, At, UserOps, ChangesSettings, SettingsOps
  <2> QED BY <1>0, <2>1, <2>2, CallMoves DEF Ends, AccountsInv, AccountsTypeOK
<1> QED BY <1>1, <1>2 DEF AskVisitor, MarkVisitor, RecordPageView, FindByApiKey

-----------------------------------------------------------------------------
(* Requests of a user, up to what they change *)
LEMMA ServingKnowsUser ==
  ASSUME NEW c \in Calls, NEW id \in UserIds, NEW row,
         Created(id)', SameRights(id, row)',
         call'[c].op \in UserOps, call'[c].at = FirstStep(call'[c].op, row),
         call'[c].user = id, call'[c].key \in Browsers
  PROVE  CallInv(c)'
<1>1. call'[c].at \in {"update", "check", "delete", "page", "read", "refused"}
  BY DEF FirstStep, UserOps
<1>2. ChangesSettings(c)' => row.admin
  BY DEF ChangesSettings, FirstStep
<1> QED BY <1>1, <1>2 DEF CallInv, At, UserOps, SameRights, Registered, ChangesSettings

LEMMA LookingUpCopy ==
  ASSUME AccountsInv, NEW c \in Calls, LookUpCopy(c) PROVE AccountsInv'
<1> DEFINE id == session[call[c].key]
<1>0. /\ UNCHANGED <<accountVars, faults>>
      /\ call[c].op \in UserOps /\ call[c].at = "load" /\ call[c].key \in Browsers
  BY DEF LookUpCopy, AccountsInv, CallInv, UserOps
<1>1. CASE Refuses(c)
  BY <1>0, <1>1, CallEnds DEF accountVars, switchVars, Ends, AccountsInv, AccountsTypeOK
<1>2. CASE id # Nothing
  <2>0. PICK k \in UserIds : k = id /\ Created(k)
    BY <1>0, <1>2 DEF AccountsInv, AccountsTypeOK, IdsAreUsedOnce
  <2>1. CASE copied[k] # Nothing /\ Serves(c, k, copied[k])
    <3>1. PICK row : row = copied[k] /\ SameRights(k, row)
      BY <2>0, <2>1 DEF AccountsInv, CopiesKeepRights
    <3>2. /\ Moves(c) /\ call'[c].op = call[c].op /\ call'[c].key = call[c].key
          /\ call'[c].at = FirstStep(call[c].op, row) /\ call'[c].user = k
      BY <2>1, <3>1, ServesFields DEF AccountsInv
    <3>3. Created(k)' /\ SameRights(k, row)'
      BY <1>0, <2>0, <3>1, <3>2, CreatedStays
         DEF Ends, SameRights, Registered, accountVars, switchVars
    <3>4. CallInv(c)'
      BY <1>0, <3>2, <3>3, ServingKnowsUser
    <3> QED
      BY <1>0, <3>2, <3>4, CallMoves DEF accountVars, switchVars, Ends, AccountsInv, AccountsTypeOK
  <2>2. CASE call' = [call EXCEPT ![c].user = k, ![c].at = "select"]
    <3>1. /\ Moves(c) /\ call'[c].op = call[c].op /\ call'[c].key = call[c].key
          /\ call'[c].at = "select" /\ call'[c].user = k
      BY <2>2 DEF Moves, CallFields, AccountsInv, CallShape
    <3>2. Created(k)'
      BY <1>0, <2>0, <3>1, CreatedStays DEF Ends
    <3>3. CallInv(c)'
      BY <1>0, <3>1, <3>2 DEF CallInv, At, ChangesSettings, SettingsOps, UserOps
    <3> QED
      BY <1>0, <3>1, <3>3, CallMoves DEF accountVars, switchVars, Ends, AccountsInv, AccountsTypeOK
  <2> QED BY <1>2, <2>0, <2>1, <2>2 DEF LookUpCopy
<1> QED BY <1>1, <1>2 DEF LookUpCopy

LEMMA LoadingUser ==
  ASSUME AccountsInv, NEW c \in Calls, LoadUser(c) PROVE AccountsInv'
<1>0. /\ UNCHANGED <<accountVars, faults>>
      /\ call[c].op \in UserOps /\ call[c].at = "select" /\ call[c].key \in Browsers
  BY DEF LoadUser, AccountsInv, CallInv, UserOps
<1>1. CASE Refuses(c)
  BY <1>0, <1>1, CallEnds DEF accountVars, switchVars, Ends, AccountsInv, AccountsTypeOK
<1>2. CASE Registered(call[c].user) /\ Reads(c, user[call[c].user], "keep")
  <2>0. PICK k \in UserIds : k = call[c].user /\ Created(k) /\ SameRights(k, user[k])
    BY <1>0, <1>2
       DEF AccountsInv, AccountsTypeOK, CallInv, ServingSteps, SameRights, Registered
  <2>1. /\ Moves(c) /\ call'[c].op = call[c].op /\ call'[c].key = call[c].key
        /\ call'[c].at = "keep" /\ call'[c].user = k /\ call'[c].got = user[k]
    BY <1>2, <2>0, ReadsFields DEF AccountsInv
  <2>2. Created(k)'
    BY <1>0, <2>0, <2>1, CreatedStays DEF Ends
  <2>3. CallInv(c)'
    BY <1>0, <2>0, <2>1, <2>2 DEF CallInv, At, SameRights, Registered, accountVars, switchVars,
       ChangesSettings, SettingsOps, UserOps
  <2> QED
    BY <1>0, <2>1, <2>3, CallMoves DEF accountVars, switchVars, Ends, AccountsInv, AccountsTypeOK
<1> QED BY <1>1, <1>2 DEF LoadUser

LEMMA CheckingPassword ==
  ASSUME AccountsInv, NEW c \in Calls, CheckOldPassword(c) PROVE AccountsInv'
<1>0. /\ UNCHANGED <<accountVars, faults>>
      /\ call[c].op = "password" /\ call[c].at = "check" /\ call[c].key \in Browsers
  BY DEF CheckOldPassword, At, AccountsInv, CallInv
<1>1. CASE Refuses(c)
  BY <1>0, <1>1, CallEnds DEF accountVars, switchVars, Ends, AccountsInv, AccountsTypeOK
<1>2. CASE /\ \E id \in WithEmail(call[c].got.email) :
                 user[id].secret = PersonOf(call[c].key)
           /\ Goto(c, "patch")
  <2>1. /\ Moves(c) /\ call'[c].op = "password" /\ call'[c].at = "patch"
        /\ call'[c].user = call[c].user
        /\ call'[c].key = call[c].key /\ call'[c].got = call[c].got
    BY <1>0, <1>2, GotoFields DEF AccountsInv
  <2>2. IsAuthorised(c)
    BY <1>2 DEF AccountsInv, EmailsAreUnique, PasswordsAreOwn, IsAuthorised, WithEmail
  <2>3. IsAuthorised(c)'
    BY <1>0, <2>1, <2>2 DEF IsAuthorised, WithEmail, Registered, accountVars, switchVars
  <2>4. PICK k \in UserIds : k = call[c].user /\ Created(k)
    BY <1>0 DEF AccountsInv, CallInv, UserOps, ServingSteps
  <2>5. Created(k)'
    BY <1>0, <2>1, <2>4, CreatedStays DEF Ends
  <2>6. CallInv(c)'
    BY <1>0, <2>1, <2>3, <2>4, <2>5 DEF CallInv, At, ChangesSettings, SettingsOps, UserOps
  <2> QED
    BY <1>0, <2>1, <2>6, CallMoves DEF accountVars, switchVars, Ends, AccountsInv, AccountsTypeOK
<1> QED BY <1>1, <1>2 DEF CheckOldPassword

LEMMA ShowingAccount ==
  ASSUME AccountsInv, NEW c \in Calls, ShowAccount(c) PROVE AccountsInv'
<1>1. UNCHANGED <<accountVars, faults>> /\ call[c].at = "page" /\ \E o : Answers(c, o)
  BY DEF ShowAccount, At
<1> QED BY <1>1, CallEnds DEF Ends, accountVars, switchVars, AccountsInv, AccountsTypeOK

-----------------------------------------------------------------------------
(* The settings row *)
LEMMA StartingServer ==
  ASSUME AccountsInv, NEW c \in Calls, StartServer(c) PROVE AccountsInv'
<1>1. /\ UNCHANGED <<accountVars, faults>> /\ call[c].at = "unused"
      /\ Starts(c, "sync", Nobody, Nothing, "read")
  BY DEF StartServer, Starts, Arrives
<1>2. Moves(c) /\ call'[c].op = "sync" /\ call'[c].at = "read"
  BY <1>1 DEF Starts, Unused, Moves, CallFields, AccountsInv, CallShape
<1>3. CallInv(c)'
  BY <1>2 DEF CallInv, At, UserOps, ChangesSettings
<1> QED
  BY <1>1, <1>2, <1>3, CallMoves
     DEF Ends, accountVars, switchVars, AccountsInv, AccountsTypeOK

LEMMA ReadingSettings ==
  ASSUME AccountsInv, NEW c \in Calls, ReadSettings(c) PROVE AccountsInv'
<1>0. /\ UNCHANGED <<accountVars, faults>>
      /\ call[c].op \in SettingsOps /\ call[c].at = "read" /\ CallInv(c)
  BY DEF ReadSettings, AccountsInv
<1>1. CASE Refuses(c)
  BY <1>0, <1>1, CallEnds DEF accountVars, switchVars, Ends, AccountsInv, AccountsTypeOK
<1>2. ASSUME NEW copy \in PatchedCopies(call[c].op), Reads(c, copy, "merge")
      PROVE  AccountsInv'
  <2>1. /\ Moves(c) /\ call'[c].op = call[c].op /\ call'[c].at = "merge"
        /\ call'[c].user = call[c].user /\ call'[c].key = call[c].key
        /\ call'[c].got = copy
    BY <1>2, ReadsFields DEF AccountsInv
  <2>2. copy \in BOOLEAN
    BY <1>2 DEF PatchedCopies, AccountsInv, AccountsTypeOK
  <2>3. call[c].op \in UserOps => call[c].user \in UserIds /\ Created(call[c].user)'
    BY <1>0, <2>1, CreatedStays DEF CallInv, ServingSteps, Ends
  <2>4. ChangesSettings(c)' => (Registered(call[c].user) => user[call[c].user].admin)'
    BY <1>0, <2>1 DEF CallInv, ChangesSettings, accountVars, Registered
  <2>5. CallInv(c)'
    BY <1>0, <2>1, <2>2, <2>3, <2>4 DEF CallInv, At, SettingsOps
  <2> QED
    BY <1>0, <2>1, <2>5, CallMoves
       DEF accountVars, switchVars, Ends, AccountsInv, AccountsTypeOK
<1> QED BY <1>1, <1>2 DEF ReadSettings

LEMMA MergingSettings ==
  ASSUME AccountsInv, NEW c \in Calls, MergeSettings(c) PROVE AccountsInv'
<1>1. /\ UNCHANGED <<user, session, copied, counted, crossed, taken, outdated, faults>>
      /\ call[c].at = "merge" /\ Answers(c, {})
      /\ open' \in BOOLEAN /\ overtaken' \subseteq Calls
  BY DEF MergeSettings, tallyVars, AccountsInv, AccountsTypeOK, CallInv
<1> QED BY <1>1, CallEnds DEF Ends, AccountsInv, AccountsTypeOK

-----------------------------------------------------------------------------
(* The copies *)
LEMMA KeepingCopy ==
  ASSUME AccountsInv, NEW c \in Calls, KeepCopy(c) PROVE AccountsInv'
<1>0. /\ UNCHANGED <<user, session, open, overtaken, counted, crossed, taken, faults>>
      /\ call[c].op \in UserOps /\ call[c].at = "keep" /\ call[c].key \in Browsers
  BY DEF KeepCopy, rowVars, switchVars, tallyVars, AccountsInv, CallInv, UserOps
<1>1. PICK k \in UserIds, row \in UserRows :
        k = call[c].user /\ row = call[c].got /\ Created(k) /\ SameRights(k, row)
  BY <1>0 DEF AccountsInv, CallInv, ServingSteps, SameRights
<1>2. /\ copied' = [copied EXCEPT ![k] = row]
      /\ outdated' = IF row # user[k] THEN outdated \cup {k} ELSE outdated
      /\ Serves(c, k, row)
  BY <1>1 DEF KeepCopy
<1>3. /\ Moves(c) /\ call'[c].op = call[c].op /\ call'[c].key = call[c].key
      /\ call'[c].at = FirstStep(call[c].op, row) /\ call'[c].user = k
  BY <1>2, ServesFields DEF AccountsInv
<1>4. Created(k)' /\ SameRights(k, row)'
  BY <1>0, <1>1, <1>3, CreatedStays DEF Ends, SameRights, Registered
<1>5. CallInv(c)'
  BY <1>0, <1>3, <1>4, ServingKnowsUser
<1>6. AccountsTypeOK' /\ faults' \in Nat
  BY <1>0, <1>1, <1>2 DEF AccountsInv, AccountsTypeOK
<1>7. RowsStay /\ PasswordsAreOwn'
  BY <1>0 DEF RowsStay, AccountsInv, PasswordsAreOwn, Registered
<1>8. StaleCopiesHaveReasons'
  <2>1. SUFFICES ASSUME NEW id \in UserIds, copied'[id] # Nothing, copied'[id] # user[id],
                        Registered(id), id \notin outdated', id \notin taken
                 PROVE  \E d \in Calls :
                          /\ call'[d].op \in {"prefs", "key", "password"}
                          /\ call'[d].user = id
                          /\ \/ call'[d].at = "clear"
                             \/ call'[d].at = "failed" /\ faults > 0
    BY <1>0 DEF StaleCopiesHaveReasons, Registered
  <2>2. id # k
    BY <1>2, <2>1 DEF AccountsInv, AccountsTypeOK
  <2>3. PICK d \in Calls : /\ call[d].op \in {"prefs", "key", "password"}
                           /\ call[d].user = id
                           /\ \/ call[d].at = "clear"
                              \/ call[d].at = "failed" /\ faults > 0
    BY <1>2, <2>1, <2>2 DEF AccountsInv, AccountsTypeOK, StaleCopiesHaveReasons
  <2> QED BY <1>0, <1>3, <2>3 DEF Moves
<1> QED
  BY <1>0, <1>1, <1>2, <1>3, <1>5, <1>6, <1>7, <1>8, StepKeeps
     DEF Ends, AccountsInv, AccountsTypeOK

LEMMA Clearing ==
  ASSUME AccountsInv, NEW c \in Calls, call[c].at = "clear", Clears(c) PROVE AccountsInv'
<1>0. /\ UNCHANGED <<user, session, open, overtaken, counted, crossed, taken, outdated, faults>>
      /\ copied' = [copied EXCEPT ![call[c].user] = Nothing]
  BY DEF Clears, rowVars, switchVars, tallyVars
<1>1. /\ Moves(c) /\ call'[c].at \in Ends
      /\ call'[c].op = call[c].op /\ call'[c].key = call[c].key
  BY EndFields DEF Clears, AccountsInv
<1>2. CallInv(c)'
  BY <1>1, EndIsFree DEF AccountsInv, CallInv
<1>3. AccountsTypeOK' /\ faults' \in Nat
  BY <1>0 DEF AccountsInv, AccountsTypeOK
<1>4. RowsStay /\ PasswordsAreOwn'
  BY <1>0 DEF RowsStay, AccountsInv, PasswordsAreOwn, Registered
<1>5. \A id \in UserIds :
        copied'[id] # Nothing => copied'[id] = copied[id] /\ id # call[c].user
  BY <1>0 DEF AccountsInv, AccountsTypeOK
<1>6. StaleCopiesHaveReasons'
  <2>1. SUFFICES ASSUME NEW id \in UserIds, id # call[c].user, NEW d \in Calls,
                        call[d].user = id
                 PROVE  call'[d] = call[d]
    BY <1>0, <1>5 DEF AccountsInv, StaleCopiesHaveReasons, Registered
  <2> QED BY <1>1, <2>1 DEF Moves
<1> QED BY <1>0, <1>1, <1>2, <1>3, <1>4, <1>5, <1>6, StepKeeps DEF Ends

LEMMA ForgettingCopy ==
  ASSUME AccountsInv, NEW id \in UserIds, ForgetCopy(id) PROVE AccountsInv'
<1>0. /\ UNCHANGED <<user, session, open, overtaken, counted, crossed, taken, outdated, call, faults>>
      /\ copied' = [copied EXCEPT ![id] = Nothing]
  BY DEF ForgetCopy, rowVars, switchVars, tallyVars, callVars
<1>1. /\ AccountsTypeOK'
      /\ \A i \in UserIds : copied'[i] # Nothing => copied'[i] = copied[i]
  BY <1>0 DEF AccountsInv, AccountsTypeOK
<1>2. CallShape' /\ faults' \in Nat /\ \A c \in Calls : CallInv(c)'
  BY <1>0 DEF AccountsInv, CallShape, CallInv, At, Created, SameRights, IsAuthorised,
     WithEmail, Registered, ChangesSettings
<1>3. IdsAreUsedOnce' /\ CopiesKeepRights' /\ EmailsAreUnique'
  BY <1>0, <1>1 DEF AccountsInv, IdsAreUsedOnce, CopiesKeepRights, EmailsAreUnique,
     Created, SameRights, Registered
<1>4. OneFirstAdmin' /\ PasswordsAreOwn' /\ StaleCopiesHaveReasons'
  BY <1>0, <1>1 DEF AccountsInv, OneFirstAdmin, PasswordsAreOwn, StaleCopiesHaveReasons,
     Registered
<1> QED BY <1>1, <1>2, <1>3, <1>4 DEF AccountsInv
-----------------------------------------------------------------------------
(* The rows *)

(* A change of the user's own row: its copy is about to be cleared *)
LEMMA RowChanges ==
  ASSUME AccountsInv, NEW c \in Calls, call[c].op \in {"key", "prefs"}, Goto(c, "clear"),
         call[c].at = "update",
         UNCHANGED <<session, open, overtaken, copied, counted, crossed, taken, outdated, faults>>,
         user' \in [UserIds -> UserRows \cup {Nothing}],
         \A id \in UserIds : user'[id] # user[id] =>
           /\ id = call[c].user /\ Registered(id)
           /\ \A f \in {"admin", "email", "person", "secret"} : user'[id][f] = user[id][f]
  PROVE  AccountsInv'
<1>1. /\ Moves(c) /\ call'[c].op = call[c].op /\ call'[c].at = "clear"
      /\ call'[c].user = call[c].user /\ call'[c].key = call[c].key
  BY GotoFields DEF AccountsInv
<1>2. PICK k \in UserIds : k = call[c].user /\ Created(k)
  BY DEF AccountsInv, CallInv, UserOps, ServingSteps
<1>3. Created(k)'
  BY <1>1, <1>2, CreatedStays DEF Ends
<1>4. CallInv(c)'
  BY <1>1, <1>2, <1>3 DEF AccountsInv, CallInv, At, ChangesSettings, SettingsOps, UserOps
<1>5. AccountsTypeOK' /\ faults' \in Nat
  BY DEF AccountsInv, AccountsTypeOK
<1>6. RowsStay /\ PasswordsAreOwn'
  BY DEF RowsStay, AccountsInv, PasswordsAreOwn, Registered
<1>7. StaleCopiesHaveReasons'
  <2>1. SUFFICES ASSUME NEW id \in UserIds, copied[id] # Nothing, copied[id] # user'[id],
                        Registered(id)', id \notin outdated, id \notin taken
                 PROVE  \E d \in Calls :
                          /\ call'[d].op \in {"prefs", "key", "password"}
                          /\ call'[d].user = id
                          /\ \/ call'[d].at = "clear"
                             \/ call'[d].at = "failed" /\ faults > 0
    BY DEF StaleCopiesHaveReasons, Registered
  <2>2. CASE user'[id] # user[id]
    BY <1>1, <2>2
  <2>3. CASE user'[id] = user[id]
    <3>1. PICK d \in Calls : /\ call[d].op \in {"prefs", "key", "password"}
                             /\ call[d].user = id
                             /\ \/ call[d].at = "clear"
                                \/ call[d].at = "failed" /\ faults > 0
      BY <2>1, <2>3 DEF AccountsInv, StaleCopiesHaveReasons, Registered
    <3> QED BY <1>1, <3>1 DEF Moves
  <2> QED BY <2>2, <2>3
<1> QED BY <1>1, <1>4, <1>5, <1>6, <1>7, StepKeeps DEF Ends

LEMMA SettingKeyOrPreference ==
  ASSUME AccountsInv, NEW c \in Calls, SetApiKey(c) \/ UpdatePreference(c)
  PROVE  AccountsInv'
<1> DEFINE k == call[c].user
<1>0. /\ UNCHANGED <<session, open, overtaken, copied, counted, crossed, taken, outdated, faults>>
      /\ call[c].op \in {"key", "prefs"} /\ call[c].at = "update"
      /\ k \in UserIds
  BY DEF SetApiKey, UpdatePreference, At, tallyVars, AccountsInv, CallInv, UserOps,
     ServingSteps, switchVars
<1>1. CASE user' = user /\ Refuses(c)
  BY <1>0, <1>1, CallEnds DEF Ends, AccountsInv, AccountsTypeOK
<1>2. CASE user' = user /\ Goto(c, "clear")
  BY <1>0, <1>2, RowChanges DEF AccountsInv, AccountsTypeOK
<1>3. CASE /\ Registered(k) /\ Goto(c, "clear")
           /\ user' \in {[user EXCEPT ![k].key = c], [user EXCEPT ![k].prefs = c]}
  <2>0. user[k] \in UserRows
    BY <1>0, <1>3 DEF AccountsInv, AccountsTypeOK, Registered
  <2>1. /\ user'[k] \in UserRows
        /\ \A f \in {"admin", "email", "person", "secret"} : user'[k][f] = user[k][f]
    BY <1>0, <1>3, <2>0 DEF UserRows, AccountsInv, AccountsTypeOK
  <2>2. \A id \in UserIds \ {k} : user'[id] = user[id]
    BY <1>0, <1>3 DEF AccountsInv, AccountsTypeOK
  <2>3. user' \in [UserIds -> UserRows \cup {Nothing}]
    BY <1>0, <1>3, <2>1, <2>2 DEF AccountsInv, AccountsTypeOK
  <2> QED BY <1>0, <1>3, <2>1, <2>2, <2>3, RowChanges
<1> QED BY <1>1, <1>2, <1>3 DEF SetApiKey, UpdatePreference, Registered

(* The rows of the email: they are of the person who changes the password,   *)
(* and had that password already, or were taken                             *)
LEMMA PatchingPassword ==
  ASSUME AccountsInv, NEW c \in Calls, PatchPassword(c) PROVE AccountsInv'
<1> DEFINE person == PersonOf(call[c].key)
           rows == WithEmail(call[c].got.email)
<1>0. /\ UNCHANGED <<session, open, overtaken, copied, counted, crossed, taken, outdated, faults>>
      /\ call[c].op = "password" /\ call[c].at = "patch" /\ IsAuthorised(c)
      /\ call[c].key \in Browsers /\ person \in People
  BY AccountsAssumption DEF PatchPassword, At, tallyVars, AccountsInv, CallInv, switchVars
<1>1. /\ Moves(c) /\ call'[c].op = "password" /\ call'[c].at = "clear"
      /\ call'[c].user = call[c].user /\ call'[c].key = call[c].key
  BY <1>0, GotoFields DEF PatchPassword, AccountsInv
<1>2. PICK k \in UserIds : k = call[c].user /\ Created(k)
  BY <1>0 DEF AccountsInv, CallInv, UserOps, ServingSteps
<1>3. Created(k)'
  BY <1>0, <1>1, <1>2, CreatedStays DEF Ends
<1>4. CallInv(c)'
  BY <1>0, <1>1, <1>2, <1>3 DEF CallInv, At, ChangesSettings, SettingsOps, UserOps
<1>5. \A id \in UserIds : user'[id] = IF id \in rows THEN [user[id] EXCEPT !.secret = person]
                                                     ELSE user[id]
  BY DEF PatchPassword
<1>6. ASSUME NEW id \in rows
      PROVE  /\ user[id] \in UserRows /\ user'[id] \in UserRows
             /\ user'[id].secret = person
             /\ \A f \in {"admin", "email", "person"} : user'[id][f] = user[id][f]
             /\ user[id].person = person \/ id \in taken
             /\ user'[id] = user[id] \/ id \in taken
  <2>1. id \in UserIds /\ user[id] \in UserRows
    BY DEF WithEmail, Registered, AccountsInv, AccountsTypeOK
  <2>2. user'[id] = [user[id] EXCEPT !.secret = person]
    BY <1>5, <2>1
  <2>3. user[id].person = person \/ id \in taken
    BY <1>0 DEF IsAuthorised
  <2>4. user[id].secret = user[id].person \/ id \in taken
    BY <2>1 DEF AccountsInv, PasswordsAreOwn, WithEmail
  <2>5. user[id].secret = person => user'[id] = user[id]
    BY <2>1, <2>2 DEF UserRows
  <2> QED BY <1>0, <2>1, <2>2, <2>3, <2>4, <2>5 DEF UserRows
<1>7. RowsStay /\ PasswordsAreOwn'
  BY <1>0, <1>5, <1>6 DEF RowsStay, WithEmail, AccountsInv, PasswordsAreOwn, Registered
<1>8. AccountsTypeOK' /\ faults' \in Nat
  <2>1. user' \in [UserIds -> UserRows \cup {Nothing}]
    BY <1>5, <1>6 DEF PatchPassword, AccountsInv, AccountsTypeOK
  <2> QED BY <1>0, <2>1 DEF AccountsInv, AccountsTypeOK
<1>9. StaleCopiesHaveReasons'
  <2>1. SUFFICES ASSUME NEW id \in UserIds, copied[id] # Nothing, copied[id] # user'[id],
                        Registered(id)', id \notin outdated, id \notin taken
                 PROVE  \E d \in Calls :
                          /\ call'[d].op \in {"prefs", "key", "password"}
                          /\ call'[d].user = id
                          /\ \/ call'[d].at = "clear"
                             \/ call'[d].at = "failed" /\ faults > 0
    BY <1>0 DEF StaleCopiesHaveReasons, Registered
  <2>2. user'[id] = user[id]
    BY <1>5, <1>6, <2>1
  <2>3. PICK d \in Calls : /\ call[d].op \in {"prefs", "key", "password"}
                           /\ call[d].user = id
                           /\ \/ call[d].at = "clear"
                              \/ call[d].at = "failed" /\ faults > 0
    BY <2>1, <2>2 DEF AccountsInv, StaleCopiesHaveReasons, Registered
  <2> QED BY <1>0, <1>1, <2>3 DEF Moves
<1> QED BY <1>0, <1>1, <1>4, <1>7, <1>8, <1>9, StepKeeps DEF Ends

LEMMA DeletingUser ==
  ASSUME AccountsInv, NEW c \in Calls, DeleteUser(c) PROVE AccountsInv'
<1> DEFINE k == call[c].user
<1>0. /\ UNCHANGED <<open, overtaken, copied, counted, crossed, taken, outdated, faults>>
      /\ call[c].at = "delete" /\ call[c].key \in Browsers
      /\ user' = [user EXCEPT ![k] = Nothing]
      /\ session' = [session EXCEPT ![call[c].key] = Nothing]
  BY DEF DeleteUser, At, tallyVars, AccountsInv, CallInv, switchVars, UserOps
<1>1. Moves(c) /\ call'[c].at \in Ends /\ call'[c].key = call[c].key
  BY EndFields DEF DeleteUser, AccountsInv
<1>2. CallInv(c)'
  BY <1>0, <1>1, EndIsFree
<1>3. /\ AccountsTypeOK' /\ faults' \in Nat
      /\ \A id \in UserIds : Registered(id)' => user'[id] = user[id]
      /\ \A b \in Browsers : session'[b] # Nothing => session'[b] = session[b]
  BY <1>0 DEF AccountsInv, AccountsTypeOK, Registered
<1>4. RowsStay /\ PasswordsAreOwn'
  BY <1>0, <1>3 DEF RowsStay, AccountsInv, PasswordsAreOwn, Registered
<1>5. StaleCopiesHaveReasons'
  <2>1. SUFFICES ASSUME NEW id \in UserIds, Registered(id)', NEW d \in Calls,
                        \/ call[d].at = "clear"
                        \/ call[d].at = "failed" /\ faults > 0
                 PROVE  call'[d] = call[d]
    BY <1>0, <1>3 DEF AccountsInv, StaleCopiesHaveReasons, Registered
  <2> QED BY <1>0, <1>1, <2>1 DEF Moves
<1> QED BY <1>0, <1>1, <1>2, <1>3, <1>4, <1>5, StepKeeps DEF Ends
(* The id of the new row is one that nothing names yet *)
LEMMA CreatingUser ==
  ASSUME AccountsInv, NEW c \in Calls, CreateUser(c) PROVE AccountsInv'
<1> DEFINE g == call[c].got
           b == call[c].key
<1>0. /\ UNCHANGED <<open, overtaken, copied, counted, outdated, faults>>
      /\ call[c].op = "signup" /\ call[c].at = "create" /\ b \in Browsers
      /\ g.email \in Emails /\ g.first \in BOOLEAN /\ PersonOf(b) \in People
      /\ g.first => c \in crossed \/ \A id \in UserIds : ~Registered(id)
  BY AccountsAssumption
     DEF CreateUser, At, rowVars, switchVars, tallyVars, AccountsInv, CallInv, UserOps
<1>1. CASE Refuses(c) /\ UNCHANGED <<rowVars, crossed, taken>>
  BY <1>0, <1>1, CallEnds DEF Ends, rowVars, switchVars, AccountsInv, AccountsTypeOK
<1>2. CASE WithEmail(g.email) = {} /\ ~(Refuses(c) /\ UNCHANGED <<rowVars, crossed, taken>>)
  <2> DEFINE row == NewUser(PersonOf(b), g.email, g.first)
  <2>0. /\ user' = [user EXCEPT ![c] = row]
        /\ session' = [session EXCEPT ![b] = c]
        /\ crossed' = crossed \cup {d \in Calls \ {c} : At(d, "signup", "create")}
        /\ taken' = IF \E d \in Calls : At(d, "password", "patch")
                                        /\ call[d].got.email = g.email
                      THEN taken \cup {c} ELSE taken
        /\ Answers(c, {})
    BY <1>2 DEF CreateUser
  <2>1. /\ row \in UserRows /\ row.email = g.email /\ row.admin = g.first
        /\ row.secret = row.person
    BY <1>0 DEF NewUser, UserRows
  <2>2. /\ \A d \in Calls \ {c} : call'[d] = call[d]
        /\ Moves(c) /\ call'[c].at = "answered" /\ call'[c].key = b
    BY <2>0 DEF Answers, Moves, CallFields, AccountsInv, CallShape
  <2>3. /\ c \in UserIds /\ user'[c] = row
        /\ \A id \in UserIds \ {c} : user'[id] = user[id]
        /\ crossed \subseteq crossed' /\ taken \subseteq taken'
        /\ \A id \in UserIds \ {c} : id \in taken' <=> id \in taken
    BY <2>0 DEF UserIds, AccountsInv, AccountsTypeOK
  <2>4. ASSUME NEW id, Created(id) PROVE id # c /\ Created(id)'
    BY <1>0, <2>2, <2>4 DEF Created
  <2>5. AccountsTypeOK' /\ CallShape' /\ faults' \in Nat
    BY <1>0, <2>0, <2>1, <2>2 DEF AccountsInv, AccountsTypeOK, UserIds, Moves, CallShape
  <2>6. ASSUME NEW d \in Calls, d # c PROVE CallInv(d)'
    <3>1. call'[d] = call[d] /\ CallInv(d)
      BY <2>2, <2>6 DEF AccountsInv
    <3>2. At(d, "signup", "create") => d \in crossed'
      BY <2>0, <2>6
    <3>3. ASSUME call[d].op \in UserOps, call[d].at \in ServingSteps
          PROVE  /\ call[d].user \in UserIds \ {c}
                 /\ Created(call[d].user)'
      <4>1. PICK k \in UserIds : k = call[d].user /\ Created(k)
        BY <3>1, <3>3 DEF CallInv
      <4> QED BY <2>4, <3>1, <4>1
    <3>4. call[d].op \in UserOps /\ call[d].at = "keep" =>
            SameRights(call[d].user, call[d].got)'
      BY <2>3, <3>1, <3>3 DEF CallInv, SameRights, Registered, ServingSteps
    <3>5. ChangesSettings(d) =>
            (Registered(call[d].user)' => user'[call[d].user].admin)
      BY <2>3, <3>1, <3>3 DEF CallInv, Registered, ServingSteps, ChangesSettings, UserOps
    <3>6. ASSUME At(d, "password", "patch") PROVE IsAuthorised(d)'
      <4>1. \A id \in WithEmail(call[d].got.email) :
              user[id].person = PersonOf(call[d].key) \/ id \in taken
        BY <3>1, <3>6 DEF CallInv, IsAuthorised
      <4>2. row.email = call[d].got.email => c \in taken'
        BY <2>0, <2>1, <3>6
      <4> QED BY <2>3, <3>1, <4>1, <4>2 DEF IsAuthorised, WithEmail, Registered
    <3> QED BY <3>1, <3>2, <3>3, <3>4, <3>5, <3>6 DEF CallInv, At, ChangesSettings
  <2>7. CallInv(c)'
    BY <1>0, <2>2, EndIsFree DEF Ends
  <2>8. IdsAreUsedOnce'
    <3>1. ASSUME NEW id \in UserIds, Registered(id)' \/ copied[id] # Nothing
          PROVE  Created(id)'
      <4>1. CASE id = c BY <2>2, <4>1 DEF Created
      <4>2. CASE id # c
        BY <2>3, <2>4, <3>1, <4>2 DEF AccountsInv, IdsAreUsedOnce, Registered
      <4> QED BY <4>1, <4>2
    <3>2. ASSUME NEW a \in Browsers, NEW id, session'[a] = id, id # Nothing
          PROVE  Created(id)'
      <4>1. id = c \/ id = session[a]
        BY <2>0, <3>2 DEF AccountsInv, AccountsTypeOK
      <4>2. CASE id = c BY <2>2, <4>2 DEF Created
      <4>3. CASE id = session[a]
        BY <2>4, <3>2, <4>3 DEF AccountsInv, IdsAreUsedOnce
      <4> QED BY <4>1, <4>2, <4>3
    <3> QED BY <1>0, <3>1, <3>2 DEF IdsAreUsedOnce, Created, Registered
  <2>9. \A id \in UserIds : copied[id] # Nothing => id # c
    BY <2>4 DEF AccountsInv, IdsAreUsedOnce
  <2>10. CopiesKeepRights'
    BY <1>0, <2>3, <2>9 DEF AccountsInv, CopiesKeepRights, SameRights, Registered
  <2>11. \A id \in UserIds : Registered(id) => user[id].email # g.email /\ id # c
    BY <1>2, <2>4 DEF WithEmail, AccountsInv, IdsAreUsedOnce
  <2>12. EmailsAreUnique'
    BY <2>1, <2>3, <2>11 DEF AccountsInv, EmailsAreUnique, Registered
  <2>13. OneFirstAdmin'
    <3>1. \A id \in UserIds : row.admin /\ Registered(id) => c \in crossed
      BY <1>0, <2>1
    <3> QED BY <2>3, <3>1 DEF AccountsInv, OneFirstAdmin, Registered
  <2>14. PasswordsAreOwn'
    BY <2>1, <2>3 DEF AccountsInv, PasswordsAreOwn, Registered
  <2>15. StaleCopiesHaveReasons'
    <3>1. SUFFICES ASSUME NEW id \in UserIds, id # c, copied[id] # Nothing,
                          copied[id] # user[id], Registered(id),
                          id \notin outdated, id \notin taken
                   PROVE  \E d \in Calls :
                            /\ call'[d].op \in {"prefs", "key", "password"}
                            /\ call'[d].user = id
                            /\ \/ call'[d].at = "clear"
                               \/ call'[d].at = "failed" /\ faults > 0
      BY <1>0, <2>3, <2>9 DEF StaleCopiesHaveReasons, Registered
    <3>2. PICK d \in Calls : /\ call[d].op \in {"prefs", "key", "password"}
                             /\ call[d].user = id
                             /\ \/ call[d].at = "clear"
                                \/ call[d].at = "failed" /\ faults > 0
      BY <3>1 DEF AccountsInv, StaleCopiesHaveReasons
    <3> QED BY <1>0, <2>2, <3>2
  <2> QED
    BY <2>5, <2>6, <2>7, <2>8, <2>10, <2>12, <2>13, <2>14, <2>15 DEF AccountsInv
<1> QED BY <1>1, <1>2 DEF CreateUser

-----------------------------------------------------------------------------
LEMMA AccountsStart == ASSUME AccountsInit, CallsInit PROVE AccountsInv
<1>1. /\ CallShape /\ faults \in Nat
      /\ \A c \in Calls : call[c].op = "none" /\ call[c].at = "unused"
  BY DEF CallsInit, CallShape, CallFields, Unused
<1>2. \A c \in Calls : CallInv(c)
  BY <1>1 DEF CallInv, At, UserOps, ChangesSettings, SettingsOps
<1>3. /\ AccountsTypeOK /\ crossed = {} /\ taken = {}
      /\ \A id \in UserIds : copied[id] = Nothing
      /\ \A id \in UserIds : Registered(id) => id = SeedUser
      /\ \A b \in Browsers : session[b] # Nothing => session[b] = SeedUser
      /\ Registered(SeedUser) => user[SeedUser].secret = user[SeedUser].person
  BY AccountsAssumption DEF AccountsInit, AccountsTypeOK, UserIds, Registered
<1>4. IdsAreUsedOnce /\ CopiesKeepRights
  BY <1>3, AccountsAssumption DEF IdsAreUsedOnce, CopiesKeepRights, Created
<1>5. EmailsAreUnique /\ OneFirstAdmin /\ PasswordsAreOwn /\ StaleCopiesHaveReasons
  BY <1>3 DEF EmailsAreUnique, OneFirstAdmin, PasswordsAreOwn, StaleCopiesHaveReasons
<1> QED BY <1>1, <1>2, <1>3, <1>4, <1>5 DEF AccountsInv

LEMMA AccountsStepKeepsInv ==
  ASSUME AccountsInv, [AccountsNext]_<<accountVars, callVars>> PROVE AccountsInv'
<1>1. CASE UNCHANGED <<accountVars, callVars>>
  BY <1>1 DEF accountVars, switchVars, callVars, AccountsInv, AccountsTypeOK, CallShape, CallInv, At,
     Created, SameRights, IsAuthorised, WithEmail, Registered, IdsAreUsedOnce,
     CopiesKeepRights, EmailsAreUnique, OneFirstAdmin, PasswordsAreOwn,
     StaleCopiesHaveReasons, ChangesSettings
<1>2. ASSUME NEW c \in Calls, ShowApiKey(c) \/ ShowPreference(c) \/ ConfirmPassword(c)
      PROVE  AccountsInv'
  BY <1>2, Clearing DEF ShowApiKey, ShowPreference, ConfirmPassword, At
<1>3. ASSUME NEW c \in Calls, AccountStep(c) PROVE AccountsInv'
  BY <1>2, <1>3, ReadingRegistration, CreatingUser, SigningIn, SigningOut, LookingUpCopy,
     LoadingUser, KeepingCopy, SettingKeyOrPreference, CheckingPassword, PatchingPassword,
     DeletingUser, ShowingAccount, ReadingSettings, MergingSettings, Visiting
     DEF AccountStep
<1> QED
  BY <1>1, <1>3, Requesting, StartingServer, Abandoning, ForgettingCopy DEF AccountsNext

LEMMA AccountsInvHolds == AccountsSpec => []AccountsInv
<1>1. AccountsInit /\ CallsInit => AccountsInv BY AccountsStart
<1>2. AccountsInv /\ [AccountsNext]_<<accountVars, callVars>> => AccountsInv'
  BY AccountsStepKeepsInv
<1> QED BY <1>1, <1>2, PTL DEF AccountsSpec

(* Rows, sessions and cached copies keep their shape whatever the requests,  *)
(* and the histories name users (types/user.rs).                            *)
THEOREM AccountsAreTyped == AccountsSpec => []AccountsTypeOK
BY AccountsInvHolds, PTL DEF AccountsInv

(* However many people register at once: of two administrators one had       *)
(* counted the users before the other was created (user.rs:235).            *)
THEOREM FirstAdminIsOne == AccountsSpec => []OneFirstAdmin
BY AccountsInvHolds, PTL DEF AccountsInv

(* A change of password reaches the row of another person only if the row   *)
(* was created while the change was under way (user.rs:269).                *)
THEOREM PasswordsStayOwn == AccountsSpec => []PasswordsAreOwn
BY AccountsInvHolds, PTL DEF AccountsInv

(* A copy that differs from its row is about to be cleared, or has one of    *)
(* the reasons of StaleCopiesHaveReasons (account/handlers.rs:78).          *)
THEOREM StaleCopiesAreExplained == AccountsSpec => []StaleCopiesHaveReasons
BY AccountsInvHolds, PTL DEF AccountsInv

-----------------------------------------------------------------------------
(* A copy of the settings row that no switch has overtaken has the value of  *)
(* the row                                                                  *)
CopiesAreCurrent ==
  \A c \in Calls : HoldsCopy(c) /\ c \notin overtaken => call[c].got = open

(* What the other steps of a request leave alone *)
LeavesSettings(c) == Moves(c) /\ call'[c].at # "merge" /\ UNCHANGED switchVars

LEMMA VisitorsLeaveSettings ==
  ASSUME CallShape, NEW c \in Calls,
         \/ ReadRegistration(c) \/ CountUsers(c) \/ CreateUser(c) \/ SignIn(c) \/ SignOut(c)
         \/ FindByApiKey(c) \/ AskVisitor(c) \/ MarkVisitor(c) \/ RecordPageView(c)
  PROVE  LeavesSettings(c)
<1>1. UNCHANGED switchVars
  BY DEF ReadRegistration, CountUsers, CreateUser, SignIn, SignOut, FindByApiKey,
     AskVisitor, MarkVisitor, RecordPageView, accountVars, rowVars
<1>2. CASE CountUsers(c)
  BY <1>1, <1>2 DEF CountUsers, LeavesSettings, Moves, CallShape, CallFields
<1>3. CASE ~CountUsers(c)
  <2>1. \/ Refuses(c) \/ \E o : Answers(c, o)
        \/ \E s \in {"count", "mark", "record"} : Goto(c, s) \/ \E r : Reads(c, r, s)
    BY <1>3 DEF ReadRegistration, CreateUser, SignIn, SignOut, FindByApiKey, AskVisitor,
       MarkVisitor, RecordPageView
  <2> QED
    BY <1>1, <2>1, EndFields, GotoFields, ReadsFields DEF LeavesSettings, Ends
<1> QED BY <1>2, <1>3

LEMMA UsersLeaveSettings ==
  ASSUME CallShape, NEW c \in Calls,
         \/ LookUpCopy(c) \/ LoadUser(c) \/ KeepCopy(c)
         \/ SetApiKey(c) \/ ShowApiKey(c) \/ UpdatePreference(c) \/ ShowPreference(c)
         \/ CheckOldPassword(c) \/ PatchPassword(c) \/ ConfirmPassword(c)
         \/ DeleteUser(c) \/ ShowAccount(c)
  PROVE  LeavesSettings(c)
<1>1. UNCHANGED switchVars
  BY DEF LookUpCopy, LoadUser, KeepCopy, SetApiKey, ShowApiKey, UpdatePreference,
     ShowPreference, CheckOldPassword, PatchPassword, ConfirmPassword, DeleteUser,
     ShowAccount, Clears, accountVars, rowVars
<1>2. ASSUME NEW id, NEW row, Serves(c, id, row), call[c].op \in UserOps
      PROVE  LeavesSettings(c)
  <2>1. FirstStep(call[c].op, row) # "merge"
    BY <1>2 DEF FirstStep, UserOps
  <2> QED BY <1>1, <1>2, <2>1, ServesFields DEF LeavesSettings
<1>3. CASE call' = [call EXCEPT ![c].user = session[call[c].key], ![c].at = "select"]
  BY <1>1, <1>3 DEF LeavesSettings, Moves, CallShape, CallFields
<1>4. ASSUME \/ Refuses(c) \/ \E o : Answers(c, o)
             \/ \E s \in {"keep", "clear", "patch"} : Goto(c, s) \/ \E r : Reads(c, r, s)
      PROVE  LeavesSettings(c)
  BY <1>1, <1>4, EndFields, GotoFields, ReadsFields DEF LeavesSettings, Ends
<1>5. CASE LookUpCopy(c)
  BY <1>2, <1>3, <1>4, <1>5 DEF LookUpCopy
<1>6. CASE KeepCopy(c)
  BY <1>2, <1>6 DEF KeepCopy
<1> QED
  BY <1>4, <1>5, <1>6
     DEF LoadUser, SetApiKey, ShowApiKey, UpdatePreference, ShowPreference,
         CheckOldPassword, PatchPassword, ConfirmPassword, DeleteUser, ShowAccount, Clears

LEMMA RequestsLeaveSettings ==
  ASSUME CallShape, NEW c \in Calls,
         AccountRequest(c) \/ StartServer(c) \/ (AbandonCall(c) /\ UNCHANGED accountVars)
  PROVE  LeavesSettings(c)
<1>1. UNCHANGED switchVars
  BY DEF AccountRequest, StartServer, accountVars
<1>2. CASE AccountRequest(c)
  <2>1. PICK b, o, s, sent : Sends(c, o, b, sent, s) /\ s # "merge"
    BY <1>2 DEF AccountRequest
  <2> QED BY <1>1, <2>1 DEF LeavesSettings, Sends, Unused, Moves, CallShape, CallFields
<1>3. CASE StartServer(c)
  BY <1>1, <1>3 DEF LeavesSettings, StartServer, Starts, Unused, Moves, CallShape, CallFields
<1>4. CASE AbandonCall(c)
  BY <1>1, <1>4, EndFields DEF AbandonCall, LeavesSettings, Ends
<1> QED BY <1>2, <1>3, <1>4

(* The steps of Accounts, told apart by what they do to the settings *)
LEMMA SettingsSteps ==
  ASSUME CallShape, AccountsNext
  PROVE  \/ \E c \in Calls : LeavesSettings(c) \/ ReadSettings(c) \/ MergeSettings(c)
         \/ UNCHANGED <<call, switchVars>>
<1>1. ASSUME NEW c \in Calls, AccountStep(c)
      PROVE  LeavesSettings(c) \/ ReadSettings(c) \/ MergeSettings(c)
  BY <1>1, VisitorsLeaveSettings, UsersLeaveSettings DEF AccountStep
<1>2. ASSUME NEW id \in UserIds, ForgetCopy(id) PROVE UNCHANGED <<call, switchVars>>
  BY <1>2 DEF ForgetCopy, rowVars, callVars
<1> QED BY <1>1, <1>2, RequestsLeaveSettings DEF AccountsNext

LEMMA CurrentCopies ==
  ASSUME CallShape, CopiesAreCurrent, AccountsNext PROVE CopiesAreCurrent'
<1>1. CASE UNCHANGED <<call, switchVars>>
  BY <1>1 DEF CopiesAreCurrent, HoldsCopy, switchVars
<1>2. ASSUME NEW c \in Calls, LeavesSettings(c) PROVE CopiesAreCurrent'
  BY <1>2 DEF LeavesSettings, Moves, CopiesAreCurrent, HoldsCopy, switchVars
<1>3. ASSUME NEW c \in Calls, ReadSettings(c) PROVE CopiesAreCurrent'
  <2>1. UNCHANGED switchVars
    BY <1>3 DEF ReadSettings, accountVars
  <2>2. CASE Refuses(c)
    BY <1>3, <2>1, <2>2, EndFields
       DEF Moves, Ends, CopiesAreCurrent, HoldsCopy, switchVars
  <2>3. ASSUME NEW copy \in PatchedCopies(call[c].op), Reads(c, copy, "merge")
        PROVE  CopiesAreCurrent'
    <3>1. /\ Moves(c) /\ call'[c].op = call[c].op /\ call'[c].got = copy
      BY <2>3, ReadsFields
    <3>2. call[c].op \in {"options", "sync"} => copy = open
      BY <2>3 DEF PatchedCopies
    <3> QED
      BY <2>1, <3>1, <3>2 DEF Moves, CopiesAreCurrent, HoldsCopy, switchVars
  <2> QED BY <1>3, <2>2, <2>3 DEF ReadSettings
<1>4. ASSUME NEW c \in Calls, MergeSettings(c) PROVE CopiesAreCurrent'
  <2>1. Moves(c) /\ call'[c].at \in Ends
    BY <1>4, EndFields DEF MergeSettings
  <2>2. ~HoldsCopy(c)' /\ \A d \in Calls \ {c} : HoldsCopy(d)' <=> HoldsCopy(d)
    BY <2>1 DEF Moves, Ends, HoldsCopy
  <2> QED BY <1>4, <2>1, <2>2 DEF MergeSettings, Moves, CopiesAreCurrent
<1> QED BY <1>1, <1>2, <1>3, <1>4, SettingsSteps

LEMMA CopiesStayCurrent == AccountsSpec => []CopiesAreCurrent
<1>1. AccountsInit /\ CallsInit => CopiesAreCurrent
  BY DEF CallsInit, Unused, CopiesAreCurrent, HoldsCopy
<1>2. AccountsInv /\ CopiesAreCurrent /\ [AccountsNext]_<<accountVars, callVars>>
        => CopiesAreCurrent'
  BY CurrentCopies
     DEF AccountsInv, CopiesAreCurrent, HoldsCopy, accountVars, switchVars, callVars
<1> QED BY <1>1, <1>2, AccountsInvHolds, PTL DEF AccountsSpec

(* Registration is switched by an administrator's toggle, or by one whose    *)
(* account has been deleted and who was let in on a cached copy; and by the *)
(* merge of a copy of the settings row that such a switch has overtaken,    *)
(* of an administrator's other change or of a server that starts            *)
(* (system_settings.rs:118, auth_middleware.rs:56).                         *)
THEOREM AdminsAloneSwitch == AccountsSpec => SettingsByAdmins
<1> DEFINE Switches(c) ==
      /\ call'[c] # call[c] /\ call[c].at = "merge"
      /\ call[c].op = "toggle" \/ c \in overtaken
      /\ call[c].op # "sync" /\ Registered(call[c].user) => user[call[c].user].admin
<1>1. ASSUME AccountsInv, CopiesAreCurrent, AccountsNext, open' # open
      PROVE  \E c \in Calls : Switches(c)
  <2>1. PICK c \in Calls : MergeSettings(c)
    BY <1>1, SettingsSteps
       DEF AccountsInv, LeavesSettings, ReadSettings, accountVars, switchVars
  <2>2. /\ call'[c].at \in Ends /\ call[c].at = "merge" /\ call[c].op \in SettingsOps
        /\ open' = call[c].got
    BY <1>1, <2>1, EndFields DEF MergeSettings, AccountsInv
  <2>3. call[c].op = "toggle" \/ c \in overtaken
    BY <1>1, <2>2 DEF CopiesAreCurrent, HoldsCopy, SettingsOps
  <2>4. call[c].op # "sync" /\ Registered(call[c].user) => user[call[c].user].admin
    BY <1>1, <2>2 DEF AccountsInv, CallInv, ChangesSettings, SettingsOps
  <2> QED BY <2>2, <2>3, <2>4 DEF Ends
<1>2. AccountsInv /\ CopiesAreCurrent /\ [AccountsNext]_<<accountVars, callVars>> =>
        [open' # open => \E c \in Calls : Switches(c)]_<<accountVars, callVars>>
  BY <1>1
<1> QED
  BY <1>2, AccountsInvHolds, CopiesStayCurrent, PTL DEF AccountsSpec, SettingsByAdmins

-----------------------------------------------------------------------------
(* Scratchpads *)

RowFields == {"owner", "text", "archived", "ingested"}

(* What the rest needs of the shape of rows and calls *)
Shape ==
  /\ DOMAIN call = Calls /\ \A c \in Calls : DOMAIN call[c] = CallFields
  /\ DOMAIN pad = Pads /\ \A p \in Pads : pad[p] # Nothing => DOMAIN pad[p] = RowFields

Ingesting(c, steps) == call[c].op = "ingest" /\ call[c].at \in steps

(* What an ingestion has read is in the row, unless a save came late *)
HoldsText(c) ==
  LET p == call[c].key
  IN pad[p] # Nothing => pad[p].text = call[c].got \/ p \in late

OnAPad(c) == call[c].op \in PadOps => call[c].key \in Pads

HasQueued(c) == <<c, call[c].key, call[c].got>> \in queued

IngestInv ==
  /\ Shape
  /\ \A c \in Calls :
       /\ OnAPad(c)
       /\ Ingesting(c, IngestSteps) => HoldsText(c)
       /\ Ingesting(c, IngestSteps \ {"queue"}) => HasQueued(c)
  /\ IngestedTextIsQueued

LEMMA IngestInit == ASSUME PadsInit, CallsInit PROVE IngestInv
<1>1. Shape
  BY DEF PadsInit, CallsInit, Shape, NewPad, Unused, CallFields, RowFields
<1>2. \A c \in Calls : call[c].op = "none"
  BY DEF CallsInit, Unused
<1>3. IngestedTextIsQueued
  BY DEF PadsInit, NewPad, IngestedTextIsQueued
<1> QED BY <1>1, <1>2, <1>3 DEF IngestInv, Ingesting, OnAPad, PadOps

(* A statement that leaves the pads alone: the call moves to a step that is  *)
(* not one of an ingestion, or to one with the same text in hand            *)
LEMMA PadCallMoves ==
  ASSUME IngestInv, NEW c \in Calls,
         pad' = pad, late' = late, queued \subseteq queued',
         DOMAIN call' = Calls, DOMAIN call'[c] = CallFields,
         \A d \in Calls \ {c} : call'[d] = call[d],
         OnAPad(c)',
         Ingesting(c, IngestSteps)' => HoldsText(c)',
         Ingesting(c, IngestSteps \ {"queue"})' => HasQueued(c)'
  PROVE  IngestInv'
<1>1. Shape'
  BY DEF IngestInv, Shape
<1>2. IngestedTextIsQueued'
  BY DEF IngestInv, IngestedTextIsQueued
<1>3. ASSUME NEW d \in Calls
      PROVE  /\ OnAPad(d)'
             /\ (Ingesting(d, IngestSteps) => HoldsText(d))'
             /\ (Ingesting(d, IngestSteps \ {"queue"}) => HasQueued(d))'
  <2>1. CASE d = c BY <2>1
  <2>2. CASE d # c
    BY <2>2 DEF IngestInv, OnAPad, Ingesting, HoldsText, HasQueued
  <2> QED BY <2>1, <2>2
<1> QED BY <1>1, <1>2, <1>3 DEF IngestInv

(* A statement that changes one row at most: where an ingestion has the      *)
(* text in hand the row keeps it or counts as saved late, and the call does *)
(* not go on with an ingestion                                              *)
LEMMA PadRowChanges ==
  ASSUME IngestInv, NEW c \in Calls, NEW p \in Pads,
         DOMAIN pad' = Pads, \A o \in Pads \ {p} : pad'[o] = pad[o],
         pad'[p] # Nothing => DOMAIN pad'[p] = RowFields,
         queued' = queued, late \subseteq late',
         \A d \in Calls \ {c} :
           Ingesting(d, IngestSteps) /\ call[d].key = p /\ pad'[p] # Nothing =>
             p \in late' \/ (pad[p] # Nothing /\ pad'[p].text = pad[p].text),
         pad'[p] # Nothing /\ pad'[p].ingested =>
           \E q \in queued : q[2] = p /\ (q[3] = pad'[p].text \/ p \in late'),
         DOMAIN call' = Calls, DOMAIN call'[c] = CallFields,
         \A d \in Calls \ {c} : call'[d] = call[d],
         OnAPad(c)', call'[c].at \notin IngestSteps
  PROVE  IngestInv'
<1>1. Shape'
  BY DEF IngestInv, Shape
<1>2. IngestedTextIsQueued'
  BY DEF IngestInv, IngestedTextIsQueued
<1>3. ASSUME NEW d \in Calls
      PROVE  /\ OnAPad(d)'
             /\ (Ingesting(d, IngestSteps) => HoldsText(d))'
             /\ (Ingesting(d, IngestSteps \ {"queue"}) => HasQueued(d))'
  <2>1. CASE d = c BY <2>1 DEF Ingesting
  <2>2. CASE d # c
    <3>1. OnAPad(d)' /\ (Ingesting(d, IngestSteps \ {"queue"}) => HasQueued(d))'
      BY <2>2 DEF IngestInv, OnAPad, Ingesting, HasQueued
    <3>2. ASSUME Ingesting(d, IngestSteps) PROVE HoldsText(d)'
      <4>1. call[d].key \in Pads /\ HoldsText(d) /\ call'[d] = call[d]
        BY <2>2, <3>2 DEF IngestInv, OnAPad, Ingesting, PadOps
      <4> QED BY <2>2, <3>2, <4>1 DEF HoldsText
    <3>3. Ingesting(d, IngestSteps)' => Ingesting(d, IngestSteps)
      BY <2>2 DEF Ingesting
    <3> QED BY <3>1, <3>2, <3>3
  <2> QED BY <2>1, <2>2
<1> QED BY <1>1, <1>2, <1>3 DEF IngestInv

(* The ways a call moves on *)
LEMMA PadGotoFields ==
  ASSUME Shape, NEW c \in Calls, NEW s, Goto(c, s)
  PROVE  /\ DOMAIN call' = Calls /\ DOMAIN call'[c] = CallFields
         /\ \A d \in Calls \ {c} : call'[d] = call[d]
         /\ call'[c].op = call[c].op /\ call'[c].at = s
         /\ call'[c].key = call[c].key /\ call'[c].got = call[c].got
BY DEF Shape, Goto, CallFields

LEMMA PadReadsFields ==
  ASSUME Shape, NEW c \in Calls, NEW r, NEW s, Reads(c, r, s)
  PROVE  /\ DOMAIN call' = Calls /\ DOMAIN call'[c] = CallFields
         /\ \A d \in Calls \ {c} : call'[d] = call[d]
         /\ call'[c].op = call[c].op /\ call'[c].at = s
         /\ call'[c].key = call[c].key /\ call'[c].got = r
BY DEF Shape, Reads, CallFields

LEMMA AnswersFields ==
  ASSUME Shape, NEW c \in Calls, NEW o, Answers(c, o)
  PROVE  /\ DOMAIN call' = Calls /\ DOMAIN call'[c] = CallFields
         /\ \A d \in Calls \ {c} : call'[d] = call[d]
         /\ call'[c].op = call[c].op /\ call'[c].at = "answered"
         /\ call'[c].key = call[c].key
BY DEF Shape, Answers, CallFields

LEMMA StartsFields ==
  ASSUME Shape, NEW c \in Calls, NEW o, NEW u, NEW k, NEW s, Starts(c, o, u, k, s)
  PROVE  /\ DOMAIN call' = Calls /\ DOMAIN call'[c] = CallFields
         /\ \A d \in Calls \ {c} : call'[d] = call[d]
         /\ call'[c].op = o /\ call'[c].at = s /\ call'[c].key = k
BY DEF Shape, Starts, CallFields, Unused

-----------------------------------------------------------------------------
(* A call moved, and where it is now is not a step of an ingestion *)
LEMMA OtherMoves ==
  ASSUME IngestInv, NEW c \in Calls, UNCHANGED padVars,
         DOMAIN call' = Calls, DOMAIN call'[c] = CallFields,
         \A d \in Calls \ {c} : call'[d] = call[d],
         OnAPad(c)', call'[c].at \notin IngestSteps
  PROVE  IngestInv'
BY PadCallMoves DEF Ingesting, padVars

LEMMA PadCallEnds ==
  ASSUME IngestInv, NEW c \in Calls, UNCHANGED padVars,
         Refuses(c) \/ Fails(c) \/ \E o : Answers(c, o)
  PROVE  IngestInv'
<1>1. /\ DOMAIN call' = Calls /\ DOMAIN call'[c] = CallFields
      /\ \A d \in Calls \ {c} : call'[d] = call[d]
      /\ call'[c].at \in {"answered", "refused", "failed"}
      /\ call'[c].op = call[c].op /\ call'[c].key = call[c].key
  BY PadReadsFields, AnswersFields DEF IngestInv, Refuses, Fails
<1>2. OnAPad(c)'
  BY <1>1 DEF IngestInv, OnAPad
<1> QED BY <1>1, <1>2, OtherMoves DEF IngestSteps

LEMMA ReadingPad ==
  ASSUME IngestInv, NEW c \in Calls, ReadPad(c) PROVE IngestInv'
<1> DEFINE row == pad[call[c].key]
           next == AfterRead(call[c].op, row)
<1>0. UNCHANGED padVars /\ call[c].op \in PadOps /\ call[c].key \in Pads
  BY DEF ReadPad, IngestInv, OnAPad
<1>1. CASE Refuses(c) \/ Answers(c, {row.owner})
  BY <1>0, <1>1, PadCallEnds
<1>2. CASE Reads(c, row.text, next)
  <2>1. /\ DOMAIN call' = Calls /\ DOMAIN call'[c] = CallFields
        /\ \A d \in Calls \ {c} : call'[d] = call[d]
        /\ call'[c].op = call[c].op /\ call'[c].at = next
        /\ call'[c].key = call[c].key /\ call'[c].got = row.text
    BY <1>2, PadReadsFields DEF IngestInv
  <2>2. OnAPad(c)' /\ HoldsText(c)'
    BY <1>0, <2>1 DEF OnAPad, HoldsText, padVars
  <2>3. call[c].op = "ingest" => next \in {"refused", "queue"}
    BY DEF AfterRead
  <2>4. ~Ingesting(c, IngestSteps \ {"queue"})'
    BY <2>1, <2>3 DEF Ingesting, IngestSteps
  <2> QED BY <1>0, <2>1, <2>2, <2>4, PadCallMoves DEF padVars
<1> QED BY <1>1, <1>2 DEF ReadPad

LEMMA RetitlingPad ==
  ASSUME IngestInv, NEW c \in Calls, RetitlePad(c) PROVE IngestInv'
BY PadCallEnds DEF RetitlePad

LEMMA ListingPads ==
  ASSUME IngestInv, NEW c \in Calls, ListActivePads(c) \/ ListArchivedPads(c)
  PROVE  IngestInv'
<1>0. UNCHANGED padVars
  BY DEF ListActivePads, ListArchivedPads
<1>1. CASE ListActivePads(c)
  <2>1. /\ DOMAIN call' = Calls /\ DOMAIN call'[c] = CallFields
        /\ \A d \in Calls \ {c} : call'[d] = call[d]
        /\ call'[c].op = call[c].op /\ call'[c].at = "archived"
        /\ call'[c].key = call[c].key
    BY <1>1, PadReadsFields DEF ListActivePads, IngestInv
  <2>2. OnAPad(c)'
    BY <2>1 DEF IngestInv, OnAPad
  <2> QED BY <1>0, <2>1, <2>2, OtherMoves DEF IngestSteps
<1>2. CASE ListArchivedPads(c)
  BY <1>0, <1>2, PadCallEnds DEF ListArchivedPads
<1> QED BY <1>1, <1>2

-----------------------------------------------------------------------------
(* The ingestion itself *)
LEMMA QueuingPad ==
  ASSUME IngestInv, NEW c \in Calls, QueuePad(c) PROVE IngestInv'
<1>1. /\ DOMAIN call' = Calls /\ DOMAIN call'[c] = CallFields
      /\ \A d \in Calls \ {c} : call'[d] = call[d]
      /\ call'[c].op = call[c].op /\ call'[c].at = "look"
      /\ call'[c].key = call[c].key /\ call'[c].got = call[c].got
  BY PadGotoFields DEF QueuePad, IngestInv
<1>2. OnAPad(c)' /\ HoldsText(c)'
  BY <1>1 DEF QueuePad, At, IngestInv, OnAPad, Ingesting, IngestSteps, HoldsText
<1>3. HasQueued(c)'
  BY <1>1 DEF QueuePad, HasQueued
<1> QED BY <1>1, <1>2, <1>3, PadCallMoves DEF QueuePad

LEMMA LookingAtPad ==
  ASSUME IngestInv, NEW c \in Calls, LookAtIngestedPad(c) PROVE IngestInv'
<1>0. UNCHANGED padVars /\ Ingesting(c, {"look"})
  BY DEF LookAtIngestedPad, At, Ingesting
<1>1. CASE Refuses(c)
  BY <1>0, <1>1, PadCallEnds
<1>2. CASE \E s \in {"lists", "mark", "archive"} : Goto(c, s)
  <2>1. /\ DOMAIN call' = Calls /\ DOMAIN call'[c] = CallFields
        /\ \A d \in Calls \ {c} : call'[d] = call[d]
        /\ call'[c].op = call[c].op
        /\ call'[c].key = call[c].key /\ call'[c].got = call[c].got
    BY <1>2, PadGotoFields DEF IngestInv
  <2>2. OnAPad(c)' /\ HoldsText(c)' /\ HasQueued(c)'
    BY <1>0, <2>1
       DEF padVars, IngestInv, OnAPad, Ingesting, IngestSteps, HoldsText, HasQueued
  <2> QED BY <1>0, <2>1, <2>2, PadCallMoves DEF padVars
<1> QED BY <1>1, <1>2 DEF LookAtIngestedPad

(* The statements that mark the row: what they find in it, if it is there, is *)
(* what the ingestion has queued, or was saved late                           *)
LEMMA MarkingPad ==
  ASSUME IngestInv, NEW c \in Calls, ArchivePad(c) \/ MarkPad(c) \/ RestorePad(c)
  PROVE  IngestInv'
<1> DEFINE p == call[c].key
<1>0. p \in Pads /\ queued' = queued /\ late' = late
  BY DEF ArchivePad, MarkPad, RestorePad, At, IngestInv, OnAPad, PadOps
<1>1. /\ DOMAIN call' = Calls /\ DOMAIN call'[c] = CallFields
      /\ \A d \in Calls \ {c} : call'[d] = call[d]
      /\ call'[c].op = call[c].op /\ call'[c].key = call[c].key
      /\ call'[c].at \in {"lists", "refused"}
  BY PadGotoFields, PadReadsFields DEF ArchivePad, MarkPad, RestorePad, Refuses, IngestInv
<1>2. OnAPad(c)' /\ call'[c].at \notin IngestSteps
  BY <1>1 DEF IngestInv, OnAPad, IngestSteps
<1>3. /\ DOMAIN pad' = Pads /\ \A o \in Pads \ {p} : pad'[o] = pad[o]
      /\ pad'[p] # Nothing => /\ DOMAIN pad'[p] = RowFields
                              /\ pad[p] # Nothing /\ pad'[p].text = pad[p].text
      /\ pad'[p] # Nothing /\ pad'[p].ingested => Ingesting(c, {"archive", "mark"})
  BY <1>0 DEF ArchivePad, MarkPad, RestorePad, At, PatchPad, IngestInv, Shape,
     RowFields, Ingesting
<1>4. ASSUME pad'[p] # Nothing, pad'[p].ingested
      PROVE  \E q \in queued : q[2] = p /\ (q[3] = pad'[p].text \/ p \in late')
  <2>1. HasQueued(c) /\ HoldsText(c)
    BY <1>3, <1>4 DEF IngestInv, Ingesting, IngestSteps
  <2> QED BY <1>0, <1>3, <1>4, <2>1 DEF HasQueued, HoldsText
<1> QED BY <1>0, <1>1, <1>2, <1>3, <1>4, PadRowChanges

-----------------------------------------------------------------------------
(* The other requests *)
LEMMA WritingPad ==
  ASSUME IngestInv, NEW c \in Calls, NEW text \in Texts, WritePad(c, text)
  PROVE  IngestInv'
<1> DEFINE p == call[c].key
<1>0. p \in Pads /\ queued' = queued /\ late \subseteq late'
  BY DEF WritePad, At, IngestInv, OnAPad, PadOps
<1>1. /\ DOMAIN call' = Calls /\ DOMAIN call'[c] = CallFields
      /\ \A d \in Calls \ {c} : call'[d] = call[d]
      /\ call'[c].op = call[c].op /\ call'[c].key = call[c].key
      /\ call'[c].at \in {"answered", "refused"}
  BY AnswersFields, PadReadsFields DEF WritePad, Refuses, IngestInv
<1>2. OnAPad(c)' /\ call'[c].at \notin IngestSteps
  BY <1>1 DEF IngestInv, OnAPad, IngestSteps
<1>3. /\ DOMAIN pad' = Pads /\ \A o \in Pads \ {p} : pad'[o] = pad[o]
      /\ pad'[p] # Nothing => /\ DOMAIN pad'[p] = RowFields
                              /\ pad[p] # Nothing /\ pad'[p].ingested = pad[p].ingested
  BY <1>0 DEF WritePad, PatchPad, IngestInv, Shape, RowFields
<1>4. ASSUME pad'[p] # Nothing, pad'[p].ingested
      PROVE  \E q \in queued : q[2] = p /\ (q[3] = pad'[p].text \/ p \in late')
  <2>1. PICK q \in queued : q[2] = p
    BY <1>0, <1>3, <1>4 DEF IngestInv, IngestedTextIsQueued
  <2>2. p \in late'
    BY <1>3, <1>4 DEF WritePad
  <2> QED BY <2>1, <2>2
<1>5. \A d \in Calls \ {c} :
        Ingesting(d, IngestSteps) /\ call[d].key = p /\ pad'[p] # Nothing => p \in late'
  BY <1>3 DEF WritePad, Ingesting
<1> QED BY <1>0, <1>1, <1>2, <1>3, <1>4, <1>5, PadRowChanges

LEMMA DeletingPad ==
  ASSUME IngestInv, NEW c \in Calls, DeletePad(c) PROVE IngestInv'
<1> DEFINE p == call[c].key
<1>0. p \in Pads /\ queued' = queued /\ late' = late
  BY DEF DeletePad, At, IngestInv, OnAPad, PadOps
<1>1. /\ DOMAIN call' = Calls /\ DOMAIN call'[c] = CallFields
      /\ \A d \in Calls \ {c} : call'[d] = call[d]
      /\ call'[c].op = call[c].op /\ call'[c].key = call[c].key
      /\ call'[c].at = "lists"
  BY PadGotoFields DEF DeletePad, IngestInv
<1>2. OnAPad(c)' /\ call'[c].at \notin IngestSteps
  BY <1>1 DEF IngestInv, OnAPad, IngestSteps
<1>3. DOMAIN pad' = Pads /\ (\A o \in Pads \ {p} : pad'[o] = pad[o]) /\ pad'[p] = Nothing
  BY <1>0 DEF DeletePad, IngestInv, Shape
<1> QED BY <1>0, <1>1, <1>2, <1>3, PadRowChanges

LEMMA CreatingPad ==
  ASSUME IngestInv, NEW c \in Calls, NEW u \in Users, NEW p \in Pads, CreatePad(c, u, p)
  PROVE  IngestInv'
<1>1. /\ DOMAIN call' = Calls /\ DOMAIN call'[c] = CallFields
      /\ \A d \in Calls \ {c} : call'[d] = call[d]
      /\ call'[c].op = "create" /\ call'[c].at = "lists"
  BY StartsFields DEF CreatePad, IngestInv
<1>2. OnAPad(c)' /\ call'[c].at \notin IngestSteps
  BY <1>1 DEF OnAPad, IngestSteps, PadOps
<1>3. /\ DOMAIN pad' = Pads /\ \A o \in Pads \ {p} : pad'[o] = pad[o]
      /\ DOMAIN pad'[p] = RowFields /\ ~pad'[p].ingested
      /\ queued' = queued /\ late' = late
  BY DEF CreatePad, NewPad, IngestInv, Shape, RowFields
<1>4. \A d \in Calls : call[d].key # p
  BY DEF CreatePad
<1> QED BY <1>1, <1>2, <1>3, <1>4, PadRowChanges

LEMMA RequestingPad ==
  ASSUME IngestInv, NEW c \in Calls, NEW u \in Users, PadRequest(c, u)
  PROVE  IngestInv'
<1>1. /\ DOMAIN call' = Calls /\ DOMAIN call'[c] = CallFields
      /\ \A d \in Calls \ {c} : call'[d] = call[d]
      /\ call'[c].at \in {"read", "lists"}
      /\ call'[c].op = "index" \/ call'[c].key \in Pads
  BY StartsFields DEF PadRequest, IngestInv
<1>2. OnAPad(c)' /\ call'[c].at \notin IngestSteps /\ UNCHANGED padVars
  BY <1>1 DEF OnAPad, IngestSteps, PadOps, PadRequest
<1> QED BY <1>1, <1>2, OtherMoves

LEMMA IngestStep == ASSUME IngestInv, [PadsNext]_<<padVars, callVars>> PROVE IngestInv'
<1>1. CASE UNCHANGED <<padVars, callVars>>
  BY <1>1 DEF padVars, callVars, IngestInv, Shape, OnAPad, Ingesting, HoldsText,
     HasQueued, IngestedTextIsQueued
<1>2. ASSUME NEW c \in Calls, PadStep(c) PROVE IngestInv'
  BY <1>2, ReadingPad, RetitlingPad, DeletingPad, WritingPad, QueuingPad, LookingAtPad,
     MarkingPad, ListingPads DEF PadStep
<1>3. ASSUME NEW c \in Calls, AbandonCall(c), UNCHANGED padVars PROVE IngestInv'
  BY <1>3, PadCallEnds DEF AbandonCall
<1> QED BY <1>1, <1>2, <1>3, RequestingPad, CreatingPad DEF PadsNext

(* However many requests are served at once: a pad marked as ingested has a  *)
(* queued task with its text, unless a save was late                        *)
(* (scratchpad/handlers.rs:291-330).                                        *)
THEOREM IngestedPadsAreQueued == PadsSpec => []IngestedTextIsQueued
<1>1. PadsInit /\ CallsInit => IngestInv BY IngestInit
<1>2. IngestInv /\ [PadsNext]_<<padVars, callVars>> => IngestInv' BY IngestStep
<1>3. IngestInv => IngestedTextIsQueued BY DEF IngestInv
<1> QED BY <1>1, <1>2, <1>3, PTL DEF PadsSpec

-----------------------------------------------------------------------------
(* The types of pads *)

PadRows == [owner : Users, text : Texts \cup {Blank}, archived : BOOLEAN, ingested : BOOLEAN]

(* An ingestion queues a text that was read from a row *)
HasText(c) == Ingesting(c, {"queue"}) => call[c].got \in Texts \cup {Blank}

PadsTyped == PadsTypeOK /\ \A c \in Calls : HasText(c)

LEMMA PadsTypedInit == ASSUME PadsInit, CallsInit PROVE PadsTyped
<1>1. PadsTypeOK
  BY ScratchpadsAssumption DEF PadsInit, NewPad, PadsTypeOK
<1>2. \A c \in Calls : HasText(c)
  BY DEF CallsInit, Unused, HasText, Ingesting
<1> QED BY <1>1, <1>2 DEF PadsTyped

LEMMA RowTyped == ASSUME PadsTyped, NEW p \in Pads, pad[p] # Nothing PROVE pad[p] \in PadRows
BY DEF PadsTyped, PadsTypeOK, PadRows

(* One row at most changes, and one call *)
LEMMA PadsStayTyped ==
  ASSUME PadsTyped, NEW c \in Calls, NEW p,
         DOMAIN pad' = Pads, \A o \in Pads \ {p} : pad'[o] = pad[o],
         p \in Pads => pad'[p] \in PadRows \cup {Nothing},
         queued' \subseteq Calls \X Pads \X (Texts \cup {Blank}), late' \subseteq Pads,
         pad' = [o \in Pads |-> pad'[o]],
         \A d \in Calls \ {c} : call'[d] = call[d],
         HasText(c)'
  PROVE  PadsTyped'
<1>1. \A o \in Pads : pad'[o] \in PadRows \cup {Nothing}
  BY DEF PadsTyped, PadsTypeOK, PadRows
<1>2. pad' \in [Pads -> PadRows \cup {Nothing}]
  BY <1>1
<1>3. \A d \in Calls : HasText(d)'
  BY DEF PadsTyped, HasText, Ingesting
<1> QED BY <1>2, <1>3 DEF PadsTyped, PadsTypeOK, PadRows

(* A statement that changes no row *)
LEMMA TypedCallMoves ==
  ASSUME PadsTyped, NEW c \in Calls, UNCHANGED padVars,
         \A d \in Calls \ {c} : call'[d] = call[d], HasText(c)'
  PROVE  PadsTyped'
<1>1. PadsTypeOK'
  BY DEF PadsTyped, PadsTypeOK, padVars
<1>2. \A d \in Calls : HasText(d)'
  BY DEF PadsTyped, HasText, Ingesting
<1> QED BY <1>1, <1>2 DEF PadsTyped

LEMMA TypedCallEnds ==
  ASSUME IngestInv, PadsTyped, NEW c \in Calls, UNCHANGED padVars,
         Refuses(c) \/ Fails(c) \/ \E o : Answers(c, o)
  PROVE  PadsTyped'
<1>1. (\A d \in Calls \ {c} : call'[d] = call[d]) /\ call'[c].at \in {"answered", "refused", "failed"}
  BY PadReadsFields, AnswersFields DEF IngestInv, Refuses, Fails
<1>2. HasText(c)'
  BY <1>1 DEF HasText, Ingesting
<1> QED BY <1>1, <1>2, TypedCallMoves

LEMMA ReadingTyped ==
  ASSUME IngestInv, PadsTyped, NEW c \in Calls, ReadPad(c) PROVE PadsTyped'
<1> DEFINE row == pad[call[c].key]
           next == AfterRead(call[c].op, row)
<1>0. UNCHANGED padVars /\ call[c].op \in PadOps /\ call[c].key \in Pads
  BY DEF ReadPad, IngestInv, OnAPad
<1>1. CASE Refuses(c) \/ Answers(c, {row.owner})
  BY <1>0, <1>1, TypedCallEnds
<1>2. CASE row # Nothing /\ Reads(c, row.text, next)
  <2>1. (\A d \in Calls \ {c} : call'[d] = call[d]) /\ call'[c].got = row.text
    BY <1>2, PadReadsFields DEF IngestInv
  <2>2. row.text \in Texts \cup {Blank}
    BY <1>0, <1>2, RowTyped DEF PadRows
  <2>3. HasText(c)'
    BY <2>1, <2>2 DEF HasText
  <2> QED BY <1>0, <2>1, <2>3, TypedCallMoves
<1> QED BY <1>1, <1>2 DEF ReadPad

LEMMA LookingTyped ==
  ASSUME IngestInv, PadsTyped, NEW c \in Calls,
         LookAtIngestedPad(c) \/ ListActivePads(c) \/ ListArchivedPads(c) \/ RetitlePad(c)
  PROVE  PadsTyped'
<1>0. UNCHANGED padVars
  BY DEF LookAtIngestedPad, ListActivePads, ListArchivedPads, RetitlePad
<1>1. CASE Refuses(c) \/ \E o : Answers(c, o)
  BY <1>0, <1>1, TypedCallEnds
<1>2. CASE (\E s \in {"lists", "mark", "archive"} : Goto(c, s)) \/ \E r : Reads(c, r, "archived")
  <2>1. (\A d \in Calls \ {c} : call'[d] = call[d]) /\ call'[c].at \in {"lists", "mark", "archive", "archived"}
    BY <1>2, PadGotoFields, PadReadsFields DEF IngestInv
  <2>2. HasText(c)'
    BY <2>1 DEF HasText, Ingesting
  <2> QED BY <1>0, <2>1, <2>2, TypedCallMoves
<1> QED BY <1>1, <1>2 DEF LookAtIngestedPad, ListActivePads, ListArchivedPads, RetitlePad

LEMMA QueuingTyped ==
  ASSUME IngestInv, PadsTyped, NEW c \in Calls, QueuePad(c) PROVE PadsTyped'
<1>0. call[c].key \in Pads /\ call[c].got \in Texts \cup {Blank}
  BY DEF QueuePad, At, IngestInv, OnAPad, PadOps, PadsTyped, HasText, Ingesting
<1>1. (\A d \in Calls \ {c} : call'[d] = call[d]) /\ call'[c].at = "look"
  BY PadGotoFields DEF QueuePad, IngestInv
<1>2. HasText(c)'
  BY <1>1 DEF HasText, Ingesting
<1>3. PadsTypeOK'
  BY <1>0 DEF QueuePad, PadsTyped, PadsTypeOK
<1>4. \A d \in Calls : HasText(d)'
  BY <1>1, <1>2 DEF PadsTyped, HasText, Ingesting
<1> QED BY <1>3, <1>4 DEF PadsTyped

(* A patch of a row there is keeps its owner *)
LEMMA PatchTyped ==
  ASSUME IngestInv, PadsTyped, NEW p \in Pads, NEW row, PatchPad(p, row),
         pad[p] # Nothing => row \in PadRows
  PROVE  /\ DOMAIN pad' = Pads /\ (\A o \in Pads \ {p} : pad'[o] = pad[o])
         /\ pad'[p] \in PadRows \cup {Nothing} /\ pad' = [o \in Pads |-> pad'[o]]
<1>1. pad \in [Pads -> PadRows \cup {Nothing}]
  BY DEF PadsTyped, PadsTypeOK, PadRows
<1> QED BY <1>1 DEF PatchPad

LEMMA MarkingTyped ==
  ASSUME IngestInv, PadsTyped, NEW c \in Calls, ArchivePad(c) \/ MarkPad(c) \/ RestorePad(c)
  PROVE  PadsTyped'
<1> DEFINE p == call[c].key
<1>0. p \in Pads /\ queued' = queued /\ late' = late
  BY DEF ArchivePad, MarkPad, RestorePad, At, IngestInv, OnAPad, PadOps
<1>1. (\A d \in Calls \ {c} : call'[d] = call[d]) /\ call'[c].at \in {"lists", "refused"}
  BY PadGotoFields, PadReadsFields DEF ArchivePad, MarkPad, RestorePad, Refuses, IngestInv
<1>2. HasText(c)'
  BY <1>1 DEF HasText, Ingesting
<1>3. pad[p] # Nothing => pad[p] \in PadRows
  BY <1>0, RowTyped
<1>4. \E row : PatchPad(p, row) /\ (pad[p] # Nothing => row \in PadRows)
  <2>1. CASE ArchivePad(c)
    <3>1. \E b \in BOOLEAN : PatchPad(p, [pad[p] EXCEPT !.archived = TRUE, !.ingested = b])
      BY <2>1 DEF ArchivePad
    <3>2. PICK b \in BOOLEAN : PatchPad(p, [pad[p] EXCEPT !.archived = TRUE, !.ingested = b])
      BY <3>1
    <3>3. pad[p] # Nothing => [pad[p] EXCEPT !.archived = TRUE, !.ingested = b] \in PadRows
      BY <1>3 DEF PadRows
    <3> QED BY <3>2, <3>3
  <2>2. CASE MarkPad(c)
    <3>1. pad[p] # Nothing => [pad[p] EXCEPT !.ingested = TRUE] \in PadRows
      BY <1>3 DEF PadRows
    <3> QED BY <2>2, <3>1 DEF MarkPad
  <2>3. CASE RestorePad(c)
    <3>1. pad[p] # Nothing => [pad[p] EXCEPT !.archived = FALSE, !.ingested = FALSE] \in PadRows
      BY <1>3 DEF PadRows
    <3> QED BY <2>3, <3>1 DEF RestorePad
  <2> QED BY <2>1, <2>2, <2>3
<1>5. /\ DOMAIN pad' = Pads /\ (\A o \in Pads \ {p} : pad'[o] = pad[o])
      /\ pad'[p] \in PadRows \cup {Nothing} /\ pad' = [o \in Pads |-> pad'[o]]
  BY <1>0, <1>4, PatchTyped
<1>6. queued' \subseteq Calls \X Pads \X (Texts \cup {Blank}) /\ late' \subseteq Pads
  BY <1>0 DEF PadsTyped, PadsTypeOK
<1> QED BY <1>1, <1>2, <1>5, <1>6, PadsStayTyped

LEMMA WritingTyped ==
  ASSUME IngestInv, PadsTyped, NEW c \in Calls, NEW text \in Texts, WritePad(c, text)
  PROVE  PadsTyped'
<1> DEFINE p == call[c].key
<1>0. p \in Pads /\ queued' = queued /\ late' \subseteq late \cup {p}
  BY DEF WritePad, At, IngestInv, OnAPad, PadOps
<1>1. (\A d \in Calls \ {c} : call'[d] = call[d]) /\ call'[c].at \in {"answered", "refused"}
  BY AnswersFields, PadReadsFields DEF WritePad, Refuses, IngestInv
<1>2. HasText(c)'
  BY <1>1 DEF HasText, Ingesting
<1>4. PatchPad(p, [pad[p] EXCEPT !.text = text]) /\ (pad[p] # Nothing => [pad[p] EXCEPT !.text = text] \in PadRows)
  BY <1>0, RowTyped DEF PadRows, WritePad
<1>5. /\ DOMAIN pad' = Pads /\ (\A o \in Pads \ {p} : pad'[o] = pad[o])
      /\ pad'[p] \in PadRows \cup {Nothing} /\ pad' = [o \in Pads |-> pad'[o]]
  BY <1>0, <1>4, PatchTyped
<1>6. queued' \subseteq Calls \X Pads \X (Texts \cup {Blank}) /\ late' \subseteq Pads
  BY <1>0 DEF PadsTyped, PadsTypeOK
<1> QED BY <1>1, <1>2, <1>5, <1>6, PadsStayTyped

LEMMA DeletingTyped ==
  ASSUME IngestInv, PadsTyped, NEW c \in Calls, DeletePad(c) PROVE PadsTyped'
<1> DEFINE p == call[c].key
<1>1. (\A d \in Calls \ {c} : call'[d] = call[d]) /\ call'[c].at = "lists"
  BY PadGotoFields DEF DeletePad, IngestInv
<1>2. HasText(c)'
  BY <1>1 DEF HasText, Ingesting
<1>3. PadsTypeOK'
  BY DEF DeletePad, PadsTyped, PadsTypeOK
<1>4. \A d \in Calls : HasText(d)'
  BY <1>1, <1>2 DEF PadsTyped, HasText, Ingesting
<1> QED BY <1>3, <1>4 DEF PadsTyped

LEMMA CreatingTyped ==
  ASSUME IngestInv, PadsTyped, NEW c \in Calls, NEW u \in Users, NEW p \in Pads, CreatePad(c, u, p)
  PROVE  PadsTyped'
<1>1. (\A d \in Calls \ {c} : call'[d] = call[d]) /\ call'[c].at = "lists"
  BY StartsFields DEF CreatePad, IngestInv
<1>2. HasText(c)'
  BY <1>1 DEF HasText, Ingesting
<1>3. PadsTypeOK'
  BY DEF CreatePad, NewPad, PadsTyped, PadsTypeOK
<1>4. \A d \in Calls : HasText(d)'
  BY <1>1, <1>2 DEF PadsTyped, HasText, Ingesting
<1> QED BY <1>3, <1>4 DEF PadsTyped

LEMMA RequestingTyped ==
  ASSUME IngestInv, PadsTyped, NEW c \in Calls, NEW u \in Users, PadRequest(c, u)
  PROVE  PadsTyped'
<1>1. (\A d \in Calls \ {c} : call'[d] = call[d]) /\ call'[c].at \in {"read", "lists"}
  BY StartsFields DEF PadRequest, IngestInv
<1>2. HasText(c)' /\ UNCHANGED padVars
  BY <1>1 DEF HasText, Ingesting, PadRequest
<1> QED BY <1>1, <1>2, TypedCallMoves

LEMMA PadsTypedStep ==
  ASSUME IngestInv, PadsTyped, [PadsNext]_<<padVars, callVars>> PROVE PadsTyped'
<1>1. CASE UNCHANGED <<padVars, callVars>>
  BY <1>1 DEF padVars, callVars, PadsTyped, PadsTypeOK, HasText, Ingesting
<1>2. ASSUME NEW c \in Calls, PadStep(c) PROVE PadsTyped'
  BY <1>2, ReadingTyped, DeletingTyped, WritingTyped, QueuingTyped, LookingTyped, MarkingTyped
     DEF PadStep
<1>3. ASSUME NEW c \in Calls, AbandonCall(c), UNCHANGED padVars PROVE PadsTyped'
  BY <1>3, TypedCallEnds DEF AbandonCall
<1> QED BY <1>1, <1>2, <1>3, RequestingTyped, CreatingTyped DEF PadsNext

-----------------------------------------------------------------------------
(* The three of them as MCPages composes them *)

PagesInv ==
  /\ AccountsTypeOK /\ PadsTypeOK /\ AnswersInv
  /\ focus = "accounts" => AccountsInv
  /\ focus = "pads" => IngestInv /\ PadsTyped

LEMMA PagesStart == Init => PagesInv
<1> SUFFICES ASSUME Init PROVE PagesInv
  OBVIOUS
<1>1. AccountsInv
  BY AccountsStart DEF Init
<1>2. IngestInv /\ PadsTyped
  BY IngestInit, PadsTypedInit DEF Init
<1>3. AnswersInv
  <2>1. CASE focus = "answers"
    BY <2>1, AnswersBegin DEF Init
  <2>2. CASE focus # "answers"
    <3>1. NoAnswer
      BY <2>2 DEF Init
    <3>2. Streamed(document, answer)
      BY <3>1 DEF NoAnswer, Streamed
    <3> QED BY <3>1, <3>2, AnswersStart DEF NoAnswer
  <2> QED BY <2>1, <2>2
<1> QED BY <1>1, <1>2, <1>3 DEF PagesInv, AccountsInv, PadsTyped

LEMMA AccountsUntouched == ASSUME AccountsTypeOK, UNCHANGED accountVars PROVE AccountsTypeOK'
BY DEF AccountsTypeOK, accountVars, switchVars

LEMMA PadsUntouched == ASSUME PadsTypeOK, UNCHANGED padVars PROVE PadsTypeOK'
BY DEF PadsTypeOK, padVars

LEMMA AnswersUntouched == ASSUME AnswersInv, UNCHANGED streamVars PROVE AnswersInv'
BY AnswersStep

LEMMA PagesStep == PagesInv /\ [Next]_pagesVars => PagesInv'
<1> SUFFICES ASSUME PagesInv, [Next]_pagesVars PROVE PagesInv'
  OBVIOUS
<1>0. AccountsTypeOK /\ PadsTypeOK /\ AnswersInv /\ focus' = focus
  BY DEF PagesInv, Next, pagesVars
<1>1. CASE focus = "accounts" /\ [AccountsNext]_<<accountVars, callVars>> /\ UNCHANGED <<padVars, streamVars>>
  <2>1. AccountsInv'
    BY <1>1, AccountsStepKeepsInv DEF PagesInv
  <2>2. AccountsTypeOK'
    BY <2>1 DEF AccountsInv
  <2> QED BY <1>0, <1>1, <2>1, <2>2, PadsUntouched, AnswersUntouched DEF PagesInv
<1>2. CASE focus = "pads" /\ [PadsNext]_<<padVars, callVars>> /\ UNCHANGED <<accountVars, streamVars>>
  <2>1. IngestInv' /\ PadsTyped'
    BY <1>2, IngestStep, PadsTypedStep DEF PagesInv
  <2>2. PadsTypeOK'
    BY <2>1 DEF PadsTyped
  <2> QED BY <1>0, <1>2, <2>1, <2>2, AccountsUntouched, AnswersUntouched DEF PagesInv
<1>3. CASE focus \notin {"accounts", "pads"} /\ [AnswersNext]_streamVars /\ UNCHANGED <<accountVars, padVars>>
  <2>1. AnswersInv'
    BY <1>0, <1>3, AnswersStep
  <2> QED BY <1>0, <1>3, <2>1, AccountsUntouched, PadsUntouched DEF PagesInv
<1>4. CASE UNCHANGED pagesVars
  <2>1. UNCHANGED <<accountVars, padVars, callVars, streamVars>>
    BY <1>4 DEF pagesVars
  <2> QED BY <1>1, <1>2, <1>3, <2>1
<1> QED BY <1>1, <1>2, <1>3, <1>4 DEF Next

LEMMA PagesInvHolds == PagesSpec => []PagesInv
BY PagesStart, PagesStep, PTL DEF PagesSpec

(* Whatever is asked of the accounts and the pads, and however an answer is  *)
(* cut into chunks: rows, sessions, copies and the parser have their types   *)
(* (user.rs:80, scratchpad.rs:10, json-stream-parser/src/lib.rs:8).          *)
THEOREM PagesAreTyped == PagesSpec => []PagesTypeOK
<1>1. PagesInv => PagesTypeOK
  BY AnswersInvTypes DEF PagesInv, PagesTypeOK
<1> QED BY <1>1, PagesInvHolds, PTL

(* However long the answer, whatever its pieces and wherever the document is *)
(* cut: what the page shows is at any time a beginning of the answer, in the *)
(* end all of it when the answer comes first, and then it is rendered as     *)
(* serde decodes it unless the answer has a backslash                        *)
(* (message_response_stream.rs:499, json-stream-parser/src/lib.rs:50).       *)
THEOREM AnswersStayShown == PagesSpec => []AnswersAreShown
<1>1. PagesInv => AnswersAreShown
  BY AnswersInvShows DEF PagesInv
<1> QED BY <1>1, PagesInvHolds, PTL

=============================================================================

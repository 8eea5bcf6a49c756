-------------------------------- MODULE MCPages --------------------------------
(* Accounts, Scratchpads and AnswerStream for TLC.  They share no rows: a   *)
(* behaviour has steps of one of the three, chosen with `focus`.            *)
EXTENDS Accounts, Scratchpads, AnswerStream

CONSTANTS p1, p2, e1

VARIABLE focus

pagesVars == <<accountVars, padVars, callVars, streamVars, focus>>

BrowsersOfTwo == {<<p1, 1>>, <<p2, 1>>}

NewOrSeeded == {Nothing, NewUser(p1, e1, TRUE)}

(* Where no answer is streamed there is an empty one *)
NoAnswer ==
  /\ document = <<>> /\ answer = [pieces |-> <<>>, inOrder |-> FALSE] /\ received = 0
  /\ parser = NewParser /\ lastAnswer = <<>> /\ buffer = <<>> /\ stored = "none"

Init ==
  /\ AccountsInit /\ PadsInit /\ CallsInit
  /\ focus \in {"accounts", "pads", "answers"}
  /\ focus = "answers" => AnswersInit /\ user[SeedUser] = Nothing
  /\ focus # "answers" => NoAnswer

(* The third request of a person comes in behaviours without a fault (a bound) *)
FewFaults == faults' = 0 \/ call'[3].at = "unused"

(* Behaviours in which other clients than the toggle merge the settings row *)
(* have no requests but of the settings and deletions of accounts (a bound) *)
SettingsApart ==
  \A c, d \in Calls : call'[c].op \in {"options", "sync"} =>
                      call'[d].op \in SettingsOps \cup {"leave", "none"}

(* Visits are counted in behaviours of their own: no other request reads or *)
(* writes the row of visits or the mark of a session (a bound)              *)
VisitsApart ==
  \A c, d \in Calls : call'[c].op = "visit" => call'[d].op \in {"visit", "none"}

(* Requests that change no row are the last to arrive; they still overlap   *)
(* with the requests before them (a bound)                                  *)
ReadersLast ==
  \A c, d \in Calls : call'[c].op \in {"account", "api"} /\ d > c => call'[d].op = "none"

(* Preferences and keys are stored alike: a behaviour has one kind (a bound) *)
OneKindOfPatch ==
  \A c, d \in Calls : call'[c].op = "prefs" => call'[d].op # "key"

(* The requests of a behaviour name one pad; the lists have both (a bound) *)
OnePad ==
  \A c, d \in Calls : {call'[c].key, call'[d].key} \subseteq Pads => call'[c].key = call'[d].key

AccountBounds == FewFaults /\ SettingsApart /\ VisitsApart /\ ReadersLast /\ OneKindOfPatch

Next ==
  /\ \/ focus = "accounts" /\ AccountsNext /\ AccountBounds
        /\ UNCHANGED <<padVars, streamVars>>
     \/ focus = "pads" /\ PadsNext /\ FewFaults /\ OnePad
        /\ UNCHANGED <<accountVars, streamVars>>
     \/ focus = "answers" /\ AnswersNext /\ UNCHANGED <<accountVars, padVars, callVars>>
  /\ UNCHANGED focus

PagesSpec == Init /\ [][Next]_pagesVars

-----------------------------------------------------------------------------
(* The rows, sessions and copies of the modules have their types: accounts  *)
(* (user.rs:80), scratchpads (scratchpad.rs:10), the parser                 *)
(* (json-stream-parser/src/lib.rs:8).                                      *)
PagesTypeOK == AccountsTypeOK /\ PadsTypeOK /\ (focus = "answers" => AnswersTypeOK)
=============================================================================

------------------------------- MODULE WebCalls -------------------------------
(***************************************************************************)
(* Requests of the web servers (html-router, api-router).  A handler is a  *)
(* future: between two awaits any other request, of the same or another    *)
(* process, may run.  Each call is one request with the program counter of *)
(* its handler, what the handler has read so far, and whose rows its       *)
(* answer shows.  A call serves one request in a behaviour; calls are      *)
(* numbered in the order in which the requests arrive.                     *)
(***************************************************************************)
EXTENDS Integers, FiniteSets

CONSTANTS
  Calls,               \* requests of a behaviour, 1..n (a bound)
  Users,               \* signed-in users
  Nobody,              \* the user of an unused call
  Nothing,             \* no row, no id
  MaxFaults            \* statements that fail and requests that die (a bound)

VARIABLES
  call,                \* per call: op, at, user, key (id in the path), got, page
  faults               \* faults so far

callVars == <<call, faults>>

-----------------------------------------------------------------------------
Unused == [op |-> "none", at |-> "unused", user |-> Nobody,
           key |-> Nothing, got |-> Nothing, page |-> {}]

CallsInit == call = [c \in Calls |-> Unused] /\ faults = 0

(* The handler `op` waits at its statement `step` *)
At(c, op, step) == call[c].op = op /\ call[c].at = step

Ended(c) == call[c].at \in {"answered", "refused", "failed"}

Running(c) == call[c].at # "unused" /\ ~Ended(c)

(* The next request to arrive *)
Arrives(c) == call[c].at = "unused" /\ \A d \in Calls : d < c => call[d].at # "unused"

(* RequireUser has loaded the signed-in user: the handler starts *)
Starts(c, op, user, key, step) ==
  /\ Arrives(c)
  /\ call' = [call EXCEPT ![c] = [Unused EXCEPT !.op = op, !.at = step,
                                                !.user = user, !.key = key]]

Goto(c, step) == call' = [call EXCEPT ![c].at = step]

(* The next statement is reached with a row in hand *)
Reads(c, row, step) == call' = [call EXCEPT ![c].at = step, ![c].got = row]

(* The response shows rows of the owners in `owners` *)
Answers(c, owners) ==
  call' = [call EXCEPT ![c].at = "answered", ![c].got = Nothing, ![c].page = owners]

(* NotFound, Auth, BadRequest: nothing is shown *)
Refuses(c) == Reads(c, Nothing, "refused")

(* A statement returns an error that `?` hands to the client, the client    *)
(* disconnects so that the handler's future is dropped, or the process      *)
(* dies: in each case the rest of the handler does not run.                 *)
Fails(c) == Reads(c, Nothing, "failed")

Fault == faults < MaxFaults /\ faults' = faults + 1

AbandonCall(c) == Running(c) /\ Fault /\ Fails(c)
=============================================================================

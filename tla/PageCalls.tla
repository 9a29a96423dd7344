------------------------------ MODULE PageCalls ------------------------------
(***************************************************************************)
(* What the OpenHaldex pages share: one page is open, its handlers send    *)
(* requests that overlap, and the user acts in between.  The device that   *)
(* answers is not part of the repository; a page sees it through fetchJson *)
(* (data/assets/js/openhaldex-firmware-ui.js), which returns an answer or  *)
(* throws, and after a throw nobody knows whether the device has acted.    *)
(***************************************************************************)
EXTENDS Naturals

CONSTANTS
  MaxCalls,     \* bound on requests at a time; not in the code
  MaxUserSteps  \* bound on what the user does, for every page

ASSUME PageCallsAssumption == MaxCalls \in Nat \ {0}

VARIABLES
  page,         \* pageKey(): the page that is open
  calls,        \* the handlers under way, at most one request each
  user_steps    \* history: what the user has done so far

pageVars == <<page, calls, user_steps>>

CallSlots == 1 .. MaxCalls
NoCall == [op |-> "none", at |-> "idle"]

(* A request is "sent" until the device has taken it, then "done".         *)
Sent(op, body) == [op |-> op, at |-> "sent", body |-> body]
Done(c, body) == [op |-> calls[c].op, at |-> "done", body |-> body]
IsSent(c, op) == calls[c].op = op /\ calls[c].at = "sent"
IsDone(c, op) == calls[c].op = op /\ calls[c].at = "done"

Put(c, call) == calls' = [calls EXCEPT ![c] = call]
Start(call) == \E c \in CallSlots : calls[c].op = "none" /\ Put(c, call)
Ends(c) == Put(c, NoCall)

(* A request fails before or after the device has seen it.                 *)
Fails(c) == calls[c].op # "none" /\ Ends(c)

UserActs ==
  /\ user_steps < MaxUserSteps[page]
  /\ user_steps' = user_steps + 1

(* What a page starts with, if it is the one that is open.                 *)
Opened(name, values) ==
  IF page = name THEN values ELSE {CHOOSE value \in values : TRUE}
CallsInit(first) ==
  /\ calls = [c \in CallSlots |-> IF c \in DOMAIN first THEN first[c] ELSE NoCall]
  /\ user_steps = 0
=============================================================================

----------------------------- MODULE FirmwareApi -----------------------------
(***************************************************************************)
(* How the OpenHaldex pages reach the device                               *)
(* (data/assets/js/openhaldex-firmware-ui.js, request and initApiBase): a  *)
(* base address that the page was given, typed or stored, and the origin   *)
(* of the page, the address "", to which a request goes again when the     *)
(* base does not answer.  All requests share state.apiBase.                *)
(*                                                                         *)
(* A definition named ...Mutant is a faulty version of the one after it,   *)
(* kept to show that a property notices the fault; nothing uses it.        *)
(***************************************************************************)
EXTENDS PageCalls

CONSTANTS
  Bases,    \* addresses of devices other than the origin
  NoQuery   \* the page was opened without ?api=

ASSUME FirmwareApiAssumption == "" \notin Bases /\ NoQuery \notin Bases \cup {""}

Addresses == Bases \cup {""}

VARIABLES
  location,     \* what the page was opened with: ?api=, its body, an AP host
  api_base,     \* state.apiBase
  stored_base,  \* the item in localStorage, "" for none
  up            \* the addresses that answer

apiVars == <<location, api_base, stored_base, up>>

Locations == [query : Addresses \cup {NoQuery}, body : Addresses, ap_host : BOOLEAN]

(* initApiBase: all but the stored base are stored in turn.                *)
ApiBaseAt(place, stored) ==
  IF place.query # NoQuery THEN place.query
  ELSE IF place.body # "" THEN place.body
  ELSE IF place.ap_host THEN ""
  ELSE stored

OpensAt(stored) ==
  /\ api_base' = ApiBaseAt(location, stored) /\ stored_base' = api_base'

-----------------------------------------------------------------------------
(* request: the base is read when the request is sent, and again when the  *)
(* fetch has failed.  "raced" is history: another request has fallen back  *)
(* since this one was sent.                                                *)
Request(fallback) ==
  /\ Start([op |-> "request", at |-> "first", url |-> api_base, fallback |-> fallback,
            raced |-> FALSE])
  /\ UNCHANGED <<apiVars, user_steps>>

Fetching(c, at) == calls[c].op = "request" /\ calls[c].at = at

FirstAnswers(c) ==
  /\ Fetching(c, "first") /\ calls[c].url \in up /\ Ends(c)
  /\ UNCHANGED <<apiVars, user_steps>>

(* The other base is forgotten by the first request that finds the origin. *)
FallbackAnswersMutant(c) ==
  /\ Fetching(c, "again") /\ "" \in up
  /\ api_base' = ""
  /\ calls' = [d \in CallSlots |->
       IF d = c THEN NoCall
       ELSE IF calls[d].op = "request" THEN [calls[d] EXCEPT !.raced = TRUE] ELSE calls[d]]
  /\ UNCHANGED <<location, stored_base, up, user_steps>>
FallbackAnswers(c) ==
  /\ Fetching(c, "again") /\ "" \in up
  /\ api_base' = "" /\ stored_base' = ""
  /\ calls' = [d \in CallSlots |->
       IF d = c THEN NoCall
       ELSE IF calls[d].op = "request" THEN [calls[d] EXCEPT !.raced = TRUE] ELSE calls[d]]
  /\ UNCHANGED <<location, up, user_steps>>

AllowFallback(c) == api_base # "" /\ calls[c].fallback

FallsBackMutant(c) ==
  /\ Fetching(c, "first") /\ calls[c].url \notin up /\ AllowFallback(c)
  /\ Put(c, [calls[c] EXCEPT !.at = "again", !.url = ""])
  /\ api_base' = "" /\ stored_base' = ""
  /\ UNCHANGED <<location, up, user_steps>>
FallsBack(c) ==
  /\ Fetching(c, "first") /\ calls[c].url \notin up /\ AllowFallback(c)
  /\ Put(c, [calls[c] EXCEPT !.at = "again", !.url = ""])
  /\ UNCHANGED <<apiVars, user_steps>>

Throws(c) ==
  /\ \/ Fetching(c, "first") /\ calls[c].url \notin up /\ ~AllowFallback(c)
     \/ Fetching(c, "again") /\ "" \notin up
  /\ Ends(c)
  /\ UNCHANGED <<apiVars, user_steps>>

-----------------------------------------------------------------------------
(* Devices come and go; the user reloads, or types a base and so reloads.  *)
(* A request that was sent does not survive.                               *)
NetworkChanges(address) ==
  /\ up' = IF address \in up THEN up \ {address} ELSE up \cup {address}
  /\ UNCHANGED <<location, api_base, stored_base, calls, user_steps>>

Reload(stored) ==
  /\ OpensAt(stored)
  /\ calls' = [c \in CallSlots |-> NoCall]
  /\ UNCHANGED <<location, up>>

ApiInit ==
  /\ location \in Opened("api", Locations)
  /\ \E stored \in Opened("api", Addresses) : api_base = ApiBaseAt(location, stored)
  /\ stored_base = api_base
  /\ up = Addresses
  /\ page = "api" => CallsInit(<<>>)

ApiNext ==
  \/ \E fallback \in BOOLEAN : Request(fallback)
  \/ \E c \in CallSlots :
       FirstAnswers(c) \/ FallbackAnswers(c) \/ FallsBack(c) \/ Throws(c)
  \/ \E address \in Addresses : NetworkChanges(address)
  \/ /\ UserActs
     /\ Reload(stored_base) \/ \E typed \in Addresses : Reload(typed)

-----------------------------------------------------------------------------
(* The base in use is the one that the next page finds stored, through     *)
(* fallbacks of several requests, reloads and addresses typed in between:  *)
(* all pages talk to one device.                                           *)
BaseIsRemembered == stored_base = api_base

(* A request that may fall back gives up on the base alone only if another *)
(* request has fallen back since it was sent (and so the origin answers).  *)
OnlyRacesGiveUp ==
  [][\A c \in CallSlots :
       (/\ page = "api" /\ Throws(c)
        /\ calls[c].at = "first" /\ calls[c].url # "" /\ calls[c].fallback)
         => calls[c].raced]_<<apiVars, calls>>
=============================================================================

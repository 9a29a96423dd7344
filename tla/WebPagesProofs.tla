--------------------------- MODULE WebPagesProofs ----------------------------
(***************************************************************************)
(* Theorems about the web pages, for every value of the constants.  A page *)
(* shares "calls" with the others, so what is said of its requests is said *)
(* of the page that is open.                                               *)
(***************************************************************************)
EXTENDS WebPages, WellFoundedInduction, SequenceTheorems, TLAPS

-----------------------------------------------------------------------------
(* A page that puts a call in a slot leaves the other slots alone.         *)
AreCalls == calls = [c \in CallSlots |-> calls[c]]
LEMMA PutOne ==
  ASSUME AreCalls, NEW c \in CallSlots, NEW STATE call, Put(c, call)
  PROVE  /\ AreCalls' /\ calls'[c] = call
         /\ \A d \in CallSlots : d # c => calls'[d] = calls[d]
  BY DEF AreCalls, Put

-----------------------------------------------------------------------------
(* The shell.  A backdrop is there exactly because the menu's button has   *)
(* opened the menu and nothing has closed it since.                        *)
ShellInv ==
  /\ width \in Widths
  /\ backdrops \in {0, 1}
  /\ backdrops = 1 => enabled

LEMMA ShellInitially == WebPagesInit => ShellInv
<1> SUFFICES ASSUME WebPagesInit PROVE ShellInv
  OBVIOUS
<1>1. Opened("shell", Widths) \subseteq Widths
  BY DEF Opened, Widths
<1>2. width \in Opened("shell", Widths) /\ backdrops = 0
  BY DEF WebPagesInit, ShellInit
<1> QED BY <1>1, <1>2 DEF ShellInv

(* However a size is found, adjusting the layout takes a backdrop away.    *)
LEMMA AdjustedLayout ==
  ASSUME ShellInv, NEW STATE w, w \in Widths, NEW STATE new, NEW STATE attributes,
         AdjustLayout(w, new, attributes)
  PROVE  backdrops' = 0
<1>1. CASE w = "narrow"
  BY <1>1 DEF AdjustLayout, ShellInv, HideBackdrop
<1>2. CASE w = "middle"
  BY <1>2 DEF AdjustLayout, ShellInv, HideBackdrop
<1>3. CASE w = "wide"
  BY <1>3 DEF AdjustLayout, ShellInv, HideBackdrop
<1> QED BY <1>1, <1>2, <1>3 DEF Widths

LEMMA ShellStep == ShellInv /\ [WebPagesNext]_WebPagesVars => ShellInv'
<1> SUFFICES ASSUME ShellInv, [WebPagesNext]_WebPagesVars PROVE ShellInv'
  OBVIOUS
<1>1. CASE UNCHANGED shellVars
  BY <1>1 DEF ShellInv, shellVars
<1>2. CASE ShellNext
  <2>1. ASSUME NEW w \in Widths, Resize(w) PROVE ShellInv'
    BY <2>1, AdjustedLayout DEF Resize, ShellInv
  <2>2. CASE ToggleMenu
    <3>1. width' \in Widths
      BY <2>2 DEF ToggleMenu, ShellInv
    <3>2. CASE backdrops' = 0
      BY <3>1, <3>2 DEF ShellInv
    <3>3. CASE backdrops' # 0
      <4>1. backdrops' = 1 /\ ~enabled
        BY <2>2, <3>3 DEF ToggleMenu, HideBackdrop, ShellInv
      <4>2. enabled'
        BY <2>2, <4>1, Zenon DEF ToggleMenu
      <4> QED BY <3>1, <4>1, <4>2 DEF ShellInv
    <3> QED BY <3>2, <3>3
  <2>3. CASE ClickBackdrop
    BY <2>3 DEF ClickBackdrop, HideBackdrop, ShellInv
  <2>4. CASE ChangeSetting
    BY <2>4 DEF ChangeSetting, Change, ShellInv
  <2>5. CASE ResetTheme
    BY <2>5, AdjustedLayout DEF ResetTheme, ShellInv
  <2>6. CASE ReloadPage
    BY <2>6 DEF ReloadPage, ShellInv
  <2> QED BY <1>2, <2>1, <2>2, <2>3, <2>4, <2>5, <2>6 DEF ShellNext
<1> QED BY <1>1, <1>2 DEF WebPagesNext, WebPagesVars

(* No backdrop catches clicks unless the menu is open over the page        *)
(* (data/assets/js/app.js, showBackdrop and hideBackdrop).                 *)
THEOREM BackdropsHaveMenus == WebPagesSpec => []BackdropHasMenu
<1>1. ShellInv => BackdropHasMenu
  BY DEF ShellInv, BackdropHasMenu
<1> QED BY <1>1, ShellInitially, ShellStep, PTL DEF WebPagesSpec

-----------------------------------------------------------------------------
(* The base address.  Every write of the address in use is a write of the  *)
(* stored one, on whatever page.                                           *)
LEMMA BaseInitially == WebPagesInit => BaseIsRemembered
  BY DEF WebPagesInit, ApiInit, BaseIsRemembered

LEMMA BaseStep ==
  BaseIsRemembered /\ [WebPagesNext]_WebPagesVars => BaseIsRemembered'
<1> SUFFICES ASSUME BaseIsRemembered, [WebPagesNext]_WebPagesVars
             PROVE  BaseIsRemembered'
  OBVIOUS
<1>1. CASE UNCHANGED apiVars
  BY <1>1 DEF BaseIsRemembered, apiVars
<1>2. CASE ApiNext
  BY <1>2 DEF ApiNext, Request, FirstAnswers, FallbackAnswers, FallsBack, Throws,
              NetworkChanges, Reload, OpensAt, BaseIsRemembered, apiVars
<1> QED BY <1>1, <1>2 DEF WebPagesNext, WebPagesVars

(* The address in use is the one that the next page finds stored           *)
(* (data/assets/js/openhaldex-firmware-ui.js, request and initApiBase).    *)
THEOREM OneBase == WebPagesSpec => []BaseIsRemembered
  BY BaseInitially, BaseStep, PTL DEF WebPagesSpec

(* A request that no other has overtaken was sent to the address that is   *)
(* in use: whoever changes it marks the requests under way, or reloads the *)
(* page and with it forgets them.                                          *)
RequestType ==
  [op : {"request"}, at : {"first", "again"}, url : Addresses, fallback : BOOLEAN,
   raced : BOOLEAN]
RequestsInv ==
  page = "api" =>
    /\ location \in Locations /\ api_base \in Addresses /\ stored_base = api_base
    /\ AreCalls
    /\ \A c \in CallSlots :
         /\ calls[c] = NoCall \/ calls[c] \in RequestType
         /\ Fetching(c, "first") /\ ~calls[c].raced => calls[c].url = api_base

LEMMA OpenedAddress ==
  \A place \in Locations, stored \in Addresses : ApiBaseAt(place, stored) \in Addresses
  BY DEF Locations, ApiBaseAt, Addresses

LEMMA RequestsInitially == WebPagesInit => RequestsInv
<1> SUFFICES ASSUME WebPagesInit, page = "api" PROVE RequestsInv
  BY DEF RequestsInv
<1>1. PICK stored \in Addresses : location \in Locations
                                  /\ api_base = ApiBaseAt(location, stored)
  BY DEF WebPagesInit, ApiInit, Opened
<1>2. stored_base = api_base /\ CallsInit(<<>>)
  BY DEF WebPagesInit, ApiInit
<1> QED BY <1>1, <1>2, OpenedAddress
        DEF CallsInit, RequestsInv, NoCall, Fetching, AreCalls

LEMMA RequestsStep == RequestsInv /\ [WebPagesNext]_WebPagesVars => RequestsInv'
<1> SUFFICES ASSUME RequestsInv, [WebPagesNext]_WebPagesVars, page' = "api"
             PROVE  RequestsInv'
  BY DEF RequestsInv
<1>0. page = "api"
  BY DEF WebPagesNext, WebPagesVars, pageVars
<1>1. CASE UNCHANGED <<calls, location, api_base, stored_base>>
  BY <1>0, <1>1 DEF RequestsInv, Fetching, AreCalls
<1>2. CASE ApiNext
  <2>1. ASSUME NEW fallback \in BOOLEAN, Request(fallback) PROVE RequestsInv'
    <3>1. AreCalls /\ UNCHANGED <<location, api_base, stored_base>>
      BY <1>0, <2>1 DEF Request, apiVars, RequestsInv
    <3>2. PICK c \in CallSlots :
            Put(c, [op |-> "request", at |-> "first", url |-> api_base,
                    fallback |-> fallback, raced |-> FALSE])
      BY <2>1 DEF Request, Start
    <3>3. calls'[c] = [op |-> "request", at |-> "first", url |-> api_base,
                       fallback |-> fallback, raced |-> FALSE]
      BY <3>1, <3>2, PutOne
    <3>4. api_base \in Addresses
      BY <1>0 DEF RequestsInv
    <3>5. calls'[c] \in RequestType /\ calls'[c].url = api_base
      BY <2>1, <3>3, <3>4 DEF RequestType
    <3> QED BY <1>0, <3>1, <3>2, <3>5, PutOne DEF RequestsInv, Fetching
  <2>2. ASSUME NEW c \in CallSlots, Ends(c), UNCHANGED apiVars PROVE RequestsInv'
    BY <1>0, <2>2 DEF Ends, Put, NoCall, RequestsInv, Fetching, AreCalls, apiVars
  <2>3. ASSUME NEW c \in CallSlots, FallbackAnswers(c) PROVE RequestsInv'
    <3>1. /\ AreCalls' /\ UNCHANGED location /\ api_base' = "" /\ stored_base' = ""
          /\ \A d \in CallSlots :
               calls'[d] = IF d = c THEN NoCall
                           ELSE IF calls[d].op = "request"
                           THEN [calls[d] EXCEPT !.raced = TRUE] ELSE calls[d]
      BY <2>3 DEF FallbackAnswers, AreCalls
    <3>2. ASSUME NEW d \in CallSlots, calls'[d] # NoCall
          PROVE  calls'[d] \in RequestType /\ calls'[d].raced
      <4>1. d # c /\ calls[d] \in RequestType
        BY <1>0, <3>1, <3>2 DEF RequestsInv, NoCall
      <4>2. calls'[d] = [calls[d] EXCEPT !.raced = TRUE]
        BY <3>1, <4>1 DEF RequestType
      <4> QED BY <4>1, <4>2 DEF RequestType
    <3>3. location' \in Locations /\ api_base' \in Addresses /\ stored_base' = api_base'
      BY <1>0, <3>1 DEF RequestsInv, Addresses
    <3>4. ASSUME NEW d \in CallSlots
          PROVE  /\ calls'[d] = NoCall \/ calls'[d] \in RequestType
                 /\ Fetching(d, "first")' /\ ~calls'[d].raced => calls'[d].url = api_base'
      BY <3>2 DEF Fetching, NoCall
    <3> QED BY <3>1, <3>3, <3>4 DEF RequestsInv
  <2>4. ASSUME NEW c \in CallSlots, FallsBack(c) PROVE RequestsInv'
    <3>1. AreCalls /\ UNCHANGED <<location, api_base, stored_base>>
      BY <1>0, <2>4 DEF FallsBack, apiVars, RequestsInv
    <3>2. calls[c] \in RequestType
      BY <1>0, <2>4 DEF FallsBack, RequestsInv, Fetching, NoCall
    <3>3. Put(c, [calls[c] EXCEPT !.at = "again", !.url = ""])
      BY <2>4 DEF FallsBack
    <3>4. calls'[c] = [calls[c] EXCEPT !.at = "again", !.url = ""]
      BY <3>1, <3>3, PutOne
    <3>5. calls'[c] \in RequestType /\ calls'[c].at = "again"
      BY <3>2, <3>4 DEF RequestType, Addresses
    <3> QED BY <1>0, <3>1, <3>3, <3>5, PutOne DEF RequestsInv, Fetching
  <2>5. ASSUME NEW address \in Addresses, NetworkChanges(address) PROVE RequestsInv'
    BY <1>1, <2>5 DEF NetworkChanges
  <2>6. ASSUME NEW STATE stored, stored \in Addresses, Reload(stored) PROVE RequestsInv'
    <3>1. location' \in Locations /\ api_base' \in Addresses /\ stored_base' = api_base'
      BY <1>0, <2>6, OpenedAddress DEF Reload, OpensAt, RequestsInv
    <3> QED BY <1>0, <2>6, <3>1 DEF Reload, NoCall, RequestsInv, Fetching, AreCalls
  <2> QED BY <1>0, <1>2, <2>1, <2>2, <2>3, <2>4, <2>5, <2>6
          DEF ApiNext, FirstAnswers, Throws, RequestsInv
<1> QED BY <1>0, <1>1, <1>2 DEF WebPagesNext, WebPagesVars, pageVars, apiVars

(* A request that may fall back to the page's origin is given up without   *)
(* having tried it only if another request has just changed the address    *)
(* under it (request reads state.apiBase before and after its await).      *)
THEOREM RequestsTryTheOrigin == WebPagesSpec => OnlyRacesGiveUp
<1>1. RequestsInv /\ [WebPagesNext]_WebPagesVars
        => [\A c \in CallSlots :
              (/\ page = "api" /\ Throws(c)
               /\ calls[c].at = "first" /\ calls[c].url # "" /\ calls[c].fallback)
                => calls[c].raced]_<<apiVars, calls>>
  <2> SUFFICES ASSUME RequestsInv, NEW c \in CallSlots, page = "api", Throws(c),
                      calls[c].at = "first", calls[c].url # "", calls[c].fallback
               PROVE  calls[c].raced
    OBVIOUS
  <2>1. SUFFICES ASSUME ~calls[c].raced PROVE FALSE
    OBVIOUS
  <2>2. Fetching(c, "first") /\ ~AllowFallback(c)
    BY DEF Throws, Fetching
  <2>3. calls[c].url = api_base
    BY <2>1, <2>2 DEF RequestsInv
  <2> QED BY <2>2, <2>3 DEF AllowFallback
<1> QED BY <1>1, RequestsInitially, RequestsStep, PTL DEF WebPagesSpec, OnlyRacesGiveUp

-----------------------------------------------------------------------------
(* The curve pages, first their settings.  What a request carries of the   *)
(* settings that this page does not own is what the device has, except     *)
(* what the request is marked with; so is what the shared box shows until  *)
(* it is stale.                                                            *)
Settings == [own : Nat, other : Nat, shared : Nat]
Current(moved, settings) ==
  \A k \in Unowned \ moved : settings[k] = device_settings[k]
AskType == [op : {"poll", "settings"}, at : {"sent"}, body : {<<>>}]
ReadType == [op : {"poll", "settings"}, at : {"done"},
             body : [moved : SUBSET Unowned, runtime : Settings]]
PostType == [op : {"post"}, at : {"sent", "done"},
             body : [moved : SUBSET Unowned, payload : Settings]]
SettingsCall(c) ==
  calls[c].op \in {"poll", "settings", "post"} =>
    \/ calls[c] \in AskType
    \/ calls[c] \in ReadType /\ Current(calls[c].body.moved, calls[c].body.runtime)
    \/ /\ calls[c] \in PostType /\ Current(calls[c].body.moved, calls[c].body.payload)
       /\ calls[c].body.payload.shared <= SettingMax
BoxInv ==
  /\ form \in [own : Nat, shared : Nat]
  /\ ~box_stale => form.shared = device_settings.shared
DeviceSettingsInv == device_settings \in Settings /\ device_settings.shared <= SettingMax
SettingsInv ==
  page = "curve" =>
    AreCalls /\ DeviceSettingsInv /\ BoxInv /\ \A c \in CallSlots : SettingsCall(c)

LEMMA LimitedType ==
  ASSUME NEW n \in Nat
  PROVE  /\ Limited(n, SettingMax) \in Nat /\ Limited(n, SettingMax) <= SettingMax
         /\ n <= SettingMax => Limited(n, SettingMax) = n
  BY CurvePageAssumption DEF Limited

(* The page opens with a load and a poll.                                  *)
LEMMA CurveOpens ==
  ASSUME WebPagesInit, page = "curve"
  PROVE  AreCalls /\ \A c \in CallSlots :
                       calls[c] \in {Sent("load", <<>>), Sent("poll", <<>>), NoCall}
<1> DEFINE first == <<Sent("load", <<>>), Sent("poll", <<>>)>>
<1>1. CallsInit(first)
  BY DEF WebPagesInit, CurveInit
<1>2. AreCalls
  BY <1>1 DEF CallsInit, AreCalls
<1>3. ASSUME NEW c \in CallSlots
      PROVE  calls[c] \in {Sent("load", <<>>), Sent("poll", <<>>), NoCall}
  <2>1. calls[c] = IF c \in DOMAIN first THEN first[c] ELSE NoCall
    BY <1>1 DEF CallsInit
  <2>2. DOMAIN first = {1, 2} /\ first[1] = Sent("load", <<>>)
        /\ first[2] = Sent("poll", <<>>)
    OBVIOUS
  <2> QED BY <2>1, <2>2
<1> QED BY <1>2, <1>3

LEMMA SettingsInitially == WebPagesInit => SettingsInv
<1> SUFFICES ASSUME WebPagesInit, page = "curve" PROVE SettingsInv
  BY DEF SettingsInv
<1>1. /\ device_settings = [own |-> 0, other |-> 0, shared |-> SettingMax]
      /\ form = [own |-> 0, shared |-> 0] /\ box_stale = TRUE
  BY DEF WebPagesInit, CurveInit
<1>2. DeviceSettingsInv /\ BoxInv
  BY <1>1, CurvePageAssumption DEF DeviceSettingsInv, BoxInv, Settings
<1>3. ASSUME NEW c \in CallSlots PROVE SettingsCall(c)
  BY CurveOpens DEF SettingsCall, AskType, Sent, NoCall
<1> QED BY <1>2, <1>3, CurveOpens DEF SettingsInv

(* One call moves on while the device's settings stay.                     *)
LEMMA OneSettingsCall ==
  ASSUME SettingsInv, page = "curve", NEW c \in CallSlots, NEW STATE call, Put(c, call),
         SettingsCall(c)', UNCHANGED device_settings, BoxInv'
  PROVE  SettingsInv'
<1>1. AreCalls' /\ \A d \in CallSlots : d # c => calls'[d] = calls[d]
  BY PutOne DEF SettingsInv
<1>2. ASSUME NEW d \in CallSlots, d # c PROVE SettingsCall(d)'
  BY <1>1, <1>2 DEF SettingsInv, SettingsCall, Current
<1> QED BY <1>1, <1>2 DEF SettingsInv, DeviceSettingsInv

(* A call that carries no settings.                                        *)
LEMMA BareCall ==
  ASSUME SettingsInv, page = "curve", NEW c \in CallSlots, NEW STATE call, Put(c, call),
         call.op \notin {"poll", "settings", "post"} \/ call \in AskType,
         UNCHANGED device_settings, BoxInv'
  PROVE  SettingsInv'
<1>1. calls'[c] = call
  BY PutOne DEF SettingsInv
<1> QED BY <1>1, OneSettingsCall DEF SettingsCall

(* When the settings become other ones, marked calls stay current.         *)
LEMMA MovedCall ==
  ASSUME NEW c \in CallSlots, SettingsCall(c), NEW STATE new, device_settings' = new,
         calls'[c] = Moved(c, new)
  PROVE  SettingsCall(c)'
<1> DEFINE moved == calls[c].body.moved \cup Changed(new)
<1>1. ASSUME NEW settings, Current(calls[c].body.moved, settings)
      PROVE  \A k \in Unowned \ moved : settings[k] = device_settings'[k]
  BY <1>1 DEF Current, Changed
<1>2. Changed(new) \subseteq Unowned
  BY DEF Changed
<1>3. CASE calls[c] \in ReadType /\ Current(calls[c].body.moved, calls[c].body.runtime)
  <2>1. calls'[c] = [calls[c] EXCEPT !.body.moved = moved]
    BY <1>3 DEF Moved, IsDone, ReadType
  <2>2. moved \in SUBSET Unowned
    BY <1>2, <1>3 DEF ReadType
  <2> HIDE DEF moved
  <2>3. calls'[c] \in ReadType /\ calls'[c].body.moved = moved
        /\ calls'[c].body.runtime = calls[c].body.runtime
    BY <1>3, <2>1, <2>2 DEF ReadType
  <2> QED BY <1>1, <1>3, <2>3 DEF SettingsCall, Current
<1>4. CASE /\ calls[c] \in PostType /\ Current(calls[c].body.moved, calls[c].body.payload)
           /\ calls[c].body.payload.shared <= SettingMax
  <2>1. calls'[c] = [calls[c] EXCEPT !.body.moved = moved]
    BY <1>4 DEF Moved, PostType
  <2>2. moved \in SUBSET Unowned
    BY <1>2, <1>4 DEF PostType
  <2> HIDE DEF moved
  <2>3. calls'[c] \in PostType /\ calls'[c].body.moved = moved
        /\ calls'[c].body.payload = calls[c].body.payload
    BY <1>4, <2>1, <2>2 DEF PostType
  <2> QED BY <1>1, <1>4, <2>3 DEF SettingsCall, Current
<1>5. CASE calls[c] \in AskType
  BY <1>5 DEF Moved, IsDone, AskType, SettingsCall
<1>6. CASE calls[c].op \notin {"poll", "settings", "post"}
  BY <1>6 DEF Moved, IsDone, SettingsCall
<1> QED BY <1>3, <1>4, <1>5, <1>6 DEF SettingsCall

LEMMA BoxKeepsUp ==
  ASSUME BoxInv, NEW new, SetSettings(new), UNCHANGED form
  PROVE  BoxInv'
  BY DEF BoxInv, SetSettings, Changed, Unowned

LEMMA SettingsAnswer ==
  ASSUME SettingsInv, page = "curve", page' = "curve", NEW c \in CallSlots,
         AnswerSettings(c)
  PROVE  SettingsInv'
<1>0. /\ AreCalls /\ DeviceSettingsInv /\ BoxInv /\ SettingsCall(c) /\ UNCHANGED form
  BY DEF SettingsInv, AnswerSettings
<1>1. CASE /\ IsSent(c, "poll") \/ IsSent(c, "settings")
           /\ Put(c, Done(c, [moved |-> {}, runtime |-> device_settings]))
           /\ UNCHANGED <<device_settings, box_stale>>
  <2> DEFINE body == [moved |-> {}, runtime |-> device_settings]
  <2>1. calls[c] \in AskType
    BY <1>0, <1>1 DEF IsSent, SettingsCall, ReadType, PostType
  <2>2. body \in [moved : SUBSET Unowned, runtime : Settings]
        /\ Current(body.moved, body.runtime)
    BY <1>0 DEF DeviceSettingsInv, Current
  <2> HIDE DEF body
  <2>3. Done(c, body) \in ReadType /\ Done(c, body).body = body
    BY <1>1, <2>1, <2>2 DEF Done, AskType, ReadType, IsSent
  <2>4. calls'[c] = Done(c, body)
    BY <1>0, <1>1, PutOne DEF body
  <2>5. SettingsCall(c)'
    BY <1>1, <2>2, <2>3, <2>4 DEF SettingsCall, Current
  <2>6. BoxInv'
    BY <1>0, <1>1 DEF BoxInv
  <2> QED BY <1>1, <2>5, <2>6, OneSettingsCall
<1>2. CASE /\ IsSent(c, "post") /\ SetSettings(calls[c].body.payload)
           /\ calls' = [d \in CallSlots |->
                IF d = c THEN Done(c, calls[c].body) ELSE Moved(d, calls[c].body.payload)]
  <2> DEFINE new == calls[c].body.payload
  <2>1. calls[c] \in PostType /\ new.shared <= SettingMax
    BY <1>0, <1>2 DEF IsSent, SettingsCall, AskType, ReadType
  <2>2. new \in Settings /\ device_settings' = new
    BY <1>2, <2>1 DEF PostType, SetSettings
  <2>3. calls'[c] \in PostType /\ calls'[c].body = calls[c].body
    <3>1. calls'[c] = [op |-> calls[c].op, at |-> "done", body |-> calls[c].body]
      BY <1>2 DEF Done
    <3> QED BY <2>1, <3>1 DEF PostType
  <2>4. SettingsCall(c)'
    BY <2>1, <2>2, <2>3 DEF SettingsCall, Current
  <2>5. BoxInv'
    BY <1>0, <1>2, BoxKeepsUp
  <2> HIDE DEF new
  <2>6. ASSUME NEW d \in CallSlots, d # c PROVE SettingsCall(d)'
    <3>1. SettingsCall(d) /\ calls'[d] = Moved(d, new)
      BY <1>2, <2>6 DEF SettingsInv, new
    <3> QED BY <2>2, <3>1, MovedCall DEF new
  <2>7. AreCalls'
    BY <1>2 DEF AreCalls
  <2> QED BY <2>1, <2>2, <2>4, <2>5, <2>6, <2>7 DEF SettingsInv, DeviceSettingsInv
<1> QED BY <1>1, <1>2 DEF AnswerSettings

LEMMA OtherPage ==
  ASSUME SettingsInv, page = "curve", page' = "curve", NEW n \in TypedSettings,
         OtherPageSaves(n)
  PROVE  SettingsInv'
<1>1. PICK k \in Unowned :
        LET new == [device_settings EXCEPT ![k] = Limited(n, SettingMax)]
        IN  SetSettings(new) /\ calls' = [c \in CallSlots |-> Moved(c, new)]
  BY DEF OtherPageSaves
<1> DEFINE limited == Limited(n, SettingMax)
           new == [device_settings EXCEPT ![k] = limited]
<1>2. limited \in Nat /\ limited <= SettingMax
  BY LimitedType, CurvePageAssumption
<1> HIDE DEF limited
<1>3. new \in Settings /\ new.shared <= SettingMax
  BY <1>2 DEF SettingsInv, DeviceSettingsInv, Settings, Unowned
<1>4. SetSettings(new) /\ calls' = [c \in CallSlots |-> Moved(c, new)]
  BY <1>1 DEF limited
<1> HIDE DEF new
<1>5. device_settings' = new
  BY <1>4 DEF SetSettings
<1>6. \A c \in CallSlots : SettingsCall(c)'
  BY <1>4, <1>5, MovedCall DEF SettingsInv
<1>7. BoxInv'
  BY <1>4, BoxKeepsUp DEF SettingsInv, OtherPageSaves
<1>8. AreCalls'
  BY <1>4 DEF AreCalls
<1> QED BY <1>3, <1>5, <1>6, <1>7, <1>8 DEF SettingsInv, DeviceSettingsInv

LEMMA SettingsPosted ==
  ASSUME SettingsInv, page = "curve", NEW c \in CallSlots, PostSettings(c)
  PROVE  SettingsInv'
<1> DEFINE read == calls[c].body
           payload == [own |-> Limited(form.own, SettingMax), other |-> read.runtime.other,
                       shared |-> Limited(form.shared, SettingMax)]
           moved == (read.moved \ {"shared"}) \cup IF box_stale THEN {"shared"} ELSE {}
           body == [moved |-> moved, payload |-> payload]
<1>1. AreCalls /\ DeviceSettingsInv /\ BoxInv /\ SettingsCall(c)
  BY DEF SettingsInv
<1>2. calls[c] \in ReadType /\ Current(read.moved, read.runtime)
  BY <1>1 DEF PostSettings, IsDone, SettingsCall, AskType, PostType
<1>3. read.moved \in SUBSET Unowned /\ read.runtime \in Settings
  BY <1>2 DEF ReadType
<1>4. Put(c, Sent("post", body)) /\ UNCHANGED <<device_settings, form, box_stale>>
  BY DEF PostSettings, Posted
<1>5. payload \in Settings /\ payload.shared <= SettingMax
      /\ payload.other = read.runtime.other
      /\ (~box_stale => payload.shared = device_settings.shared)
  <2> DEFINE own == Limited(form.own, SettingMax)
             shared == Limited(form.shared, SettingMax)
  <2>1. own \in Nat /\ shared \in Nat /\ shared <= SettingMax
        /\ (~box_stale => shared = device_settings.shared)
    BY <1>1, LimitedType DEF BoxInv, DeviceSettingsInv
  <2> HIDE DEF own, shared
  <2>2. payload = [own |-> own, other |-> read.runtime.other, shared |-> shared]
    BY DEF own, shared
  <2> HIDE DEF payload
  <2> QED BY <1>3, <2>1, <2>2 DEF Settings
<1> HIDE DEF payload
<1>6. moved \in SUBSET Unowned
  BY <1>3 DEF Unowned
<1>7. Current(moved, payload)
  <2>1. "other" \notin moved => payload["other"] = device_settings["other"]
    BY <1>2, <1>5 DEF Current, Unowned
  <2>2. "shared" \notin moved => payload["shared"] = device_settings["shared"]
    BY <1>5
  <2> HIDE DEF moved
  <2> QED BY <2>1, <2>2 DEF Current, Unowned
<1> HIDE DEF moved
<1>8. body \in [moved : SUBSET Unowned, payload : Settings]
      /\ body.moved = moved /\ body.payload = payload
  BY <1>5, <1>6
<1> HIDE DEF body
<1>9. calls'[c] = Sent("post", body)
  BY <1>1, <1>4, PutOne
<1>10. calls'[c] \in PostType /\ calls'[c].body = body
  BY <1>8, <1>9 DEF Sent, PostType
<1>11. SettingsCall(c)'
  BY <1>4, <1>5, <1>7, <1>8, <1>10 DEF SettingsCall, Current
<1>12. BoxInv'
  BY <1>1, <1>4 DEF BoxInv
<1> QED BY <1>4, <1>11, <1>12, OneSettingsCall

LEMMA Polled ==
  ASSUME SettingsInv, page = "curve", NEW c \in CallSlots, FinishPoll(c)
  PROVE  SettingsInv'
<1> DEFINE read == calls[c].body
<1>1. AreCalls /\ DeviceSettingsInv /\ BoxInv /\ SettingsCall(c)
  BY DEF SettingsInv
<1>2. calls[c] \in ReadType /\ Current(read.moved, read.runtime)
  BY <1>1 DEF FinishPoll, IsDone, SettingsCall, AskType, PostType
<1>3. read.runtime \in Settings
      /\ ("shared" \notin read.moved => read.runtime.shared = device_settings.shared)
  BY <1>2 DEF ReadType, Current, Unowned
<1> HIDE DEF read
<1>4. PICK focused \in {"none", "own", "shared"} :
        /\ form' = [k \in {"own", "shared"} |->
                      IF k = focused THEN form[k] ELSE read.runtime[k]]
        /\ box_stale' = IF focused = "shared" THEN box_stale ELSE "shared" \in read.moved
  BY DEF FinishPoll, read
<1>5. /\ form'.own \in Nat /\ form'.shared \in Nat
      /\ form'.shared = IF focused = "shared" THEN form.shared ELSE read.runtime.shared
  BY <1>1, <1>3, <1>4 DEF BoxInv, Settings
<1>6. form' \in [own : Nat, shared : Nat]
  <2>1. form' = [own |-> form'.own, shared |-> form'.shared]
    BY <1>4
  <2> QED BY <1>5, <2>1
<1>7. UNCHANGED device_settings /\ Put(c, NoCall)
  BY DEF FinishPoll, Ends
<1>8. BoxInv'
  BY <1>1, <1>3, <1>4, <1>5, <1>6, <1>7 DEF BoxInv
<1> QED BY <1>7, <1>8, BareCall DEF NoCall

LEMMA SettingsStep == SettingsInv /\ [WebPagesNext]_WebPagesVars => SettingsInv'
<1> SUFFICES ASSUME SettingsInv, [WebPagesNext]_WebPagesVars, page' = "curve"
             PROVE  SettingsInv'
  BY DEF SettingsInv
<1>0. /\ page = "curve" /\ AreCalls /\ DeviceSettingsInv /\ BoxInv
      /\ \A c \in CallSlots : SettingsCall(c)
  BY DEF WebPagesNext, WebPagesVars, pageVars, SettingsInv
<1>1. CASE UNCHANGED <<calls, device_settings>> /\ BoxInv'
  <2>1. \A c \in CallSlots : SettingsCall(c)'
    BY <1>0, <1>1 DEF SettingsCall, Current
  <2> QED BY <1>0, <1>1, <2>1 DEF SettingsInv, AreCalls, DeviceSettingsInv
<1>2. ASSUME UNCHANGED settingsVars PROVE UNCHANGED device_settings /\ BoxInv'
  BY <1>0, <1>2 DEF settingsVars, BoxInv
<1>3. CASE CurveNext
  <2>1. ASSUME NEW c \in CallSlots, AnswerSettings(c) PROVE SettingsInv'
    BY <1>0, <2>1, SettingsAnswer
  <2>2. ASSUME NEW c \in CallSlots, AnswerCurve(c) PROVE SettingsInv'
    <3>1. UNCHANGED settingsVars
      BY <2>2 DEF AnswerCurve
    <3>2. CASE IsSent(c, "load") /\ Put(c, Done(c, [curve |-> device_curve,
                                                    overtaken |-> FALSE]))
      <4> DEFINE call == Done(c, [curve |-> device_curve, overtaken |-> FALSE])
      <4>1. calls'[c] = call
        BY <1>0, <3>2, PutOne
      <4>2. calls'[c].op = "load"
        BY <3>2, <4>1 DEF Done, IsSent
      <4>3. SettingsCall(c)'
        BY <4>2 DEF SettingsCall
      <4> QED BY <1>0, <1>2, <3>1, <3>2, <4>3, OneSettingsCall
    <3>3. CASE /\ IsSent(c, "save")
               /\ calls' = [d \in CallSlots |->
                    IF d = c THEN Done(c, calls[c].body)
                    ELSE IF IsDone(d, "load")
                         THEN Done(d, [curve |-> calls[d].body.curve, overtaken |-> TRUE])
                         ELSE calls[d]]
      <4>1. ASSUME NEW d \in CallSlots PROVE SettingsCall(d)'
        <5>1. CASE d = c \/ IsDone(d, "load")
          <6>1. calls'[d].op \in {"save", "load"}
            BY <3>3, <5>1 DEF Done, IsSent, IsDone
          <6> QED BY <6>1 DEF SettingsCall
        <5>2. CASE ~(d = c \/ IsDone(d, "load"))
          <6>1. calls'[d] = calls[d]
            BY <3>3, <5>2
          <6> QED BY <1>0, <1>2, <3>1, <6>1 DEF SettingsCall, Current
        <5> QED BY <5>1, <5>2
      <4>2. AreCalls'
        BY <3>3 DEF AreCalls
      <4> QED BY <1>0, <1>2, <3>1, <4>1, <4>2 DEF SettingsInv, DeviceSettingsInv
    <3> QED BY <2>2, <3>2, <3>3 DEF AnswerCurve
  <2>3. ASSUME NEW c \in CallSlots,
               FinishCurveLoad(c) \/ FinishSettings(c) \/ CurveCallFails(c)
        PROVE  SettingsInv'
    <3>1. Put(c, NoCall) /\ UNCHANGED settingsVars
      BY <2>3 DEF FinishCurveLoad, FinishSettings, CurveCallFails, Fails, Ends, curveVars
    <3> QED BY <1>0, <1>2, <3>1, BareCall DEF NoCall
  <2>4. ASSUME NEW c \in CallSlots, FinishCurveSave(c) PROVE SettingsInv'
    <3>1. Put(c, Sent("load", <<>>)) /\ UNCHANGED settingsVars
      BY <2>4 DEF FinishCurveSave, curveVars
    <3>2. Sent("load", <<>>).op = "load"
      BY DEF Sent
    <3> QED BY <1>0, <1>2, <3>1, <3>2, BareCall
  <2>5. ASSUME NEW c \in CallSlots, FinishPoll(c) PROVE SettingsInv'
    BY <1>0, <2>5, Polled
  <2>6. ASSUME NEW c \in CallSlots, PostSettings(c) PROVE SettingsInv'
    BY <1>0, <2>6, SettingsPosted
  <2>7. CASE CurvePoll \/ SaveModeSettings \/ LoadCurve
    <3>1. UNCHANGED settingsVars
      BY <2>7 DEF CurvePoll, SaveModeSettings, LoadCurve, curveVars
    <3>2. PICK op \in {"poll", "settings", "load"} : Start(Sent(op, <<>>))
      BY <2>7 DEF CurvePoll, SaveModeSettings, LoadCurve
    <3>3. PICK c \in CallSlots : Put(c, Sent(op, <<>>))
      BY <3>2 DEF Start
    <3>4. Sent(op, <<>>).op \notin {"poll", "settings", "post"}
          \/ Sent(op, <<>>) \in AskType
      BY DEF Sent, AskType
    <3> QED BY <1>0, <1>2, <3>1, <3>3, <3>4, BareCall
  <2>8. ASSUME NEW n \in TypedSettings, OtherPageSaves(n) PROVE SettingsInv'
    BY <1>0, <2>8, OtherPage
  <2>9. CASE EditCurve
    BY <1>1, <1>2, <2>9 DEF EditCurve, settingsVars
  <2>10. CASE SaveCurve
    <3>1. UNCHANGED settingsVars
      BY <2>10 DEF SaveCurve
    <3>2. CASE UNCHANGED calls
      BY <1>1, <1>2, <3>1, <3>2
    <3>3. CASE Start(Sent("save", points'))
      <4>1. PICK c \in CallSlots : Put(c, Sent("save", points'))
        BY <3>3 DEF Start
      <4>2. AreCalls' /\ calls'[c].op = "save"
            /\ \A d \in CallSlots : d # c => calls'[d] = calls[d]
        BY <1>0, <4>1 DEF Put, AreCalls, Sent
      <4>3. \A d \in CallSlots : SettingsCall(d)'
        BY <1>0, <1>2, <3>1, <4>2 DEF SettingsCall, Current
      <4> QED BY <1>0, <1>2, <3>1, <4>2, <4>3 DEF SettingsInv, DeviceSettingsInv
    <3> QED BY <2>10, <3>2, <3>3 DEF SaveCurve
  <2>11. ASSUME NEW n \in TypedSettings, TypeSetting(n) PROVE SettingsInv'
    <3>1. n \in Nat
      BY CurvePageAssumption
    <3>2. BoxInv'
      BY <1>0, <2>11, <3>1 DEF TypeSetting, BoxInv
    <3> QED BY <1>1, <2>11, <3>2 DEF TypeSetting
  <2> QED BY <1>3, <2>1, <2>2, <2>3, <2>4, <2>5, <2>6, <2>7, <2>8, <2>9, <2>10, <2>11
          DEF CurveNext, CurveAnswers
<1>4. CASE UNCHANGED <<pageVars, curveVars>>
  BY <1>1, <1>2, <1>4 DEF pageVars, curveVars
<1> QED BY <1>0, <1>3, <1>4 DEF WebPagesNext, WebPagesVars, pageVars

(* A save of one page's settings leaves those of another page and, unless  *)
(* their box is stale, those that the pages share: saveModeSettings posts  *)
(* them all, the ones without a box as it has read them.  Exempt is what   *)
(* has changed since it was read or shown.                                 *)
THEOREM SettingsAreKept == WebPagesSpec => SettingsKeepOthers
<1>1. SettingsInv /\ [WebPagesNext]_WebPagesVars
        => [\A c \in CallSlots :
              (page = "curve" /\ IsSent(c, "post") /\ CurveAnswers(c))
                => \A k \in Unowned \ calls[c].body.moved :
                     device_settings'[k] = device_settings[k]]_curveVars
  <2> SUFFICES ASSUME SettingsInv, NEW c \in CallSlots, page = "curve", IsSent(c, "post"),
                      CurveAnswers(c), NEW k \in Unowned \ calls[c].body.moved
               PROVE  device_settings'[k] = device_settings[k]
    OBVIOUS
  <2>1. device_settings' = calls[c].body.payload
    BY DEF CurveAnswers, AnswerCurve, AnswerSettings, IsSent, SetSettings
  <2>2. Current(calls[c].body.moved, calls[c].body.payload)
    BY DEF SettingsInv, SettingsCall, IsSent, AskType, ReadType
  <2> QED BY <2>1, <2>2 DEF Current
<1> QED BY <1>1, SettingsInitially, SettingsStep, PTL DEF WebPagesSpec, SettingsKeepOthers

(* Then their curve.  As long as the rows are not in doubt, they show the  *)
(* device's curve or a load or a save is under way, and a curve that was   *)
(* read is the device's unless it was overtaken.                           *)
Answered(curve, overtaken) ==
  [op |-> "load", at |-> "done", body |-> [curve |-> curve, overtaken |-> overtaken]]
LoadCall(c) ==
  calls[c].op = "load" =>
    \/ calls[c] = Sent("load", <<>>)
    \/ \E curve : \E overtaken \in BOOLEAN :
         /\ calls[c] = Answered(curve, overtaken)
         /\ ~overtaken => curve = device_curve
UnderWay(c) == calls[c].op \in {"load", "save"}
RowsInv ==
  ~doubtful => rows = Loaded(device_curve) \/ \E c \in CallSlots : UnderWay(c)
ShownInv ==
  page = "curve" => AreCalls /\ RowsInv /\ \A c \in CallSlots : LoadCall(c)

LEMMA LoadStays ==
  ASSUME NEW c, LoadCall(c), calls'[c] = calls[c], UNCHANGED device_curve
  PROVE  LoadCall(c)'
BY DEF LoadCall

LEMMA LoadForms ==
  /\ \A curve : \A overtaken \in BOOLEAN :
       Answered(curve, overtaken).op = "load" /\ Answered(curve, overtaken).at = "done"
  /\ Sent("load", <<>>).op = "load" /\ Sent("load", <<>>).at = "sent"
BY DEF Answered, Sent

LEMMA AnswerLoad ==
  ASSUME NEW c, NEW curve, NEW overtaken, calls[c].op = "load"
  PROVE  Done(c, [curve |-> curve, overtaken |-> overtaken]) = Answered(curve, overtaken)
BY DEF Done, Answered

LEMMA ShownInitially == WebPagesInit => ShownInv
<1> SUFFICES ASSUME WebPagesInit, page = "curve" PROVE ShownInv
  BY DEF ShownInv
<1> DEFINE first == <<Sent("load", <<>>), Sent("poll", <<>>)>>
<1>1. CallsInit(first)
  BY DEF WebPagesInit, CurveInit
<1>2. \A c \in CallSlots : LoadCall(c)
  BY CurveOpens DEF LoadCall, Sent, NoCall
<1>3. 1 \in CallSlots
  BY PageCallsAssumption DEF CallSlots
<1>4. calls[1] = Sent("load", <<>>)
  <2>1. 1 \in DOMAIN first /\ first[1] = Sent("load", <<>>)
    OBVIOUS
  <2> QED BY <1>1, <1>3, <2>1 DEF CallsInit
<1>5. UnderWay(1)
  BY <1>4 DEF UnderWay, Sent
<1> QED BY <1>2, <1>3, <1>5, CurveOpens DEF ShownInv, RowsInv

LEMMA ShownStep == ShownInv /\ [WebPagesNext]_WebPagesVars => ShownInv'
<1> SUFFICES ASSUME ShownInv, [WebPagesNext]_WebPagesVars, page' = "curve"
             PROVE  ShownInv'
  BY DEF ShownInv
<1>0. page = "curve" /\ AreCalls /\ RowsInv /\ \A c \in CallSlots : LoadCall(c)
  BY DEF WebPagesNext, WebPagesVars, pageVars, ShownInv
(* One call goes on that is neither a load or a save before nor after.     *)
<1>1. ASSUME NEW c \in CallSlots, ~UnderWay(c), AreCalls', ~UnderWay(c)',
             \A d \in CallSlots : d # c => calls'[d] = calls[d], UNCHANGED shownVars
      PROVE  ShownInv'
  <2>1. ASSUME NEW d \in CallSlots PROVE LoadCall(d)' /\ (UnderWay(d) => UnderWay(d)')
    <3>1. CASE d = c
      BY <1>1, <3>1 DEF LoadCall, UnderWay
    <3>2. CASE d # c
      BY <1>0, <1>1, <3>2, LoadStays DEF UnderWay, shownVars
    <3> QED BY <3>1, <3>2
  <2> QED BY <1>0, <1>1, <2>1 DEF ShownInv, RowsInv, shownVars
(* One call becomes a load that is sent.                                   *)
<1>2. ASSUME NEW c \in CallSlots, Put(c, Sent("load", <<>>)),
             UNCHANGED device_curve
      PROVE  ShownInv'
  <2>1. AreCalls' /\ calls'[c] = Sent("load", <<>>)
        /\ \A d \in CallSlots : d # c => calls'[d] = calls[d]
    BY <1>0, <1>2, PutOne
  <2>2. UnderWay(c)' /\ LoadCall(c)'
    BY <2>1 DEF LoadCall, UnderWay, Sent
  <2>3. ASSUME NEW d \in CallSlots, d # c PROVE LoadCall(d)'
    BY <1>0, <1>2, <2>1, <2>3, LoadStays
  <2> QED BY <2>1, <2>2, <2>3 DEF ShownInv, RowsInv
<1>3. CASE UNCHANGED <<calls, device_curve>> /\ (doubtful' \/ UNCHANGED <<rows, doubtful>>)
  <2>1. ASSUME NEW d \in CallSlots PROVE LoadCall(d)' /\ (UnderWay(d) => UnderWay(d)')
    BY <1>0, <1>3, LoadStays DEF UnderWay
  <2> QED BY <1>0, <1>3, <2>1 DEF ShownInv, RowsInv, AreCalls
<1>4. CASE CurveNext
  <2>1. ASSUME NEW c \in CallSlots, AnswerCurve(c) PROVE ShownInv'
    <3>1. UNCHANGED <<rows, doubtful>>
      BY <2>1 DEF AnswerCurve
    <3>2. CASE /\ IsSent(c, "load")
               /\ Put(c, Done(c, [curve |-> device_curve, overtaken |-> FALSE]))
               /\ UNCHANGED device_curve
      <4> DEFINE call == Done(c, [curve |-> device_curve, overtaken |-> FALSE])
      <4>1. call = Answered(device_curve, FALSE)
        BY <3>2, AnswerLoad, Zenon DEF IsSent
      <4> HIDE DEF call
      <4>2. AreCalls' /\ calls'[c] = Answered(device_curve, FALSE)
            /\ \A d \in CallSlots : d # c => calls'[d] = calls[d]
        BY <1>0, <3>2, <4>1, PutOne DEF call
      <4>3. UnderWay(c)' /\ LoadCall(c)'
        BY <3>2, <4>2, LoadForms DEF LoadCall, UnderWay
      <4>4. ASSUME NEW d \in CallSlots, d # c PROVE LoadCall(d)'
        BY <1>0, <3>2, <4>2, <4>4, LoadStays
      <4> QED BY <4>2, <4>3, <4>4 DEF ShownInv, RowsInv
    <3>3. CASE /\ IsSent(c, "save")
               /\ calls' = [d \in CallSlots |->
                    IF d = c THEN Done(c, calls[c].body)
                    ELSE IF IsDone(d, "load")
                         THEN Done(d, [curve |-> calls[d].body.curve, overtaken |-> TRUE])
                         ELSE calls[d]]
      <4> DEFINE call == Done(c, calls[c].body)
      <4>0. call.op = "save"
        BY <3>3 DEF Done, IsSent
      <4>1. calls'[c].op = "save"
        <5>1. calls'[c] = call
          BY <3>3
        <5> HIDE DEF call
        <5> QED BY <4>0, <5>1
      <4>2. ASSUME NEW d \in CallSlots PROVE LoadCall(d)'
        <5>1. CASE d = c
          BY <4>1, <5>1 DEF LoadCall
        <5>2. CASE d # c /\ IsDone(d, "load")
          <6> DEFINE curve == calls[d].body.curve
                     marked == Done(d, [curve |-> curve, overtaken |-> TRUE])
          <6>1. calls'[d] = marked
            BY <3>3, <5>2
          <6>2. marked = Answered(curve, TRUE)
            BY <5>2, AnswerLoad, Zenon DEF IsDone
          <6> HIDE DEF marked
          <6>3. calls'[d] = Answered(curve, TRUE)
            BY <6>1, <6>2
          <6> QED BY <6>3 DEF LoadCall
        <5>3. CASE d # c /\ ~IsDone(d, "load")
          <6>1. calls'[d] = calls[d]
            BY <3>3, <5>3
          <6>2. calls[d].op = "load" => calls[d] = Sent("load", <<>>)
            <7>1. LoadCall(d)
              BY <1>0
            <7> QED BY <5>3, <7>1, LoadForms DEF LoadCall, IsDone
          <6> QED BY <6>1, <6>2 DEF LoadCall
        <5> QED BY <5>1, <5>2, <5>3
      <4>3. AreCalls' /\ UnderWay(c)'
        BY <3>3, <4>1 DEF AreCalls, UnderWay
      <4> QED BY <4>2, <4>3 DEF ShownInv, RowsInv
    <3> QED BY <2>1, <3>2, <3>3 DEF AnswerCurve
  <2>2. ASSUME NEW c \in CallSlots, AnswerSettings(c) PROVE ShownInv'
    <3>1. UNCHANGED shownVars
      BY <2>2 DEF AnswerSettings
    <3>2. CASE /\ IsSent(c, "poll") \/ IsSent(c, "settings")
               /\ Put(c, Done(c, [moved |-> {}, runtime |-> device_settings]))
      <4> DEFINE call == Done(c, [moved |-> {}, runtime |-> device_settings])
      <4>1. calls'[c] = call /\ AreCalls'
            /\ \A d \in CallSlots : d # c => calls'[d] = calls[d]
        BY <1>0, <3>2, PutOne
      <4>2. call.op = calls[c].op
        BY <3>2 DEF Done, IsSent
      <4> HIDE DEF call
      <4>3. ~UnderWay(c) /\ ~UnderWay(c)'
        BY <3>2, <4>1, <4>2 DEF UnderWay, IsSent
      <4> QED BY <1>1, <3>1, <4>1, <4>3
    <3>3. CASE /\ IsSent(c, "post")
               /\ calls' = [d \in CallSlots |-> IF d = c THEN Done(c, calls[c].body)
                                                ELSE Moved(d, calls[c].body.payload)]
      <4>1. ASSUME NEW d \in CallSlots
            PROVE  LoadCall(d)' /\ (UnderWay(d) => UnderWay(d)')
        <5>1. CASE d = c
          <6> DEFINE call == Done(c, calls[c].body)
          <6>1. call.op = "post" /\ calls[d].op = "post"
            BY <3>3, <5>1 DEF Done, IsSent
          <6>2. calls'[d].op = "post" /\ calls[d].op = "post"
            <7>1. calls'[d] = call
              BY <3>3, <5>1
            <7> HIDE DEF call
            <7> QED BY <6>1, <7>1
          <6> QED BY <6>2 DEF LoadCall, UnderWay
        <5>2. CASE d # c /\ ~ (IsDone(d, "poll") \/ IsDone(d, "settings")
                               \/ calls[d].op = "post")
          <6>1. calls'[d] = calls[d]
            BY <3>3, <5>2 DEF Moved
          <6> QED BY <1>0, <3>1, <6>1, LoadStays DEF UnderWay, shownVars
        <5>3. CASE d # c /\ (IsDone(d, "poll") \/ IsDone(d, "settings")
                             \/ calls[d].op = "post")
          <6>1. calls'[d].op = calls[d].op
            BY <3>3, <5>3 DEF Moved, IsDone
          <6>2. calls[d].op \notin {"load", "save"}
            BY <5>3 DEF IsDone
          <6> QED BY <6>1, <6>2 DEF LoadCall, IsDone, UnderWay
        <5> QED BY <5>1, <5>2, <5>3
      <4>2. AreCalls'
        BY <3>3 DEF AreCalls
      <4> QED BY <1>0, <3>1, <4>1, <4>2 DEF ShownInv, RowsInv, shownVars
    <3> QED BY <2>2, <3>2, <3>3 DEF AnswerSettings
  <2>3. ASSUME NEW c \in CallSlots, FinishCurveLoad(c) PROVE ShownInv'
    <3>1. PICK curve : \E overtaken \in BOOLEAN :
            /\ calls[c] = Answered(curve, overtaken)
            /\ ~overtaken => curve = device_curve
      BY <1>0, <2>3 DEF FinishCurveLoad, LoadCall, IsDone, Sent
    <3>2. /\ calls[c].body.curve = curve
          /\ ~calls[c].body.overtaken => curve = device_curve
      BY <3>1 DEF Answered
    <3>3. /\ rows' = Loaded(curve) /\ doubtful' = calls[c].body.overtaken
          /\ UNCHANGED device_curve /\ Put(c, NoCall)
      BY <2>3, <3>2 DEF FinishCurveLoad, Show, Ends
    <3>4. AreCalls' /\ calls'[c] = NoCall
          /\ \A d \in CallSlots : d # c => calls'[d] = calls[d]
      BY <1>0, <3>3, PutOne
    <3>5. ASSUME NEW d \in CallSlots PROVE LoadCall(d)'
      <4>1. CASE d = c
        BY <3>4, <4>1 DEF LoadCall, NoCall
      <4>2. CASE d # c
        BY <1>0, <3>3, <3>4, <4>2, LoadStays
      <4> QED BY <4>1, <4>2
    <3>6. ~doubtful' => rows' = Loaded(device_curve')
      BY <3>2, <3>3
    <3>7. RowsInv'
      BY <3>6 DEF RowsInv
    <3> QED BY <3>4, <3>5, <3>7 DEF ShownInv
  <2>4. ASSUME NEW c \in CallSlots, FinishSettings(c) \/ FinishPoll(c) PROVE ShownInv'
    <3>1. Put(c, NoCall) /\ ~UnderWay(c) /\ UNCHANGED shownVars
      BY <2>4 DEF FinishSettings, FinishPoll, IsDone, Ends, UnderWay, curveVars
    <3>2. AreCalls' /\ calls'[c] = NoCall
          /\ \A d \in CallSlots : d # c => calls'[d] = calls[d]
      BY <1>0, <3>1, PutOne
    <3>3. ~UnderWay(c)'
      BY <3>2 DEF UnderWay, NoCall
    <3> QED BY <1>1, <3>1, <3>2, <3>3
  <2>5. ASSUME NEW c \in CallSlots, CurveCallFails(c) PROVE ShownInv'
    <3>1. /\ Put(c, NoCall) /\ UNCHANGED <<device_curve, rows>>
          /\ doubtful' = (doubtful \/ UnderWay(c))
      BY <2>5 DEF CurveCallFails, Fails, Ends, UnderWay
    <3>2. AreCalls' /\ calls'[c] = NoCall
          /\ \A d \in CallSlots : d # c => calls'[d] = calls[d]
      BY <1>0, <3>1, PutOne
    <3>3. ASSUME NEW d \in CallSlots PROVE LoadCall(d)'
      <4>1. CASE d = c
        BY <3>2, <4>1 DEF LoadCall, NoCall
      <4>2. CASE d # c
        BY <1>0, <3>1, <3>2, <4>2, LoadStays
      <4> QED BY <4>1, <4>2
    <3>4. \A d \in CallSlots : d # c => (UnderWay(d) => UnderWay(d)')
      BY <3>2 DEF UnderWay
    <3> QED BY <1>0, <3>1, <3>2, <3>3, <3>4 DEF ShownInv, RowsInv
  <2>6. ASSUME NEW c \in CallSlots, FinishCurveSave(c) PROVE ShownInv'
    BY <1>2, <2>6 DEF FinishCurveSave, curveVars, shownVars
  <2>7. ASSUME NEW c \in CallSlots, PostSettings(c) PROVE ShownInv'
    <3> DEFINE call == Sent("post", Posted(c, calls[c].body.runtime.other))
    <3>1. Put(c, call) /\ ~UnderWay(c) /\ UNCHANGED shownVars
      BY <2>7 DEF PostSettings, IsDone, UnderWay
    <3>2. AreCalls' /\ calls'[c] = call
          /\ \A d \in CallSlots : d # c => calls'[d] = calls[d]
      BY <1>0, <3>1, PutOne
    <3>3. call.op = "post"
      BY DEF Sent
    <3> HIDE DEF call
    <3>4. ~UnderWay(c)'
      BY <3>2, <3>3 DEF UnderWay
    <3> QED BY <1>1, <3>1, <3>2, <3>4
  <2>8. CASE CurvePoll \/ SaveModeSettings
    <3>1. PICK op \in {"poll", "settings"} : Start(Sent(op, <<>>))
      BY <2>8 DEF CurvePoll, SaveModeSettings
    <3>2. PICK c \in CallSlots : calls[c].op = "none" /\ Put(c, Sent(op, <<>>))
      BY <3>1 DEF Start
    <3>3. AreCalls' /\ calls'[c] = Sent(op, <<>>)
          /\ \A d \in CallSlots : d # c => calls'[d] = calls[d]
      BY <1>0, <3>2, PutOne
    <3>4. ~UnderWay(c) /\ ~UnderWay(c)'
      BY <3>2, <3>3 DEF UnderWay, Sent
    <3>5. UNCHANGED shownVars
      BY <2>8 DEF CurvePoll, SaveModeSettings, curveVars
    <3> QED BY <1>1, <3>3, <3>4, <3>5
  <2>9. CASE LoadCurve
    BY <1>2, <2>9 DEF LoadCurve, Start, curveVars, shownVars
  <2>10. ASSUME NEW n \in TypedSettings, OtherPageSaves(n) PROVE ShownInv'
    <3>1. UNCHANGED shownVars
      BY <2>10 DEF OtherPageSaves
    <3>2. PICK new : calls' = [c \in CallSlots |-> Moved(c, new)]
      BY <2>10 DEF OtherPageSaves
    <3>3. ASSUME NEW d \in CallSlots PROVE LoadCall(d)' /\ (UnderWay(d) => UnderWay(d)')
      <4>1. CASE ~ (IsDone(d, "poll") \/ IsDone(d, "settings") \/ calls[d].op = "post")
        <5>1. calls'[d] = calls[d]
          BY <3>2, <4>1 DEF Moved
        <5> QED BY <1>0, <3>1, <5>1, LoadStays DEF UnderWay, shownVars
      <4>2. CASE IsDone(d, "poll") \/ IsDone(d, "settings") \/ calls[d].op = "post"
        <5>1. calls'[d].op = calls[d].op
          BY <3>2, <4>2 DEF Moved, IsDone
        <5>2. calls[d].op \notin {"load", "save"}
          BY <4>2 DEF IsDone
        <5> QED BY <5>1, <5>2 DEF LoadCall, IsDone, UnderWay
      <4> QED BY <4>1, <4>2
    <3>4. AreCalls'
      BY <3>2 DEF AreCalls
    <3> QED BY <1>0, <3>1, <3>3, <3>4 DEF ShownInv, RowsInv, shownVars
  <2>11. CASE EditCurve
    BY <1>3, <2>11 DEF EditCurve
  <2>12. CASE SaveCurve
    <3>1. CASE UNCHANGED <<calls, doubtful>>
      BY <1>3, <2>12, <3>1 DEF SaveCurve
    <3>2. CASE Start(Sent("save", points'))
      <4>1. PICK c \in CallSlots : Put(c, Sent("save", points'))
        BY <3>2 DEF Start
      <4>2. AreCalls' /\ calls'[c].op = "save"
            /\ \A d \in CallSlots : d # c => calls'[d] = calls[d]
        BY <1>0, <4>1 DEF Put, AreCalls, Sent
      <4>3. UnderWay(c)' /\ UNCHANGED device_curve
        BY <2>12, <4>2 DEF UnderWay, SaveCurve
      <4>4. ASSUME NEW d \in CallSlots PROVE LoadCall(d)'
        <5>1. CASE d = c
          BY <4>2, <5>1 DEF LoadCall
        <5>2. CASE d # c
          BY <1>0, <4>2, <4>3, <5>2, LoadStays
        <5> QED BY <5>1, <5>2
      <4> QED BY <4>2, <4>3, <4>4 DEF ShownInv, RowsInv
    <3> QED BY <2>12, <3>1, <3>2 DEF SaveCurve
  <2>13. ASSUME NEW n \in TypedSettings, TypeSetting(n) PROVE ShownInv'
    BY <1>3, <2>13 DEF TypeSetting, shownVars
  <2> QED BY <1>4, <2>1, <2>2, <2>3, <2>4, <2>5, <2>6, <2>7, <2>8, <2>9, <2>10, <2>11,
             <2>12, <2>13 DEF CurveNext, CurveAnswers
<1>5. CASE UNCHANGED <<pageVars, curveVars>>
  BY <1>3, <1>5 DEF pageVars, curveVars, shownVars
<1> QED BY <1>0, <1>4, <1>5 DEF WebPagesNext, WebPagesVars, pageVars

(* With no load or save under way the rows are the device's curve, unless  *)
(* they are in doubt: typed into, or after a request that failed or was    *)
(* overtaken (loadCurve and saveCurve, which do not wait for each other).  *)
THEOREM RowsAreTheCurve == WebPagesSpec => []CurveIsShown
<1>1. ShownInv => CurveIsShown
  BY DEF ShownInv, RowsInv, UnderWay, CurveIsShown
<1> QED BY <1>1, ShownInitially, ShownStep, PTL DEF WebPagesSpec

-----------------------------------------------------------------------------
(* The setup page.  The slots are a sequence of at most MaxSlots that is   *)
(* never empty, so that a stored profile opens as it was stored.           *)
SignalKeys ==
  {""} \cup TypedKeys \cup {FirmwareKey[s] : s \in DecodedSignals}
       \cup {OverrideKey[s] : s \in DecodedSignals}
SlotType == [key : Nat, signal : SignalKeys]
SetupInv ==
  /\ slots \in Seq(SlotType) /\ Len(slots) \in 1 .. MaxSlots
  /\ selected_dash \in SlotKeys(slots)
  /\ override_signal \in SignalKeys
  /\ snapshot \subseteq SignalKeys /\ options \subseteq SignalKeys
  /\ profile = <<>> \/ \E lines : \E list \in Seq(SlotType) :
       Len(list) \in 1 .. MaxSlots /\ profile = <<[mappings |-> lines, slots |-> list]>>
  /\ profile_kept => Opens(profile).mappings = mappings /\ Opens(profile).slots = slots
(* An input that the first script has not written is as it is mapped.      *)
Mapping == [Inputs -> SignalKeys]
SetupCall == [op : {"load", "save"}, at : {"sent", "done"}, body : Mapping]
InputsInv ==
  /\ inputs \in Mapping /\ mappings \in Mapping /\ device_mappings \in Mapping
  /\ selected_input \in Inputs
  /\ firmware_signal \in SignalKeys /\ behavior_signal \in SignalKeys
  /\ profile # <<>> => profile[1].mappings \in Mapping
  /\ \A i \in Inputs \ by_firmware : mappings[i] = inputs[i]
  /\ page = "setup" => /\ AreCalls
                       /\ \A c \in CallSlots : calls[c].op # "none" => calls[c] \in SetupCall

LEMMA EmptySlotsType ==
  ASSUME NEW n \in Nat, n > 0
  PROVE  /\ EmptySlots(n) \in Seq(SlotType) /\ Len(EmptySlots(n)) = n
         /\ EmptySlots(n)[1].key = 1
<1>1. ASSUME NEW i \in 1 .. n PROVE EmptySlots(n)[i] = Slot(i, "")
  BY <1>1, Zenon DEF EmptySlots
<1>2. ASSUME NEW i \in 1 .. n PROVE Slot(i, "") \in SlotType /\ Slot(i, "").key = i
  BY <1>2 DEF Slot, SlotType, SignalKeys
<1>3. EmptySlots(n) = [i \in 1 .. n |-> EmptySlots(n)[i]]
  BY Zenon DEF EmptySlots
<1>4. ASSUME NEW i \in 1 .. n
      PROVE  EmptySlots(n)[i] \in SlotType /\ EmptySlots(n)[i].key = i
  BY <1>1, <1>2, <1>4
<1> HIDE DEF EmptySlots
<1>5. EmptySlots(n) \in [1 .. n -> SlotType]
  BY <1>3, <1>4
<1>6. EmptySlots(n) \in Seq(SlotType) /\ Len(EmptySlots(n)) = n
  BY <1>5
<1> QED BY <1>4, <1>6

(* What a page opens with: the slots of the profile as they are, or three. *)
LEMMA EnsuredSlots ==
  ASSUME NEW list \in Seq(SlotType), Len(list) \in 1 .. MaxSlots
  PROVE  EnsureDashboardSignals(list) = list
<1>1. list # <<>> /\ SubSeq(list, 1, Len(list)) = list
  OBVIOUS
<1>2. (IF Len(list) < MaxSlots THEN Len(list) ELSE MaxSlots) = Len(list)
  BY SetupPageAssumption
<1> QED BY <1>1, <1>2 DEF EnsureDashboardSignals

LEMMA NewSlotType ==
  ASSUME NEW n \in Nat, NEW signal \in SignalKeys
  PROVE  Slot(n, signal) \in SlotType /\ Slot(n, signal).key = n
  BY DEF Slot, SlotType

LEMMA NoSignal == "" \in SignalKeys
  BY DEF SignalKeys

LEMMA KeyOfSlot ==
  ASSUME NEW list \in Seq(SlotType), NEW i \in 1 .. Len(list)
  PROVE  list[i].key \in SlotKeys(list)
  BY DEF SlotKeys

(* A key that some slot has, the first such slot has.                      *)
LEMMA FirstSlotExists ==
  ASSUME slots \in Seq(SlotType), NEW STATE key, key \in SlotKeys(slots)
  PROVE  FirstSlot(key) \in DOMAIN slots
<1> DEFINE R == OpToRel(<, Nat)
           T == {i \in DOMAIN slots : slots[i].key = key}
<1>1. IsWellFoundedOn(R, Nat)
  BY NatLessThanWellFounded
<1>2. T \subseteq Nat /\ T # {}
  BY DEF SlotKeys
<1>3. PICK x \in T : \A y \in T : ~ (<<y, x>> \in R)
  <2> HIDE DEF R, T
  <2> QED BY <1>1, <1>2, WFMin
<1>4. ASSUME NEW a \in Nat, NEW b \in Nat, a < b PROVE <<a, b>> \in R
  <2> DEFINE p == <<a, b>>
  <2>1. p \in Nat \X Nat /\ p[1] < p[2]
    BY <1>4
  <2> HIDE DEF p
  <2>2. p \in R
    BY <2>1 DEF OpToRel
  <2> QED BY <2>2 DEF p
<1>5. x \in DOMAIN slots /\ slots[x].key = key
  OBVIOUS
<1>6. ASSUME NEW j \in 1 .. x - 1 PROVE slots[j].key # key
  <2> HIDE DEF R
  <2>1. x \in Nat /\ j \in Nat /\ j < x /\ j \in DOMAIN slots
    BY <1>5
  <2>2. <<j, x>> \in R
    BY <1>4, <2>1
  <2> QED BY <1>3, <2>1, <2>2
<1> QED BY <1>5, <1>6 DEF FirstSlot

LEMMA OpensStored ==
  ASSUME NEW lines, NEW list \in Seq(SlotType), Len(list) \in 1 .. MaxSlots
  PROVE  /\ Opens(<<[mappings |-> lines, slots |-> list]>>).mappings = lines
         /\ Opens(<<[mappings |-> lines, slots |-> list]>>).slots = list
  BY EnsuredSlots DEF Opens, Restored

LEMMA SetupInitially == WebPagesInit => SetupInv
<1> SUFFICES ASSUME WebPagesInit PROVE SetupInv
  OBVIOUS
<1> DEFINE n == IF MaxSlots < 3 THEN MaxSlots ELSE 3
<1>1. n \in Nat /\ n > 0 /\ n <= MaxSlots
  BY SetupPageAssumption
<1>2. slots = EmptySlots(n)
  BY DEF WebPagesInit, SetupInit, Opens, Restored, EnsureDashboardSignals
<1>3. /\ selected_dash = 1 /\ override_signal = "" /\ snapshot = {} /\ options = {}
      /\ profile = <<>>
      /\ Opens(profile).mappings = mappings /\ Opens(profile).slots = slots
  BY DEF WebPagesInit, SetupInit
<1> HIDE DEF n
<1>4. slots \in Seq(SlotType) /\ Len(slots) = n /\ slots[1].key = 1
  BY <1>1, <1>2, EmptySlotsType
<1>5. selected_dash \in SlotKeys(slots)
  <2>1. 1 \in 1 .. Len(slots)
    BY <1>1, <1>4
  <2> QED BY <1>3, <1>4, <2>1, KeyOfSlot
<1>6. Len(slots) \in 1 .. MaxSlots
  BY <1>1, <1>4, SetupPageAssumption
<1>7. snapshot \subseteq SignalKeys /\ options \subseteq SignalKeys
  BY <1>3
<1> QED BY <1>3, <1>4, <1>5, <1>6, <1>7, NoSignal, Zenon DEF SetupInv

(* What stores the profile stores what the page then has, or nothing.      *)
LEMMA Persisted ==
  ASSUME SetupInv, PersistProfile, slots' \in Seq(SlotType), Len(slots') \in 1 .. MaxSlots,
         selected_dash' \in SlotKeys(slots)', UNCHANGED <<override_signal, snapshot>>,
         options' \subseteq SignalKeys
  PROVE  SetupInv'
<1>1. CASE profile_kept'
  <2>1. profile' = <<[mappings |-> mappings', slots |-> slots']>>
    BY <1>1 DEF PersistProfile
  <2>2. Opens(profile').mappings = mappings' /\ Opens(profile').slots = slots'
    BY <2>1, OpensStored
  <2> QED BY <2>1, <2>2 DEF SetupInv
<1>2. CASE ~profile_kept'
  <2>1. profile' = profile
    BY <1>2 DEF PersistProfile
  <2> QED BY <1>2, <2>1 DEF SetupInv
<1> QED BY <1>1, <1>2

LEMMA SetupStep == SetupInv /\ [WebPagesNext]_WebPagesVars => SetupInv'
<1> SUFFICES ASSUME SetupInv, [WebPagesNext]_WebPagesVars PROVE SetupInv'
  OBVIOUS
<1> USE DEF slotVars, storeVars
<1>0. /\ slots \in Seq(SlotType) /\ Len(slots) \in 1 .. MaxSlots
      /\ selected_dash \in SlotKeys(slots)
      /\ override_signal \in SignalKeys
      /\ snapshot \subseteq SignalKeys /\ options \subseteq SignalKeys
  BY DEF SetupInv
<1>1. ASSUME UNCHANGED <<profile, profile_kept, mappings, slots, selected_dash>>,
             override_signal' \in SignalKeys, snapshot' \subseteq SignalKeys,
             options' \subseteq SignalKeys
      PROVE  SetupInv'
  <2>1. Opens(profile)' = Opens(profile)
    BY <1>1 DEF Opens, Restored
  <2> QED BY <1>1, <2>1 DEF SetupInv, SlotKeys
<1>2. CASE SetupNext
  <2>1. CASE FirmwareSnapshot
    <3>1. options' \subseteq SignalKeys
      BY <2>1 DEF FirmwareSnapshot, SignalKeys
    <3> QED BY <1>0, <1>1, <2>1, <3>1 DEF FirmwareSnapshot
  <2>2. CASE OverrideSnapshot
    <3>1. snapshot' \subseteq SignalKeys
      BY <2>2 DEF OverrideSnapshot, SignalKeys
    <3>2. override_signal' \in SignalKeys
      BY <1>0, <2>2 DEF OverrideSnapshot, SignalKeys
    <3>3. options' \subseteq SignalKeys
      BY <2>2, <3>1 DEF OverrideSnapshot, RenderAll
    <3> QED BY <1>1, <2>2, <3>1, <3>2, <3>3 DEF OverrideSnapshot
  <2>3. CASE UNCHANGED <<storeVars, mappings, slots, selected_dash, override_signal,
                         snapshot, options>>
    BY <1>0, <1>1, <2>3
  <2>4. ASSUME NEW key \in options, PickSignal(key) PROVE SetupInv'
    BY <1>0, <1>1, <2>4 DEF PickSignal, lists
  <2>5. CASE SearchSignals
    BY <1>0, <1>1, <2>5 DEF SearchSignals, selections
  <2>6. CASE AssignToInput
    <3>1. UNCHANGED <<slots, selected_dash, override_signal, snapshot>>
          /\ PersistProfile /\ options' \subseteq SignalKeys
      BY <1>0, <2>6 DEF AssignToInput, Rendered, RenderAll
    <3> QED BY <1>0, <3>1, Persisted DEF SlotKeys
  <2>7. CASE AssignToDashboard
    <3>1. /\ slots' = [slots EXCEPT ![FirstSlot(selected_dash)].signal = override_signal]
          /\ UNCHANGED <<selected_dash, override_signal, snapshot>>
          /\ PersistProfile /\ options' \subseteq SignalKeys
      BY <1>0, <2>7 DEF AssignToDashboard, Rendered, RenderAll
    <3>2. FirstSlot(selected_dash) \in DOMAIN slots
      BY <1>0, FirstSlotExists
    <3> DEFINE i == FirstSlot(selected_dash)
    <3> HIDE DEF i
    <3>3. [slots[i] EXCEPT !.signal = override_signal] \in SlotType
          /\ [slots[i] EXCEPT !.signal = override_signal].key = slots[i].key
      <4>1. slots[i] \in SlotType
        BY <1>0, <3>2 DEF i
      <4> QED BY <1>0, <4>1 DEF SlotType
    <3>4. /\ slots' \in [1 .. Len(slots) -> SlotType]
          /\ \A j \in 1 .. Len(slots) : slots'[j].key = slots[j].key
      BY <1>0, <3>1, <3>2, <3>3 DEF i
    <3>5. slots' \in Seq(SlotType) /\ Len(slots') = Len(slots)
      BY <1>0, <3>4
    <3>6. selected_dash' \in SlotKeys(slots)'
      BY <1>0, <3>1, <3>4, <3>5 DEF SlotKeys
    <3> QED BY <1>0, <3>1, <3>5, <3>6, Persisted
  <2>8. CASE AddDashboardSlot
    <3>1. /\ slots' = Append(slots, Slot(Len(slots) + 1, "")) /\ Len(slots) < MaxSlots
          /\ selected_dash' = Len(slots) + 1
          /\ UNCHANGED <<override_signal, snapshot>>
          /\ PersistProfile /\ options' \subseteq SignalKeys
      BY <1>0, <2>8 DEF AddDashboardSlot, Rendered, RenderAll
    <3> DEFINE new == Slot(Len(slots) + 1, "")
    <3>2. new \in SlotType /\ new.key = Len(slots) + 1
      <4>1. Len(slots) + 1 \in Nat
        BY <1>0
      <4> QED BY <4>1, NewSlotType, NoSignal, Zenon
    <3> HIDE DEF new
    <3>3. /\ slots' \in Seq(SlotType) /\ Len(slots') = Len(slots) + 1
          /\ slots'[Len(slots) + 1] = new
      <4>1. slots' = Append(slots, new)
        BY <3>1 DEF new
      <4> QED BY <1>0, <3>2, <4>1
    <3>4. selected_dash' \in SlotKeys(slots)'
      <4>1. Len(slots) + 1 \in 1 .. Len(slots')
        BY <1>0, <3>3
      <4>2. slots'[Len(slots) + 1].key \in SlotKeys(slots')
        BY <3>3, <4>1, KeyOfSlot
      <4> QED BY <3>1, <3>2, <3>3, <4>2
    <3>5. Len(slots') \in 1 .. MaxSlots
      <4>1. Len(slots) < MaxSlots
        BY <3>1, Zenon
      <4>2. Len(slots) \in Nat /\ Len(slots') = Len(slots) + 1
        BY <1>0, <3>3
      <4> QED BY <4>1, <4>2, SetupPageAssumption
    <3> QED BY <3>1, <3>3, <3>4, <3>5, Persisted
  <2>9. CASE RemoveDashboardSlot
    <3> DEFINE i == IF selected_dash \in SlotKeys(slots) THEN FirstSlot(selected_dash)
                    ELSE Len(slots)
    <3>1. /\ slots' = [j \in 1 .. Len(slots) - 1 |->
                         IF j < i THEN slots[j] ELSE slots[j + 1]]
          /\ selected_dash' = slots'[IF i = 1 THEN 1 ELSE i - 1].key
          /\ Len(slots) > 1 /\ UNCHANGED <<override_signal, snapshot>>
          /\ PersistProfile /\ options' \subseteq SignalKeys
      BY <1>0, <2>9 DEF RemoveDashboardSlot, Rendered, RenderAll
    <3>2. i \in 1 .. Len(slots)
      BY <1>0, FirstSlotExists
    <3> HIDE DEF i
    <3>3. slots' \in [1 .. Len(slots) - 1 -> SlotType]
      BY <1>0, <3>1, <3>2
    <3>4. slots' \in Seq(SlotType) /\ Len(slots') = Len(slots) - 1
      BY <1>0, <3>1, <3>3
    <3>5. (IF i = 1 THEN 1 ELSE i - 1) \in DOMAIN slots'
      BY <1>0, <3>1, <3>2, <3>4
    <3>6. selected_dash' \in SlotKeys(slots)'
      BY <3>1, <3>5 DEF SlotKeys
    <3>7. Len(slots') \in 1 .. MaxSlots
      BY <1>0, <3>1, <3>4, SetupPageAssumption
    <3> QED BY <3>1, <3>4, <3>6, <3>7, Persisted
  <2>10. ASSUME NEW key \in SlotKeys(slots), SelectSlot(key) PROVE SetupInv'
    <3>1. Opens(profile)' = Opens(profile)
      BY <2>10 DEF SelectSlot, Opens, Restored
    <3> QED BY <1>0, <2>10, <3>1 DEF SelectSlot, SetupInv, SlotKeys, selections, lists
  <2>11. CASE /\ UNCHANGED <<slots, selected_dash, override_signal, snapshot, options>>
              /\ PersistProfile
    BY <1>0, <2>11, Persisted DEF SlotKeys
  <2>12. CASE Reopen
    <3>1. /\ override_signal' = "" /\ snapshot' = {} /\ options' = {}
          /\ mappings' = Opens(profile).mappings /\ slots' = Opens(profile).slots
          /\ selected_dash' = slots'[1].key /\ profile' = profile
      BY <2>12 DEF Reopen
    <3>0. Opens(profile)' = Opens(profile)
      BY <3>1 DEF Opens, Restored
    <3>2. CASE profile = <<>>
      <4> DEFINE n == IF MaxSlots < 3 THEN MaxSlots ELSE 3
      <4>1. n \in Nat /\ n > 0 /\ n <= MaxSlots
        BY SetupPageAssumption
      <4>2. slots' = EmptySlots(n)
        BY <3>1, <3>2 DEF Opens, Restored, EnsureDashboardSignals
      <4> HIDE DEF n
      <4>3. slots' \in Seq(SlotType) /\ Len(slots') = n
        BY <4>1, <4>2, EmptySlotsType
      <4>4. selected_dash' \in SlotKeys(slots)'
        <5>1. 1 \in 1 .. Len(slots')
          BY <4>1, <4>3
        <5> QED BY <3>1, <4>3, <5>1, KeyOfSlot
      <4>5. Len(slots') \in 1 .. MaxSlots
        BY <4>1, <4>3, SetupPageAssumption
      <4>6. /\ override_signal' \in SignalKeys /\ snapshot' \subseteq SignalKeys
            /\ options' \subseteq SignalKeys
        BY <3>1, NoSignal
      <4> QED BY <3>0, <3>1, <3>2, <4>3, <4>4, <4>5, <4>6, Zenon DEF SetupInv
    <3>3. CASE profile # <<>>
      <4>1. PICK lines : \E list \in Seq(SlotType) :
              Len(list) \in 1 .. MaxSlots /\ profile = <<[mappings |-> lines, slots |-> list]>>
        BY <3>3 DEF SetupInv
      <4>2. PICK list \in Seq(SlotType) :
              Len(list) \in 1 .. MaxSlots /\ profile = <<[mappings |-> lines, slots |-> list]>>
        BY <4>1
      <4>3. slots' = list
        BY <3>1, <4>2, OpensStored
      <4>4. selected_dash' \in SlotKeys(slots)'
        <5>1. 1 \in 1 .. Len(list)
          BY <4>2
        <5> QED BY <3>1, <4>2, <4>3, <5>1, KeyOfSlot
      <4>5. /\ override_signal' \in SignalKeys /\ snapshot' \subseteq SignalKeys
            /\ options' \subseteq SignalKeys
        BY <3>1, NoSignal
      <4>6. profile' = <<>> \/ \E other : \E some \in Seq(SlotType) :
              /\ Len(some) \in 1 .. MaxSlots
              /\ profile' = <<[mappings |-> other, slots |-> some]>>
        BY <3>1, <4>2
      <4> QED BY <3>0, <3>1, <4>2, <4>3, <4>4, <4>5, <4>6 DEF SetupInv
    <3> QED BY <3>2, <3>3
  <2> QED BY <1>2, <2>1, <2>2, <2>3, <2>4, <2>5, <2>6, <2>7, <2>8, <2>9, <2>10, <2>11,
             <2>12
          DEF SetupNext, SetupAnswers, FinishSetupLoad, FinishSetupSave, SetupCallFails,
              SetSignal, AssignSelectedSignal, SaveRuntimeSettings, SelectInput, TypeInput,
              ChooseGeneration, SaveMapping, setupVars, selections, lists
<1>3. CASE UNCHANGED setupVars
  BY <1>0, <1>1, <1>3 DEF setupVars, selections, lists
<1> QED BY <1>2, <1>3 DEF WebPagesNext, WebPagesVars

(* "Assign" and "Remove" always have a slot to act on, whatever slots were *)
(* added and removed before (openhaldex-firmware-overrides.js).            *)
THEOREM SlotIsSelected == WebPagesSpec => []SelectedSlotExists
<1>1. SetupInv => SelectedSlotExists
  BY DEF SetupInv, SelectedSlotExists
<1> QED BY <1>1, SetupInitially, SetupStep, PTL DEF WebPagesSpec

LEMMA InputsInitially == WebPagesInit => InputsInv
<1> SUFFICES ASSUME WebPagesInit PROVE InputsInv
  OBVIOUS
<1>1. /\ inputs = [i \in Inputs |-> ""] /\ mappings = inputs /\ device_mappings = inputs
      /\ selected_input = "speed" /\ firmware_signal = "" /\ behavior_signal = ""
      /\ profile = <<>>
  BY DEF WebPagesInit, SetupInit, Opens, Restored
<1>2. inputs \in Mapping
  BY <1>1, NoSignal DEF Mapping
<1>3. ASSUME page = "setup"
      PROVE  AreCalls /\ \A c \in CallSlots : calls[c].op # "none" => calls[c] \in SetupCall
  <2> DEFINE first == <<Sent("load", inputs)>>
  <2>1. calls = [c \in CallSlots |-> IF c \in DOMAIN first THEN first[c] ELSE NoCall]
    BY <1>3 DEF WebPagesInit, SetupInit, CallsInit
  <2>2. \A c \in DOMAIN first : first[c] = Sent("load", inputs)
    OBVIOUS
  <2>3. Sent("load", inputs) \in SetupCall
    BY <1>2 DEF Sent, SetupCall
  <2> HIDE DEF first
  <2> QED BY <2>1, <2>2, <2>3 DEF AreCalls, NoCall
<1> QED BY <1>1, <1>2, <1>3, NoSignal, SetupPageAssumption DEF InputsInv

LEMMA InputsStep == SetupInv /\ InputsInv /\ [WebPagesNext]_WebPagesVars => InputsInv'
<1> SUFFICES ASSUME SetupInv, InputsInv, [WebPagesNext]_WebPagesVars PROVE InputsInv'
  OBVIOUS
<1> DEFINE Lines == <<inputVars, mappings, device_mappings, profile>>
           Marks == <<selected_input, firmware_signal, behavior_signal>>
           Calls == page = "setup" => /\ AreCalls
                                      /\ \A c \in CallSlots :
                                           calls[c].op # "none" => calls[c] \in SetupCall
<1> USE DEF inputVars, storeVars
<1>0. /\ inputs \in Mapping /\ mappings \in Mapping /\ device_mappings \in Mapping
      /\ selected_input \in Inputs
      /\ firmware_signal \in SignalKeys /\ behavior_signal \in SignalKeys
      /\ override_signal \in SignalKeys
      /\ options \subseteq SignalKeys /\ snapshot \subseteq SignalKeys
      /\ Calls /\ page' = page
  BY DEF SetupInv, InputsInv, WebPagesNext, WebPagesVars, pageVars
<1>1. ASSUME UNCHANGED Lines, selected_input' \in Inputs, firmware_signal' \in SignalKeys,
             behavior_signal' \in SignalKeys, Calls'
      PROVE  InputsInv'
  BY <1>1 DEF InputsInv
<1>2. ASSUME UNCHANGED calls PROVE Calls'
  BY <1>0, <1>2 DEF AreCalls
<1>3. ASSUME NEW c \in CallSlots, NEW STATE call, Put(c, call),
             call.op = "none" \/ call \in SetupCall, page = "setup"
      PROVE  Calls'
  BY <1>0, <1>3, PutOne
<1> HIDE DEF Calls
(* What stores the profile stores mappings.                                *)
<1>4. ASSUME PersistProfile, UNCHANGED device_mappings, mappings' \in Mapping,
             inputs' \in Mapping, \A i \in Inputs \ by_firmware' : mappings'[i] = inputs'[i],
             selected_input' \in Inputs, firmware_signal' \in SignalKeys,
             behavior_signal' \in SignalKeys, Calls'
      PROVE  InputsInv'
  <2>1. profile' # <<>> => profile'[1].mappings \in Mapping
    BY <1>4 DEF PersistProfile, InputsInv
  <2> QED BY <1>0, <1>4, <2>1 DEF InputsInv, Calls
<1>5. CASE page = "setup" /\ SetupNext
  <2>1. CASE FirmwareSnapshot \/ OverrideSnapshot \/ SearchSignals
             \/ \E key \in SlotKeys(slots) : SelectSlot(key)
    <3>1. UNCHANGED <<Lines, selected_input, firmware_signal, calls>>
          /\ behavior_signal' \in {behavior_signal, override_signal'}
      BY <2>1 DEF FirmwareSnapshot, OverrideSnapshot, SearchSignals, SelectSlot, RenderAll,
                  selections
    <3>2. override_signal' \in SignalKeys
      BY <1>0, <2>1, NoSignal
         DEF FirmwareSnapshot, OverrideSnapshot, SearchSignals, SelectSlot, selections
    <3> QED BY <1>0, <1>1, <1>2, <3>1, <3>2
  <2>2. ASSUME NEW key \in SignalKeys, PickSignal(key) \/ SetSignal(key) PROVE InputsInv'
    <3>1. UNCHANGED <<Lines, selected_input, calls>>
          /\ firmware_signal' = key /\ behavior_signal' = key
      BY <2>2 DEF PickSignal, SetSignal
    <3> QED BY <1>0, <1>1, <1>2, <3>1
  <2>3. ASSUME NEW input \in Inputs, SelectInput(input) PROVE InputsInv'
    <3>1. UNCHANGED <<Lines, firmware_signal, behavior_signal, calls>>
          /\ selected_input' = input
      BY <2>3 DEF SelectInput, selections
    <3> QED BY <1>0, <1>1, <1>2, <3>1
  <2>4. ASSUME NEW input \in Inputs, AssignSelectedSignal(input) PROVE InputsInv'
    <3>1. /\ inputs' = [inputs EXCEPT ![input] = firmware_signal]
          /\ by_firmware' = by_firmware \cup {input}
          /\ UNCHANGED <<mappings, device_mappings, profile, Marks, calls>>
      BY <2>4 DEF AssignSelectedSignal, selections
    <3>2. inputs' \in Mapping /\ \A i \in Inputs : i # input => inputs'[i] = inputs[i]
      BY <1>0, <3>1 DEF Mapping
    <3> QED BY <1>0, <1>2, <3>1, <3>2 DEF InputsInv, Calls
  <2>5. ASSUME NEW input \in Inputs, NEW key \in TypedKeys, TypeInput(input, key)
        PROVE  InputsInv'
    <3>1. /\ inputs' = [inputs EXCEPT ![input] = key] /\ mappings' = inputs'
          /\ PersistProfile /\ UNCHANGED <<device_mappings, Marks, calls>>
      BY <2>5 DEF TypeInput, selections
    <3>2. inputs' \in Mapping
      BY <1>0, <3>1 DEF Mapping, SignalKeys
    <3> QED BY <1>0, <1>2, <1>4, <3>1, <3>2
  <2>6. CASE AssignToInput
    <3>1. /\ mappings' = [mappings EXCEPT ![selected_input] = override_signal]
          /\ inputs' = mappings' /\ PersistProfile
          /\ UNCHANGED <<device_mappings, selected_input, firmware_signal, calls>>
          /\ behavior_signal' = override_signal
      BY <2>6 DEF AssignToInput, Rendered, RenderAll
    <3>2. mappings' \in Mapping
      BY <1>0, <3>1 DEF Mapping
    <3> QED BY <1>0, <1>2, <1>4, <3>1, <3>2
  <2>7. CASE AssignToDashboard \/ AddDashboardSlot \/ RemoveDashboardSlot
    <3>1. /\ PersistProfile
          /\ UNCHANGED <<inputs, mappings, by_firmware, device_mappings, selected_input,
                         firmware_signal, calls>>
          /\ behavior_signal' = override_signal
      BY <2>7 DEF AssignToDashboard, AddDashboardSlot, RemoveDashboardSlot, Rendered,
                  RenderAll
    <3>2. \A i \in Inputs \ by_firmware' : mappings'[i] = inputs'[i]
      BY <3>1 DEF InputsInv
    <3> QED BY <1>0, <1>2, <1>4, <3>1, <3>2
  <2>8. CASE ChooseGeneration \/ SaveMapping
    <3>1. /\ PersistProfile
          /\ UNCHANGED <<inputs, mappings, by_firmware, device_mappings, Marks>>
          /\ UNCHANGED calls \/ Start(Sent("save", inputs))
      BY <2>8 DEF ChooseGeneration, SaveMapping, selections, slotVars
    <3>2. \A i \in Inputs \ by_firmware' : mappings'[i] = inputs'[i]
      BY <3>1 DEF InputsInv
    <3>3. Sent("save", inputs) \in SetupCall
      BY <1>0 DEF Sent, SetupCall
    <3>4. Calls'
      BY <1>2, <1>3, <1>5, <3>1, <3>3 DEF Start
    <3> QED BY <1>0, <1>4, <3>1, <3>2, <3>4
  <2>9. CASE SaveRuntimeSettings
    <3>1. Start(Sent("save", inputs)) /\ UNCHANGED <<Lines, Marks>>
      BY <2>9 DEF SaveRuntimeSettings, setupVars, selections
    <3>2. Sent("save", inputs) \in SetupCall
      BY <1>0 DEF Sent, SetupCall
    <3>3. Calls'
      BY <1>3, <1>5, <3>1, <3>2 DEF Start
    <3> QED BY <1>0, <1>1, <3>1, <3>3
  <2>10. CASE Reopen
    <3>1. /\ mappings' = Opens(profile).mappings /\ inputs' = mappings'
          /\ selected_input' = "speed" /\ firmware_signal' = "" /\ behavior_signal' = ""
          /\ UNCHANGED <<device_mappings, profile>>
          /\ calls' = [c \in CallSlots |-> IF c = 1 THEN Sent("load", inputs) ELSE NoCall]
      BY <2>10 DEF Reopen
    <3>2. mappings' \in Mapping
      <4>1. CASE profile = <<>>
        BY <3>1, <4>1, NoSignal DEF Opens, Restored, Mapping
      <4>2. CASE profile # <<>>
        BY <3>1, <4>2 DEF Opens, Restored, InputsInv
      <4> QED BY <4>1, <4>2
    <3>3. Sent("load", inputs) \in SetupCall
      BY <1>0 DEF Sent, SetupCall
    <3>4. Calls'
      BY <3>1, <3>3 DEF Calls, AreCalls, NoCall
    <3> QED BY <1>0, <3>1, <3>2, <3>4, NoSignal, SetupPageAssumption DEF InputsInv, Calls
  <2>11. ASSUME NEW c \in CallSlots,
                SetupAnswers(c) \/ FinishSetupLoad(c) \/ FinishSetupSave(c) \/ SetupCallFails(c)
         PROVE  InputsInv'
    <3>1. CASE SetupAnswers(c)
      <4>1. /\ calls[c].op \in {"load", "save"}
            /\ device_mappings' \in {device_mappings, calls[c].body}
            /\ Put(c, Done(c, device_mappings'))
            /\ UNCHANGED <<inputs, mappings, by_firmware, profile, Marks>>
        BY <3>1 DEF SetupAnswers, IsSent, selections
      <4>2. calls[c] \in SetupCall
        BY <1>0, <1>5, <4>1 DEF Calls
      <4>3. device_mappings' \in Mapping
        BY <1>0, <4>1, <4>2 DEF SetupCall
      <4>4. Done(c, device_mappings') \in SetupCall
        BY <4>2, <4>3 DEF SetupCall, Done
      <4>5. Calls'
        <5> DEFINE call == Done(c, device_mappings')
        <5>1. call \in SetupCall /\ calls' = [calls EXCEPT ![c] = call]
          BY <4>1, <4>4 DEF Put
        <5> HIDE DEF call
        <5> QED BY <1>0, <1>5, <5>1 DEF Calls, AreCalls
      <4> QED BY <1>0, <4>1, <4>3, <4>5 DEF InputsInv, Calls
    <3>2. CASE FinishSetupLoad(c)
      <4>1. /\ IsDone(c, "load") /\ Put(c, NoCall)
            /\ inputs' = calls[c].body /\ by_firmware' = Inputs
            /\ firmware_signal' \in {firmware_signal, behavior_signal}
            /\ UNCHANGED <<mappings, device_mappings, profile, selected_input,
                           behavior_signal>>
        BY <3>2 DEF FinishSetupLoad, Ends
      <4>2. calls[c] \in SetupCall
        BY <1>0, <1>5, <4>1 DEF Calls, IsDone
      <4>3. inputs' \in Mapping
        BY <4>1, <4>2 DEF SetupCall
      <4>4. Calls'
        BY <1>3, <1>5, <4>1 DEF NoCall
      <4> QED BY <1>0, <4>1, <4>3, <4>4 DEF InputsInv, Calls
    <3>3. CASE FinishSetupSave(c)
      <4>1. Put(c, Sent("load", inputs)) /\ UNCHANGED <<Lines, Marks>>
        BY <3>3 DEF FinishSetupSave, setupVars, selections
      <4>2. Sent("load", inputs) \in SetupCall
        BY <1>0 DEF Sent, SetupCall
      <4> QED BY <1>0, <1>1, <1>3, <1>5, <4>1, <4>2
    <3>4. CASE SetupCallFails(c)
      <4>1. Put(c, NoCall) /\ UNCHANGED <<Lines, Marks>>
        BY <3>4 DEF SetupCallFails, Fails, Ends, setupVars, selections
      <4>2. Calls'
        BY <1>3, <1>5, <4>1 DEF NoCall
      <4> QED BY <1>0, <1>1, <4>1, <4>2
    <3> QED BY <2>11, <3>1, <3>2, <3>3, <3>4
  <2>12. /\ \A key \in options : key \in SignalKeys
         /\ \A key \in TypedKeys \cup {firmware_signal} : key \in SignalKeys
    BY <1>0 DEF SignalKeys
  <2> QED BY <1>5, <2>1, <2>2, <2>3, <2>4, <2>5, <2>6, <2>7, <2>8, <2>9, <2>10, <2>11,
             <2>12 DEF SetupNext
<1>6. CASE UNCHANGED setupVars /\ (UNCHANGED calls \/ page # "setup")
  <2>1. UNCHANGED <<Lines, Marks>>
    BY <1>6 DEF setupVars, selections
  <2>2. Calls'
    BY <1>0, <1>2, <1>6 DEF Calls
  <2> QED BY <1>0, <1>1, <2>1, <2>2
<1> QED BY <1>5, <1>6 DEF WebPagesNext, WebPagesVars, pageVars

(* As long as the browser takes the profile, it opens as the page that     *)
(* stored it (persistProfile, readSetupProfile, ensureDashboardSignals),   *)
(* and the inputs that the first script has not written since come back.   *)
THEOREM ProfileIsPage == WebPagesSpec => []ProfileKeepsPage
<1>1. SetupInv /\ InputsInv => ProfileKeepsPage
  BY DEF SetupInv, InputsInv, ProfileKeepsPage
<1> QED BY <1>1, SetupInitially, SetupStep, InputsInitially, InputsStep, PTL
        DEF WebPagesSpec

-----------------------------------------------------------------------------
(* The map page.  Whatever is read, imported or typed, the map on the page *)
(* has its size and its bounds; what is saved under a name is what the     *)
(* first post has made the device's map, unless that has been replaced.    *)
Names == MapNames \cup {""}
SaveType == [map : EditorMap, name : MapNames, replaced : BOOLEAN]
IsDevices(body) == ~body.replaced => device_map = body.map
MapCall(c) ==
  \/ calls[c] = NoCall
  \/ calls[c] \in [op : {"read"}, at : {"sent"}, body : [path : Names]]
  \/ calls[c] \in [op : {"read"}, at : {"done"}, body : [path : Names, map : RawMap]]
  \/ calls[c] \in [op : {"list"}, at : {"sent"}, body : [path : Names]]
  \/ calls[c] \in [op : {"list"}, at : {"done"},
                   body : [path : Names, listed : SUBSET MapNames]]
  \/ calls[c] \in [op : {"write", "import"}, at : {"sent", "done"}, body : [map : EditorMap]]
  \/ calls[c] \in [op : {"open", "delete"}, at : {"sent", "done"}, body : [path : MapNames]]
  \/ calls[c] \in [op : {"first"}, at : {"sent"}, body : SaveType]
  \/ /\ calls[c] \in [op : {"first"}, at : {"done"}, body : SaveType]
     /\ IsDevices(calls[c].body)
  \/ /\ calls[c] \in [op : {"second"}, at : {"sent", "done"}, body : SaveType]
     /\ IsDevices(calls[c].body)
DeviceInv ==
  /\ device_map \in RawMap
  /\ map_files \in [MapNames -> {<<>>} \cup {<<m>> : m \in RawMap}]
PageInv ==
  /\ map \in EditorMap /\ selected_col \in 0 .. MapCols /\ selected_file \in Names
MapInv ==
  /\ PageInv
  /\ page = "map" => AreCalls /\ DeviceInv /\ \A c \in CallSlots : MapCall(c)

LEMMA BoundedCell ==
  ASSUME NEW n \in Cells, NEW limit \in Nat, NEW default \in 0 .. limit
  PROVE  Bounded(n, default, limit) \in 0 .. limit
  BY DEF Bounded, Cells, NaN

LEMMA MapSize == MapRows \in Nat \ {0} /\ MapCols \in Nat \ {0}
  BY MapEditorAssumption DEF MapRows, MapCols

LEMMA NormalizedMap ==
  ASSUME NEW speed \in Seq(Cells), NEW throttle \in Seq(Cells), NEW lock \in Seq(Seq(Cells))
  PROVE  NormalizeMap(speed, throttle, lock) \in EditorMap
<1>1. ASSUME NEW bins \in Seq(Cells), NEW limit \in Nat, NEW default \in Seq(0 .. limit)
      PROVE  NormalizeBins(bins, default, limit) \in [1 .. Len(default) -> 0 .. limit]
  <2> SUFFICES ASSUME NEW i \in 1 .. Len(default)
               PROVE  Bounded(At(bins, i, default[i]), default[i], limit) \in 0 .. limit
    BY DEF NormalizeBins
  <2>1. default[i] \in 0 .. limit /\ 0 .. limit \subseteq Cells
    BY DEF Cells
  <2>2. At(bins, i, default[i]) \in Cells
    BY <2>1 DEF At
  <2> QED BY <2>1, <2>2, BoundedCell
<1>2. NormalizeLockTable(lock) \in [1 .. MapRows -> [1 .. MapCols -> 0 .. CellMax]]
  <2> SUFFICES ASSUME NEW r \in 1 .. MapRows, NEW c \in 1 .. MapCols
               PROVE  Bounded(At(At(lock, r, <<>>), c, 0), 0, CellMax) \in 0 .. CellMax
    BY DEF NormalizeLockTable
  <2>1. At(lock, r, <<>>) \in Seq(Cells)
    BY DEF At
  <2>2. At(At(lock, r, <<>>), c, 0) \in Cells
    BY <2>1 DEF At, Cells
  <2> QED BY <2>2, BoundedCell, MapEditorAssumption
<1>3. NormalizeBins(speed, DefaultSpeed, SpeedMax) \in [1 .. MapCols -> 0 .. SpeedMax]
  BY <1>1, MapEditorAssumption DEF MapCols
<1>4. NormalizeBins(throttle, DefaultThrottle, ThrottleMax)
        \in [1 .. MapRows -> 0 .. ThrottleMax]
  BY <1>1, MapEditorAssumption DEF MapRows
<1> QED BY <1>2, <1>3, <1>4 DEF NormalizeMap, EditorMap

LEMMA DefaultMapType == DefaultMap \in EditorMap
  BY MapEditorAssumption DEF DefaultMap, EditorMap, MapRows, MapCols

LEMMA EditorMapIsRaw == EditorMap \subseteq RawMap
<1> SUFFICES ASSUME NEW m \in EditorMap PROVE m \in RawMap
  OBVIOUS
<1>1. ASSUME NEW limit \in Nat, NEW n \in Nat, NEW list \in [1 .. n -> 0 .. limit]
      PROVE  list \in Seq(Cells)
  BY DEF Cells
<1>2. m.speed \in Seq(Cells) /\ m.throttle \in Seq(Cells)
  BY <1>1, MapSize, MapEditorAssumption DEF EditorMap
<1>3. m.lock \in Seq(Seq(Cells))
  <2>1. \A r \in 1 .. MapRows : m.lock[r] \in Seq(Cells)
    BY <1>1, MapSize, MapEditorAssumption DEF EditorMap
  <2> QED BY <2>1, MapSize DEF EditorMap
<1> QED BY <1>2, <1>3 DEF RawMap, EditorMap

(* An imported text becomes a map of the page.                             *)
LEMMA ImportedMap ==
  ASSUME NEW text \in MapTexts, Readable(text)
  PROVE  FromTxt(text) \in EditorMap
<1>1. /\ text \in Seq(Seq(Cells)) /\ Len(text) \in Nat /\ Len(text) >= 2
      /\ \A i \in 1 .. Len(text) : text[i] \in Seq(Cells) /\ text[i] # <<>>
  BY DEF MapTexts, Readable
<1>2. ASSUME NEW line \in Seq(Cells) PROVE Tail2(line) \in Seq(Cells)
  BY DEF Tail2
<1>3. Tail2(text[1]) \in Seq(Cells)
  BY <1>1, <1>2
<1>4. ASSUME NEW r \in 1 .. Len(text) - 1
      PROVE  /\ text[r + 1][1] \in Cells /\ At(text[r + 1], 2, NaN) \in Cells
             /\ Tail2(text[r + 1]) \in Seq(Cells)
  <2>1. r + 1 \in 1 .. Len(text)
    BY <1>1
  <2>2. ASSUME NEW line \in Seq(Cells), line # <<>>
        PROVE  /\ line[1] \in Cells /\ At(line, 2, NaN) \in Cells
               /\ Tail2(line) \in Seq(Cells)
    <3>1. line[1] \in Cells
      BY <2>2
    <3>2. At(line, 2, NaN) \in Cells
      BY DEF At, Cells
    <3> QED BY <1>2, <3>1, <3>2
  <2> QED BY <1>1, <2>1, <2>2
<1>5. [r \in 1 .. Len(text) - 1 |->
         IF text[r + 1][1] \in {0, NaN} THEN At(text[r + 1], 2, NaN) ELSE text[r + 1][1]]
        \in Seq(Cells)
  BY <1>1, <1>4
<1>6. [r \in 1 .. Len(text) - 1 |-> Tail2(text[r + 1])] \in Seq(Seq(Cells))
  BY <1>1, <1>4
<1> QED BY <1>3, <1>5, <1>6, NormalizedMap DEF FromTxt

(* What is exported is a text, and importing it gives the map back.        *)
LEMMA MapComesBack ==
  ASSUME NEW m \in EditorMap
  PROVE  ToTxt(m) \in MapTexts /\ Readable(ToTxt(m)) /\ FromTxt(ToTxt(m)) = m
<1> DEFINE text == ToTxt(m)
           Line(r) == <<m.throttle[r], m.throttle[r]>> \o m.lock[r]
           head == <<NaN, NaN>> \o m.speed
<1>1. /\ m.speed \in [1 .. MapCols -> 0 .. SpeedMax]
      /\ m.throttle \in [1 .. MapRows -> 0 .. ThrottleMax]
      /\ m.lock \in [1 .. MapRows -> [1 .. MapCols -> 0 .. CellMax]]
      /\ m = [speed |-> m.speed, throttle |-> m.throttle, lock |-> m.lock]
  BY DEF EditorMap
<1>2. ASSUME NEW a \in Cells, NEW limit \in Nat, NEW list \in [1 .. MapCols -> 0 .. limit]
      PROVE  /\ <<a, a>> \o list \in Seq(Cells) \ {<<>>}
             /\ Len(<<a, a>> \o list) = MapCols + 2
             /\ (<<a, a>> \o list)[1] = a /\ (<<a, a>> \o list)[2] = a
             /\ Tail2(<<a, a>> \o list) = list
  <2>1. list \in Seq(Cells) /\ Len(list) = MapCols /\ MapCols \in Nat \ {0}
    BY MapSize DEF Cells
  <2>2. <<a, a>> \o list \in Seq(Cells) /\ Len(<<a, a>> \o list) = MapCols + 2
    BY <2>1
  <2>3. (<<a, a>> \o list)[1] = a /\ (<<a, a>> \o list)[2] = a
    BY <2>1
  <2>4. /\ Tail2(<<a, a>> \o list) \in Seq(Cells)
        /\ Len(Tail2(<<a, a>> \o list)) = MapCols
        /\ \A i \in 1 .. MapCols : Tail2(<<a, a>> \o list)[i] = list[i]
    BY <2>1, <2>2 DEF Tail2
  <2>5. Tail2(<<a, a>> \o list) = list
    BY <2>1, <2>4, SeqEqual
  <2> QED BY <2>1, <2>2, <2>3, <2>5
<1>3. /\ head \in Seq(Cells) \ {<<>>} /\ Len(head) = MapCols + 2 /\ Tail2(head) = m.speed
  BY <1>1, <1>2, MapEditorAssumption DEF Cells
<1>4. ASSUME NEW r \in 1 .. MapRows
      PROVE  /\ Line(r) \in Seq(Cells) \ {<<>>} /\ Len(Line(r)) = MapCols + 2
             /\ Line(r)[1] = m.throttle[r] /\ Line(r)[2] = m.throttle[r]
             /\ Tail2(Line(r)) = m.lock[r]
  <2> DEFINE a == m.throttle[r]  cells == m.lock[r]
  <2>1. a \in 0 .. ThrottleMax /\ cells \in [1 .. MapCols -> 0 .. CellMax]
    BY <1>1
  <2>2. Line(r) = <<a, a>> \o cells
    BY DEF Line
  <2> HIDE DEF a, cells
  <2>3. a \in Cells
    BY <2>1, MapEditorAssumption DEF Cells
  <2>4. /\ <<a, a>> \o cells \in Seq(Cells) \ {<<>>}
        /\ Len(<<a, a>> \o cells) = MapCols + 2
        /\ (<<a, a>> \o cells)[1] = a /\ (<<a, a>> \o cells)[2] = a
        /\ Tail2(<<a, a>> \o cells) = cells
    BY <1>2, <2>1, <2>3, MapEditorAssumption
  <2> QED BY <2>2, <2>4 DEF a, cells
<1> HIDE DEF head, Line
<1>5. /\ text \in MapTexts /\ Len(text) = MapRows + 1 /\ text[1] = head
      /\ \A r \in 1 .. MapRows : text[r + 1] = Line(r)
  <2> DEFINE body == [r \in 1 .. MapRows |-> Line(r)]
  <2>1. text = <<head>> \o body
    BY DEF ToTxt, head, Line
  <2>2. body \in MapTexts /\ Len(body) = MapRows
    <3>1. body \in [1 .. MapRows -> Seq(Cells) \ {<<>>}]
      BY <1>4
    <3> HIDE DEF body
    <3> QED BY <3>1, MapSize DEF MapTexts
  <2>4. <<head>> \in MapTexts
    BY <1>3 DEF MapTexts
  <2>3. \A r \in 1 .. MapRows : body[r] = Line(r)
    OBVIOUS
  <2> HIDE DEF body, text
  <2>5. text \in MapTexts /\ Len(text) = MapRows + 1
    BY <2>1, <2>2, <2>4, MapSize DEF MapTexts
  <2>6. text[1] = head /\ \A r \in 1 .. MapRows : text[r + 1] = body[r]
    BY <2>1, <2>2, <2>4, MapSize DEF MapTexts
  <2> QED BY <2>3, <2>5, <2>6
<1> HIDE DEF text
<1>6. Readable(text)
  BY <1>3, <1>5, MapSize DEF Readable
<1>7. ASSUME NEW limit \in Nat, NEW default \in Seq(0 .. limit),
             NEW list \in [1 .. Len(default) -> 0 .. limit]
      PROVE  NormalizeBins(list, default, limit) = list
  <2>1. ASSUME NEW i \in 1 .. Len(default)
        PROVE  Bounded(At(list, i, default[i]), default[i], limit) = list[i]
    BY DEF Bounded, At, NaN
  <2> QED BY <2>1 DEF NormalizeBins
<1>8. NormalizeLockTable(m.lock) = m.lock
  <2>1. ASSUME NEW r \in 1 .. MapRows, NEW c \in 1 .. MapCols
        PROVE  Bounded(At(At(m.lock, r, <<>>), c, 0), 0, CellMax) = m.lock[r][c]
    <3>1. m.lock[r][c] \in 0 .. CellMax /\ At(At(m.lock, r, <<>>), c, 0) = m.lock[r][c]
      BY <1>1 DEF At
    <3> QED BY <3>1, MapEditorAssumption DEF Bounded, NaN
  <2> QED BY <1>1, <2>1 DEF NormalizeLockTable
<1>9. [r \in 1 .. Len(text) - 1 |->
         IF text[r + 1][1] \in {0, NaN} THEN At(text[r + 1], 2, NaN) ELSE text[r + 1][1]]
        = m.throttle
  <2>1. Len(text) - 1 = MapRows
    BY <1>5, MapSize
  <2>2. ASSUME NEW r \in 1 .. MapRows
        PROVE  /\ text[r + 1][1] = m.throttle[r]
               /\ At(text[r + 1], 2, NaN) = m.throttle[r]
    <3>1. text[r + 1] = Line(r) /\ 2 \in DOMAIN Line(r)
      BY <1>4, <1>5, MapSize
    <3> QED BY <1>4, <3>1 DEF At
  <2> QED BY <1>1, <2>1, <2>2
<1>10. [r \in 1 .. Len(text) - 1 |-> Tail2(text[r + 1])] = m.lock
  <2>1. Len(text) - 1 = MapRows
    BY <1>5, MapSize
  <2>2. \A r \in 1 .. MapRows : Tail2(text[r + 1]) = m.lock[r]
    BY <1>4, <1>5
  <2> QED BY <1>1, <2>1, <2>2
<1>11. FromTxt(text) = NormalizeMap(m.speed, m.throttle, m.lock)
  BY <1>3, <1>5, <1>9, <1>10 DEF FromTxt
<1>12. NormalizeMap(m.speed, m.throttle, m.lock) = m
  BY <1>1, <1>7, <1>8, MapEditorAssumption DEF NormalizeMap, MapCols, MapRows
<1> QED BY <1>5, <1>6, <1>11, <1>12 DEF text

(* A cell of a shaped column is a cell.                                    *)
LEMMA ShapedCellType ==
  ASSUME NEW start \in Nat, NEW end \in Nat, NEW r \in 1 .. MapRows
  PROVE  ShapedCell(start, end, r) \in 0 .. CellMax
<1>1. ASSUME NEW x \in Nat PROVE Bounded(x, 0, CellMax) \in 0 .. CellMax
  BY MapEditorAssumption DEF Bounded, NaN
<1>2. CASE MapRows = 1
  BY <1>1, <1>2 DEF ShapedCell
<1>3. CASE MapRows # 1
  <2> DEFINE n == MapRows - 1
             k == r - 1
             x == 2 * (start * n + (end - start) * k) + n
  <2>1. n \in Nat /\ n > 0 /\ k \in 0 .. n
    BY <1>3, MapSize
  <2> HIDE DEF n, k
  <2>2. start * n + (end - start) * k = start * (n - k) + end * k
    BY <2>1
  <2>3. ASSUME NEW a \in Nat, NEW b \in Nat PROVE a * b \in Nat
    OBVIOUS
  <2>4. start * (n - k) \in Nat /\ end * k \in Nat
    BY <2>1, <2>3
  <2>5. x \in Nat /\ 2 * n \in Nat /\ 2 * n > 0
    BY <2>1, <2>2, <2>4
  <2>6. ASSUME NEW a \in Nat, NEW b \in Nat, b > 0 PROVE a \div b \in Nat
    BY <2>6
  <2> HIDE DEF x
  <2>7. x \div (2 * n) \in Nat
    BY <2>5, <2>6
  <2>8. Bounded(x \div (2 * n), 0, CellMax) \in 0 .. CellMax
    BY <1>1, <2>7
  <2> QED BY <1>3, <2>8 DEF ShapedCell, x, n, k
<1> QED BY <1>2, <1>3

LEMMA TypedMap ==
  ASSUME map \in EditorMap, selected_col \in 0 .. MapCols, EditCell
  PROVE  map' \in EditorMap
<1> USE MapEditorAssumption
<1>0. /\ map.speed \in [1 .. MapCols -> 0 .. SpeedMax]
      /\ map.throttle \in [1 .. MapRows -> 0 .. ThrottleMax]
      /\ map.lock \in [1 .. MapRows -> [1 .. MapCols -> 0 .. CellMax]]
  BY DEF EditorMap
<1>1. ASSUME NEW r \in 1 .. MapRows, NEW c \in 1 .. MapCols, NEW n \in TypedCells,
             map' = [map EXCEPT !.lock[r][c] = Bounded(n, @, CellMax)]
      PROVE  map' \in EditorMap
  <2>1. map.lock[r][c] \in 0 .. CellMax
    BY <1>0
  <2>2. Bounded(n, map.lock[r][c], CellMax) \in 0 .. CellMax
    BY <2>1, BoundedCell
  <2> QED BY <1>1, <2>2 DEF EditorMap
<1>2. ASSUME NEW c \in 1 .. MapCols, NEW n \in TypedCells,
             map' = [map EXCEPT !.speed[c] = Bounded(n, @, SpeedMax)]
      PROVE  map' \in EditorMap
  <2>1. Bounded(n, map.speed[c], SpeedMax) \in 0 .. SpeedMax
    BY <1>0, BoundedCell
  <2> QED BY <1>2, <2>1 DEF EditorMap
<1>3. ASSUME NEW r \in 1 .. MapRows, NEW n \in TypedCells,
             map' = [map EXCEPT !.throttle[r] = Bounded(n, @, ThrottleMax)]
      PROVE  map' \in EditorMap
  <2>1. Bounded(n, map.throttle[r], ThrottleMax) \in 0 .. ThrottleMax
    BY <1>0, BoundedCell
  <2> QED BY <1>3, <2>1 DEF EditorMap
<1>4. ASSUME NEW start \in TypedCells \ {NaN}, NEW end \in TypedCells \ {NaN},
             selected_col # 0,
             map' = [map EXCEPT !.lock = [r \in 1 .. MapRows |->
                       [@[r] EXCEPT ![selected_col] = ShapedCell(start, end, r)]]]
      PROVE  map' \in EditorMap
  <2>1. ASSUME NEW r \in 1 .. MapRows PROVE ShapedCell(start, end, r) \in 0 .. CellMax
    BY MapSize, ShapedCellType DEF Cells
  <2>2. ASSUME NEW r \in 1 .. MapRows
        PROVE  [map.lock[r] EXCEPT ![selected_col] = ShapedCell(start, end, r)]
                 \in [1 .. MapCols -> 0 .. CellMax]
    BY <1>0, <2>1
  <2> DEFINE shaped == [r \in 1 .. MapRows |->
                 [map.lock[r] EXCEPT ![selected_col] = ShapedCell(start, end, r)]]
  <2>3. shaped \in [1 .. MapRows -> [1 .. MapCols -> 0 .. CellMax]]
    BY <2>2
  <2>4. map' = [map EXCEPT !.lock = shaped]
    BY <1>4
  <2> HIDE DEF shaped
  <2> QED BY <2>3, <2>4 DEF EditorMap
<1> QED BY <1>1, <1>2, <1>3, <1>4 DEF EditCell

LEMMA MapInitially == WebPagesInit => MapInv
<1> SUFFICES ASSUME WebPagesInit PROVE MapInv
  OBVIOUS
<1>1. PageInv
  <2>1. map = DefaultMap /\ selected_col = 0 /\ selected_file = ""
    BY DEF WebPagesInit, MapInit
  <2>2. 0 \in 0 .. MapCols /\ "" \in Names
    BY MapSize DEF Names
  <2> QED BY <2>1, <2>2, DefaultMapType, Zenon DEF PageInv
<1>2. ASSUME page = "map"
      PROVE  AreCalls /\ DeviceInv /\ \A c \in CallSlots : MapCall(c)
  <2> DEFINE first == <<Sent("read", [path |-> ""]), Sent("list", [path |-> ""])>>
  <2>1. /\ device_map \in Maps /\ map_files = [name \in MapNames |-> <<>>]
        /\ CallsInit(first)
    BY <1>2 DEF WebPagesInit, MapInit, Opened
  <2>2. DeviceInv
    BY <2>1, MapEditorAssumption DEF DeviceInv
  <2>3. ASSUME NEW c \in CallSlots PROVE MapCall(c)
    <3>1. calls[c] = IF c \in DOMAIN first THEN first[c] ELSE NoCall
      BY <2>1 DEF CallsInit
    <3>2. DOMAIN first = {1, 2} /\ first[1] = Sent("read", [path |-> ""])
          /\ first[2] = Sent("list", [path |-> ""])
      OBVIOUS
    <3>3. calls[c] \in {first[1], first[2], NoCall}
      BY <3>1, <3>2
    <3>4. [path |-> ""] \in [path : Names]
      BY DEF Names
    <3>5. ASSUME NEW body \in [path : Names], NEW op \in {"read", "list"},
                 calls[c] = Sent(op, body)
          PROVE  MapCall(c)
      BY <3>5 DEF MapCall, Sent
    <3>6. CASE calls[c] = NoCall
      BY <3>6 DEF MapCall
    <3> QED BY <3>2, <3>3, <3>4, <3>5, <3>6
  <2>4. AreCalls
    BY <2>1 DEF CallsInit, AreCalls
  <2> QED BY <2>2, <2>3, <2>4
<1> QED BY <1>1, <1>2 DEF MapInv

(* One call moves on while the device keeps its map.                       *)
LEMMA OneMapCall ==
  ASSUME MapInv, page = "map", page' = "map", NEW c \in CallSlots, NEW STATE call,
         Put(c, call), MapCall(c)', UNCHANGED device_map, DeviceInv', PageInv'
  PROVE  MapInv'
<1>1. /\ AreCalls' /\ calls'[c] = call
      /\ \A d \in CallSlots : d # c => calls'[d] = calls[d]
  BY PutOne DEF MapInv
<1>2. ASSUME NEW d \in CallSlots, d # c PROVE MapCall(d)'
  BY <1>1, <1>2 DEF MapInv, MapCall, IsDevices
<1> QED BY <1>1, <1>2 DEF MapInv

(* A request that replaces the device's map tells the saves under way.     *)
LEMMA ReplacedMap ==
  ASSUME MapInv, page = "map", page' = "map", NEW c \in CallSlots,
         NEW STATE new, new \in RawMap, Replaces(c, new), UNCHANGED map_files, PageInv',
         calls[c].at = "sent",
         \/ calls[c].op \in {"write", "import", "open"}
         \/ calls[c].op = "first" /\ new = calls[c].body.map
  PROVE  MapInv'
<1>1. /\ AreCalls' /\ device_map' = new /\ calls'[c] = Told(c, c, calls[c].op, calls[c].body)
      /\ \A d \in CallSlots : calls'[d] = Told(c, d, calls[c].op, calls[c].body)
  BY DEF Replaces, AreCalls
<1>2. DeviceInv'
  BY <1>1 DEF MapInv, DeviceInv
<1>3. MapCall(c)'
  <2>1. calls'[c] = [op |-> calls[c].op, at |-> "done", body |-> calls[c].body]
    BY <1>1 DEF Told
  <2>2. MapCall(c)
    BY DEF MapInv
  <2>3. CASE calls[c].op \in {"write", "import"}
    <3>1. calls[c].body \in [map : EditorMap]
      BY <2>2, <2>3 DEF MapCall, NoCall
    <3> QED BY <2>1, <2>3, <3>1 DEF MapCall
  <2>4. CASE calls[c].op = "open"
    <3>1. calls[c].body \in [path : MapNames]
      BY <2>2, <2>4 DEF MapCall, NoCall
    <3> QED BY <2>1, <2>4, <3>1 DEF MapCall
  <2>5. CASE calls[c].op = "first" /\ new = calls[c].body.map
    <3>1. calls[c].body \in SaveType
      BY <2>2, <2>5 DEF MapCall, NoCall
    <3>2. calls'[c].body = calls[c].body /\ IsDevices(calls[c].body)'
      BY <1>1, <2>1, <2>5 DEF IsDevices
    <3>3. calls'[c] \in [op : {"first"}, at : {"done"}, body : SaveType]
      BY <2>1, <2>5, <3>1
    <3> QED BY <3>2, <3>3 DEF MapCall
  <2> QED BY <2>3, <2>4, <2>5
<1>4. ASSUME NEW d \in CallSlots, d # c PROVE MapCall(d)'
  <2>1. MapCall(d)
    BY DEF MapInv
  <2>2. CASE IsDone(d, "first") \/ calls[d].op = "second"
    <3>2. \/ calls[d] \in [op : {"first"}, at : {"done"}, body : SaveType]
          \/ calls[d] \in [op : {"second"}, at : {"sent", "done"}, body : SaveType]
      BY <2>1, <2>2 DEF MapCall, NoCall, IsDone
    <3>3. calls'[d] = [calls[d] EXCEPT !.body.replaced = TRUE]
      BY <1>1, <1>4, <2>2 DEF Told
    <3>4. calls'[d] = [op |-> calls[d].op, at |-> calls[d].at,
                       body |-> [calls[d].body EXCEPT !.replaced = TRUE]]
      BY <3>2, <3>3
    <3> DEFINE body == [calls[d].body EXCEPT !.replaced = TRUE]
    <3>5. body \in SaveType /\ body.replaced = TRUE
      <4>1. ASSUME NEW b \in SaveType
            PROVE  [b EXCEPT !.replaced = TRUE] \in SaveType
                   /\ [b EXCEPT !.replaced = TRUE].replaced = TRUE
        BY DEF SaveType
      <4>2. calls[d].body \in SaveType
        BY <3>2
      <4> QED BY <4>1, <4>2
    <3>6. calls'[d] = [op |-> calls[d].op, at |-> calls[d].at, body |-> body]
      BY <3>4
    <3> HIDE DEF body
    <3>7. calls'[d].body = body
      BY <3>6
    <3>8. IsDevices(calls[d].body)'
      BY <3>5, <3>7 DEF IsDevices
    <3>9. \/ calls'[d] \in [op : {"first"}, at : {"done"}, body : SaveType]
          \/ calls'[d] \in [op : {"second"}, at : {"sent", "done"}, body : SaveType]
      BY <3>2, <3>5, <3>6
    <3> QED BY <3>8, <3>9 DEF MapCall
  <2>3. CASE ~ (IsDone(d, "first") \/ calls[d].op = "second")
    <3>1. calls'[d] = calls[d]
      BY <1>1, <1>4, <2>3 DEF Told
    <3> QED BY <2>1, <2>3, <3>1 DEF MapCall, IsDone, NoCall
  <2> QED BY <2>2, <2>3
<1> QED BY <1>1, <1>2, <1>3, <1>4 DEF MapInv

(* The device answers.                                                     *)
LEMMA MapAnswer ==
  ASSUME MapInv, page = "map", page' = "map", NEW c \in CallSlots, MapAnswers(c)
  PROVE  MapInv'
<1>0. PageInv' /\ MapCall(c) /\ DeviceInv
  BY DEF MapInv, MapAnswers, PageInv
<1>1. CASE /\ IsSent(c, "read")
           /\ Put(c, Done(c, [path |-> calls[c].body.path, map |-> device_map]))
           /\ UNCHANGED <<device_map, map_files>>
  <2> DEFINE body == [path |-> calls[c].body.path, map |-> device_map]
  <2>1. calls[c] \in [op : {"read"}, at : {"sent"}, body : [path : Names]]
    BY <1>0, <1>1 DEF IsSent, MapCall, NoCall
  <2>2. body \in [path : Names, map : RawMap]
    BY <1>0, <2>1 DEF DeviceInv
  <2>3. calls'[c] = Done(c, body)
    BY <1>1, PutOne DEF MapInv
  <2> HIDE DEF body
  <2>4. MapCall(c)'
    BY <2>1, <2>2, <2>3 DEF Done, MapCall
  <2>5. Put(c, Done(c, body)) /\ UNCHANGED device_map /\ DeviceInv'
    BY <1>0, <1>1 DEF body, DeviceInv
  <2> QED BY <1>0, <2>4, <2>5, OneMapCall
<1>2. CASE /\ IsSent(c, "list")
           /\ Put(c, Done(c, [path |-> calls[c].body.path, listed |-> KeptFiles]))
           /\ UNCHANGED <<device_map, map_files>>
  <2> DEFINE body == [path |-> calls[c].body.path, listed |-> KeptFiles]
  <2>1. calls[c] \in [op : {"list"}, at : {"sent"}, body : [path : Names]]
    BY <1>0, <1>2 DEF IsSent, MapCall, NoCall
  <2>2. body \in [path : Names, listed : SUBSET MapNames]
    BY <1>0, <2>1 DEF KeptFiles
  <2>3. calls'[c] = Done(c, body)
    BY <1>2, PutOne DEF MapInv
  <2> HIDE DEF body
  <2>4. MapCall(c)'
    BY <2>1, <2>2, <2>3 DEF Done, MapCall
  <2>5. Put(c, Done(c, body)) /\ UNCHANGED device_map /\ DeviceInv'
    BY <1>0, <1>2 DEF body, DeviceInv
  <2> QED BY <1>0, <2>4, <2>5, OneMapCall
<1>3. CASE /\ IsSent(c, "write") \/ IsSent(c, "import") \/ IsSent(c, "first")
           /\ Replaces(c, calls[c].body.map) /\ UNCHANGED map_files
  <2>1. calls[c].body.map \in EditorMap
    BY <1>0, <1>3 DEF IsSent, MapCall, NoCall, SaveType
  <2> QED BY <1>0, <1>3, <2>1, EditorMapIsRaw, ReplacedMap DEF IsSent
<1>4. CASE /\ IsSent(c, "second") /\ Put(c, Done(c, calls[c].body))
           /\ map_files' = [map_files EXCEPT ![calls[c].body.name] = <<device_map>>]
           /\ UNCHANGED device_map
  <2>1. /\ calls[c] \in [op : {"second"}, at : {"sent", "done"}, body : SaveType]
        /\ IsDevices(calls[c].body)
    BY <1>0, <1>4 DEF IsSent, MapCall, NoCall
  <2>2. calls'[c] = Done(c, calls[c].body)
    BY <1>4, PutOne DEF MapInv
  <2>3. calls'[c] \in [op : {"second"}, at : {"sent", "done"}, body : SaveType]
        /\ calls'[c].body = calls[c].body
    BY <2>1, <2>2 DEF Done
  <2>4. MapCall(c)'
    BY <1>4, <2>1, <2>3 DEF MapCall, IsDevices
  <2>5. DeviceInv'
    BY <1>0, <1>4 DEF DeviceInv
  <2> QED BY <1>0, <1>4, <2>4, <2>5, OneMapCall
<1>5. CASE /\ IsSent(c, "open") /\ map_files[calls[c].body.path] # <<>>
           /\ Replaces(c, map_files[calls[c].body.path][1]) /\ UNCHANGED map_files
  <2>1. calls[c].body.path \in MapNames
    BY <1>0, <1>5 DEF IsSent, MapCall, NoCall
  <2>2. map_files[calls[c].body.path][1] \in RawMap
    BY <1>0, <1>5, <2>1 DEF DeviceInv
  <2> QED BY <1>0, <1>5, <2>2, ReplacedMap DEF IsSent
<1>6. CASE /\ IsSent(c, "delete") /\ Put(c, Done(c, calls[c].body))
           /\ map_files' = [map_files EXCEPT ![calls[c].body.path] = <<>>]
           /\ UNCHANGED device_map
  <2>1. calls[c] \in [op : {"delete"}, at : {"sent", "done"}, body : [path : MapNames]]
    BY <1>0, <1>6 DEF IsSent, MapCall, NoCall
  <2>2. calls'[c] = Done(c, calls[c].body)
    BY <1>6, PutOne DEF MapInv
  <2>3. MapCall(c)'
    BY <2>1, <2>2 DEF Done, MapCall
  <2>4. DeviceInv'
    BY <1>0, <1>6 DEF DeviceInv
  <2> QED BY <1>0, <1>6, <2>3, <2>4, OneMapCall
<1> QED BY <1>1, <1>2, <1>3, <1>4, <1>5, <1>6 DEF MapAnswers

(* A call that ends, and one that reads the map or the list again.         *)
LEMMA MapCallEnds ==
  ASSUME MapInv, page = "map", page' = "map", NEW c \in CallSlots, Ends(c),
         UNCHANGED <<device_map, map_files>>, PageInv'
  PROVE  MapInv'
<1>1. MapCall(c)'
  BY PutOne DEF Ends, MapInv, MapCall
<1>2. DeviceInv'
  BY DEF MapInv, DeviceInv
<1> QED BY <1>1, <1>2, OneMapCall DEF Ends

LEMMA MapCallReads ==
  ASSUME MapInv, page = "map", page' = "map", NEW c \in CallSlots,
         NEW op \in {"read", "list"}, NEW body \in [path : Names], Put(c, Sent(op, body)),
         UNCHANGED <<device_map, map_files>>, PageInv'
  PROVE  MapInv'
<1>1. calls'[c] = Sent(op, body)
  BY PutOne DEF MapInv
<1>2. MapCall(c)'
  BY <1>1 DEF MapCall, Sent
<1>3. DeviceInv'
  BY DEF MapInv, DeviceInv
<1> QED BY <1>2, <1>3, OneMapCall

(* Every other handler goes on, or fails.                                  *)
LEMMA MapGoesOn ==
  ASSUME MapInv, page = "map", page' = "map", NEW c \in CallSlots,
         GoesOn(c) \/ MapCallFails(c)
  PROVE  MapInv'
<1>0. /\ PageInv' /\ UNCHANGED <<device_map, map_files>>
      /\ DeviceInv' /\ "" \in Names /\ MapNames \subseteq Names
  BY DEF MapInv, GoesOn, MapCallFails, PageInv, mapVars, DeviceInv, Names
<1>7. MapCall(c)
  BY DEF MapInv
<1>1. ASSUME NEW path \in Names, RefreshesList(c, path) PROVE MapInv'
  <2>1. [path |-> path] \in [path : Names]
    OBVIOUS
  <2> QED BY <1>0, <1>1, <2>1, MapCallReads DEF RefreshesList
<1>2. CASE IsDone(c, "first") /\ Put(c, Sent("second", calls[c].body))
  <2>1. calls[c].body \in SaveType /\ IsDevices(calls[c].body)
    BY <1>2, <1>7 DEF IsDone, MapCall, NoCall
  <2>2. calls'[c] = Sent("second", calls[c].body)
    BY <1>2, PutOne DEF MapInv
  <2>3. /\ calls'[c] \in [op : {"second"}, at : {"sent", "done"}, body : SaveType]
        /\ calls'[c].body = calls[c].body
    BY <2>1, <2>2 DEF Sent
  <2>4. MapCall(c)'
    BY <1>0, <2>1, <2>3 DEF MapCall, IsDevices
  <2> QED BY <1>0, <1>2, <2>4, OneMapCall
<1>3. CASE IsDone(c, "second") /\ RefreshesList(c, calls[c].body.name)
  <2>1. calls[c].body.name \in MapNames
    BY <1>3, <1>7 DEF IsDone, MapCall, NoCall, SaveType
  <2> QED BY <1>0, <1>1, <1>3, <2>1
<1>4. CASE IsDone(c, "open") /\ Put(c, Sent("read", calls[c].body))
  <2>1. calls[c].body \in [path : MapNames]
    BY <1>4, <1>7 DEF IsDone, MapCall, NoCall
  <2>2. calls[c].body \in [path : Names]
    BY <1>0, <2>1
  <2> QED BY <2>2, <1>0, <1>4, <2>1, MapCallReads
<1>5. CASE calls[c].op = "read" /\ RefreshesList(c, calls[c].body.path)
  <2>1. calls[c].body.path \in Names
    BY <1>5, <1>7 DEF MapCall, NoCall
  <2> QED BY <1>1, <1>5, <2>1
<1>6. CASE Ends(c)
  BY <1>0, <1>6, MapCallEnds
<1> QED BY <1>0, <1>1, <1>2, <1>3, <1>4, <1>5, <1>6 DEF GoesOn, MapCallFails, Fails

LEMMA MapStarts ==
  ASSUME MapInv, page = "map", page' = "map", NEW STATE call, Start(call),
         \/ call \in [op : {"read", "list"}, at : {"sent"}, body : [path : Names]]
         \/ call \in [op : {"write", "import"}, at : {"sent"}, body : [map : EditorMap]]
         \/ call \in [op : {"open", "delete"}, at : {"sent"}, body : [path : MapNames]]
         \/ call \in [op : {"first"}, at : {"sent"}, body : SaveType],
         UNCHANGED <<device_map, map_files>>, PageInv'
  PROVE  MapInv'
<1>1. PICK c \in CallSlots : Put(c, call)
  BY DEF Start
<1>2. calls'[c] = call
  BY <1>1, PutOne DEF MapInv
<1>3. MapCall(c)'
  BY <1>2 DEF MapCall
<1>4. DeviceInv'
  BY DEF MapInv, DeviceInv
<1> QED BY <1>1, <1>3, <1>4, OneMapCall

LEMMA MapStep == MapInv /\ [WebPagesNext]_WebPagesVars => MapInv'
<1> SUFFICES ASSUME MapInv, [WebPagesNext]_WebPagesVars PROVE MapInv'
  OBVIOUS
<1>0. /\ map \in EditorMap /\ selected_col \in 0 .. MapCols /\ selected_file \in Names
      /\ page' = page /\ "" \in Names /\ MapNames \subseteq Names
  BY DEF MapInv, PageInv, WebPagesNext, WebPagesVars, pageVars, Names
<1>1. CASE UNCHANGED mapVars /\ (page = "map" => UNCHANGED calls)
  <2>1. PageInv'
    BY <1>0, <1>1 DEF PageInv, mapVars
  <2>2. ASSUME page = "map"
        PROVE  AreCalls' /\ DeviceInv' /\ \A c \in CallSlots : MapCall(c)'
    BY <1>1, <2>2 DEF MapInv, AreCalls, DeviceInv, MapCall, IsDevices, mapVars
  <2> QED BY <1>0, <2>1, <2>2 DEF MapInv
<1>2. CASE page = "map" /\ MapNext
  <2>0. page = "map" /\ page' = "map" /\ AreCalls /\ DeviceInv
        /\ \A c \in CallSlots : MapCall(c)
    BY <1>0, <1>2 DEF MapInv
  <2>1. ASSUME NEW c \in CallSlots, MapAnswers(c) PROVE MapInv'
    BY <2>0, <2>1, MapAnswer
  <2>2. ASSUME NEW c \in CallSlots, FinishRead(c) PROVE MapInv'
    <3> DEFINE read == calls[c].body.map
    <3>1. read \in RawMap /\ calls[c].body.path \in Names
      <4>1. MapCall(c) /\ IsDone(c, "read")
        BY <2>0, <2>2 DEF FinishRead
      <4> QED BY <4>1 DEF IsDone, MapCall, NoCall
    <3>2. map' \in EditorMap
      BY <2>2, <3>1, NormalizedMap DEF FinishRead, RawMap
    <3>3. PageInv' /\ UNCHANGED <<device_map, map_files>>
      BY <1>0, <2>2, <3>2 DEF FinishRead, PageInv
    <3>4. CASE Ends(c)
      BY <2>0, <3>3, <3>4, MapCallEnds
    <3>5. CASE RefreshesList(c, calls[c].body.path)
      <4>1. [path |-> calls[c].body.path] \in [path : Names]
        BY <3>1
      <4> QED BY <2>0, <3>3, <3>5, <4>1, MapCallReads DEF RefreshesList
    <3> QED BY <2>2, <3>4, <3>5 DEF FinishRead
  <2>3. ASSUME NEW c \in CallSlots, FinishList(c) PROVE MapInv'
    <3>1. calls[c].body.path \in Names /\ calls[c].body.listed \subseteq Names
      <4>1. MapCall(c) /\ IsDone(c, "list")
        BY <2>0, <2>3 DEF FinishList
      <4>2. calls[c].body.path \in Names /\ calls[c].body.listed \subseteq MapNames
        BY <4>1 DEF IsDone, MapCall, NoCall
      <4> QED BY <1>0, <4>2
    <3>2. selected_file' \in Names
      BY <1>0, <2>3, <3>1 DEF FinishList
    <3>3. PageInv'
      BY <1>0, <2>3, <3>2 DEF FinishList, PageInv
    <3> QED BY <2>0, <2>3, <3>3, MapCallEnds DEF FinishList
  <2>4. ASSUME NEW c \in CallSlots, GoesOn(c) \/ MapCallFails(c) PROVE MapInv'
    BY <2>0, <2>4, MapGoesOn
  <2>5. ASSUME UNCHANGED <<device_map, map_files, calls>>, PageInv' PROVE MapInv'
    BY <2>0, <2>5 DEF MapInv, AreCalls, DeviceInv, MapCall, IsDevices
  <2>6. CASE EditMap
    <3>1. PageInv'
      BY <1>0, <2>6, TypedMap DEF EditMap, PageInv
    <3> QED BY <2>5, <2>6, <3>1 DEF EditMap
  <2>7. ASSUME NEW col \in 1 .. MapCols, SelectColumn(col) PROVE MapInv'
    <3>1. PageInv'
      <4>1. col \in 0 .. MapCols
        BY MapSize
      <4> QED BY <1>0, <2>7, <4>1 DEF SelectColumn, PageInv
    <3> QED BY <2>5, <2>7, <3>1 DEF SelectColumn
  <2>8. ASSUME NEW name \in MapNames, SelectFile(name) PROVE MapInv'
    <3>1. PageInv'
      BY <1>0, <2>8 DEF SelectFile, PageInv
    <3> QED BY <2>5, <2>8, <3>1 DEF SelectFile
  <2>9. ASSUME UNCHANGED mapVars PROVE PageInv' /\ UNCHANGED <<device_map, map_files>>
    BY <1>0, <2>9 DEF mapVars, PageInv
  <2>10. CASE RefreshList \/ LoadFromDevice
    <3>1. ASSUME NEW path \in Names
          PROVE  /\ Sent("read", [path |-> path])
                      \in [op : {"read", "list"}, at : {"sent"}, body : [path : Names]]
                 /\ Sent("list", [path |-> path])
                      \in [op : {"read", "list"}, at : {"sent"}, body : [path : Names]]
      BY DEF Sent
    <3> QED BY <1>0, <2>0, <2>9, <2>10, <3>1, MapStarts DEF RefreshList, LoadFromDevice
  <2>11. CASE SaveCurrent
    <3>1. Sent("write", [map |-> map])
            \in [op : {"write", "import"}, at : {"sent"}, body : [map : EditorMap]]
      BY <1>0 DEF Sent
    <3> QED BY <2>0, <2>9, <2>11, <3>1, MapStarts DEF SaveCurrent
  <2>12. ASSUME NEW name \in MapNames, SaveMapAs(name) PROVE MapInv'
    <3>1. Sent("first", [map |-> map, name |-> name, replaced |-> FALSE])
            \in [op : {"first"}, at : {"sent"}, body : SaveType]
      BY <1>0 DEF Sent, SaveType
    <3> QED BY <2>0, <2>9, <2>12, <3>1, MapStarts DEF SaveMapAs
  <2>13. CASE LoadSelectedMap \/ DeleteSelectedMap
    <3>1. selected_file \in MapNames
      BY <1>0, <2>13 DEF LoadSelectedMap, DeleteSelectedMap, Names
    <3>2. /\ Sent("open", [path |-> selected_file])
               \in [op : {"open", "delete"}, at : {"sent"}, body : [path : MapNames]]
          /\ Sent("delete", [path |-> selected_file])
               \in [op : {"open", "delete"}, at : {"sent"}, body : [path : MapNames]]
      BY <3>1 DEF Sent
    <3> QED BY <2>0, <2>9, <2>13, <3>2, MapStarts DEF LoadSelectedMap, DeleteSelectedMap
  <2>14. ASSUME NEW text \in Texts \cup {ToTxt(map)}, ImportText(text) PROVE MapInv'
    <3>1. text \in MapTexts /\ Readable(text)
      BY <1>0, <2>14, MapComesBack, MapEditorAssumption DEF ImportText
    <3>2. FromTxt(text) \in EditorMap
      BY <3>1, ImportedMap
    <3>3. PageInv' /\ UNCHANGED <<device_map, map_files>>
      BY <1>0, <2>14, <3>2 DEF ImportText, PageInv
    <3>4. Sent("import", [map |-> FromTxt(text)])
            \in [op : {"write", "import"}, at : {"sent"}, body : [map : EditorMap]]
      BY <3>2 DEF Sent
    <3> QED BY <2>0, <2>14, <3>3, <3>4, MapStarts DEF ImportText
  <2> QED BY <1>2, <2>1, <2>2, <2>3, <2>4, <2>6, <2>7, <2>8, <2>10, <2>11, <2>12, <2>13,
             <2>14 DEF MapNext
<1> QED BY <1>1, <1>2 DEF WebPagesNext, WebPagesVars, pageVars, mapVars

(* A map that is exported comes back as it was, bins and cells alike       *)
(* (exportTxt, fromTxt, normalizeBins, normalizeLockTable).                *)
THEOREM MapsComeBack == WebPagesSpec => []MapTextRoundTrips
<1>1. MapInv => MapTextRoundTrips
  BY MapComesBack DEF MapInv, PageInv, MapTextRoundTrips
<1> QED BY <1>1, MapInitially, MapStep, PTL DEF WebPagesSpec

(* What is kept under a name is the map that was shown when "Save as" was  *)
(* pressed, though it takes two posts (saveMapAs), unless another request  *)
(* has replaced the device's map between them.                             *)
THEOREM SavesAreShown == WebPagesSpec => SavedAsIsShown
<1>1. MapInv /\ [WebPagesNext]_WebPagesVars
        => [\A c \in CallSlots :
              (IsSent(c, "second") /\ MapAnswers(c) /\ ~calls[c].body.replaced)
                => map_files'[calls[c].body.name] = <<calls[c].body.map>>]_mapVars
  <2> SUFFICES ASSUME MapInv, [WebPagesNext]_WebPagesVars, mapVars' # mapVars,
                      NEW c \in CallSlots, IsSent(c, "second"), MapAnswers(c),
                      ~calls[c].body.replaced
               PROVE  map_files'[calls[c].body.name] = <<calls[c].body.map>>
    OBVIOUS
  <2>1. page = "map"
    BY DEF WebPagesNext, WebPagesVars, mapVars
  <2>2. DeviceInv /\ calls[c].body \in SaveType /\ IsDevices(calls[c].body)
    BY <2>1 DEF MapInv, MapCall, IsSent, NoCall
  <2>3. map_files' = [map_files EXCEPT ![calls[c].body.name] = <<device_map>>]
    BY DEF MapAnswers, IsSent
  <2> QED BY <2>2, <2>3 DEF DeviceInv, IsDevices, SaveType
<1> QED BY <1>1, MapInitially, MapStep, PTL DEF WebPagesSpec, SavedAsIsShown

-----------------------------------------------------------------------------
(* The behaviour page.  What is shown is in normal form: ids in range, at  *)
(* most as many profiles and rules as the code allows, and no rule or      *)
(* default without a profile.  Requests carry what a page may save, and as *)
(* long as the user leaves the alerts alone, the device's alerts.          *)
Normal(b) ==
  /\ b \in Builder
  /\ Len(b.profiles) \in 1 .. MaxProfiles /\ Len(b.rules) \in 0 .. MaxRules
  /\ b.default \in ProfileIds(b)
  /\ \A k \in DOMAIN b.rules : b.rules[k].profile \in ProfileIds(b)
  /\ DOMAIN b.alerts = 1 .. MaxAlerts
Storable(b) == b \in RawBuilder /\ ForcesDefault(b)

SameAlerts(b) == ~alerts_touched => AlertList(b.alerts) = AlertList(saved.alerts)
BuilderCall(c) ==
  \/ calls[c] = NoCall
  \/ calls[c] \in [op : {"load"}, at : {"sent"}, body : {NoBuilder}]
  \/ /\ calls[c] \in [op : {"load"}, at : {"done"}, body : RawBuilder]
     /\ SameAlerts(calls[c].body)
  \/ /\ calls[c] \in [op : {"save"}, at : {"sent", "done"}, body : RawBuilder]
     /\ ForcesDefault(calls[c].body) /\ SameAlerts(calls[c].body)
  \/ /\ calls[c] \in [op : {"toggle"}, at : {"sent", "done"}, body : RawBuilder]
     /\ state # NoBuilder
BuilderInv ==
  /\ Storable(saved)
  /\ alerts_touched \in BOOLEAN
  /\ state # NoBuilder => Normal(state) /\ SameAlerts(state)
  /\ page = "behavior" => AreCalls /\ \A c \in CallSlots : BuilderCall(c)

LEMMA BuilderSizes ==
  /\ MaxId \in Nat /\ MaxProfiles \in Nat /\ MaxRules \in Nat /\ MaxAlerts \in Nat
  /\ 3 <= MaxId /\ 4 <= MaxProfiles /\ 3 <= MaxRules
  BY BehaviorBuilderAssumption

LEMMA BuilderIsRaw == Builder \subseteq RawBuilder
<1>1. Profile \subseteq RawProfile /\ Rule \subseteq RawRule /\ Ids \subseteq Nat
  BY BuilderSizes DEF Profile, RawProfile, Rule, RawRule, Ids
<1>2. Seq(Profile) \subseteq Seq(RawProfile) /\ Seq(Rule) \subseteq Seq(RawRule)
  BY <1>1
<1> QED BY <1>1, <1>2 DEF Builder, RawBuilder

LEMMA NoBuilderIsNone ==
  /\ NoBuilder \in RawBuilder /\ NoBuilder.profiles = <<>>
  /\ \A b : Normal(b) => b # NoBuilder
<1>1. NoBuilder \in RawBuilder /\ NoBuilder.profiles = <<>>
  BY DEF NoBuilder, RawBuilder
<1>2. ASSUME NEW b, Normal(b) PROVE b.profiles # <<>>
  BY <1>2 DEF Normal
<1> QED BY <1>1, <1>2

(* A set of naturals has a least member.                                   *)
LEMMA LeastOf ==
  ASSUME NEW S, S \subseteq Nat, S # {}
  PROVE  \E m \in S : \A n \in S : m <= n
<1> DEFINE R == OpToRel(<, Nat)
<1>1. IsWellFoundedOn(R, Nat)
  BY NatLessThanWellFounded
<1>2. PICK m \in S : \A n \in S : ~ (<<n, m>> \in R)
  <2> HIDE DEF R
  <2> QED BY <1>1, WFMin
<1>3. ASSUME NEW n \in S, n < m PROVE FALSE
  <2> DEFINE p == <<n, m>>
  <2>1. p \in Nat \X Nat /\ p[1] < p[2]
    BY <1>3
  <2> HIDE DEF p
  <2>2. p \in R
    BY <2>1 DEF OpToRel
  <2> QED BY <1>2, <2>2 DEF p
<1> QED BY <1>3

(* A profile is named by its id.                                           *)
LEMMA IdOf ==
  ASSUME NEW b, NEW i \in DOMAIN b.profiles
  PROVE  b.profiles[i].id \in ProfileIds(b)
  BY DEF ProfileIds

LEMMA ForcedProfiles ==
  ASSUME NEW profiles \in Seq(Profile), NEW default
  PROVE  /\ ForceDefault(profiles, default) \in Seq(Profile)
         /\ Len(ForceDefault(profiles, default)) = Len(profiles)
         /\ DOMAIN ForceDefault(profiles, default) = DOMAIN profiles
         /\ \A i \in DOMAIN profiles :
              ForceDefault(profiles, default)[i].id = profiles[i].id
<1> DEFINE first(i) == /\ profiles[i].id = default
                       /\ \A j \in 1 .. i - 1 : profiles[j].id # default
           forced == [i \in DOMAIN profiles |->
                        IF first(i) THEN [profiles[i] EXCEPT !.exclusive = TRUE]
                        ELSE profiles[i]]
<1>1. ForceDefault(profiles, default) = forced
  BY DEF ForceDefault
<1>2. ASSUME NEW i \in DOMAIN profiles
      PROVE  forced[i] \in Profile /\ forced[i].id = profiles[i].id
  <2> HIDE DEF first
  <2>1. profiles[i] \in Profile
    OBVIOUS
  <2> QED BY <2>1 DEF Profile
<1>3. forced \in [1 .. Len(profiles) -> Profile]
  BY <1>2
<1> HIDE DEF forced
<1> QED BY <1>1, <1>2, <1>3

LEMMA ClampedId ==
  /\ \A id \in Nat : Clamp(id) \in Ids
  /\ \A id \in Ids : Clamp(id) = id
  BY BuilderSizes DEF Clamp, Ids

(* Padding the alerts makes a full list of them, and nothing of a full one.*)
LEMMA PaddedAlerts ==
  ASSUME NEW alerts \in Seq(Alert)
  PROVE  /\ AlertList(alerts) \in Seq(Alert)
         /\ DOMAIN AlertList(alerts) = 1 .. MaxAlerts
         /\ DOMAIN alerts = 1 .. MaxAlerts => AlertList(alerts) = alerts
<1>1. NoAlert \in Alert
  BY DEF NoAlert, Alert, Condition, Signals, On
<1>2. \A k \in 1 .. MaxAlerts : AlertList(alerts)[k] \in Alert
  BY <1>1 DEF AlertList
<1>3. AlertList(alerts) \in [1 .. MaxAlerts -> Alert]
  BY <1>2 DEF AlertList
<1>4. AlertList(alerts) \in Seq(Alert)
  <2>1. \A n \in Nat : \A f \in [1 .. n -> Alert] : f \in Seq(Alert)
    OBVIOUS
  <2> QED BY <1>3, <2>1, BuilderSizes
<1>5. DOMAIN alerts = 1 .. MaxAlerts => AlertList(alerts) = alerts
  <2>1. alerts = [k \in DOMAIN alerts |-> alerts[k]]
    OBVIOUS
  <2> QED BY <2>1 DEF AlertList
<1> QED BY <1>3, <1>4, <1>5

LEMMA FullAlerts ==
  ASSUME NEW alerts \in Seq(Alert)
  PROVE  AlertList(AlertList(alerts)) = AlertList(alerts)
  BY PaddedAlerts

(* A profile as normalizeProfile makes it.                                 *)
LEMMA NormalizedProfile ==
  ASSUME NEW p \in RawProfile
  PROVE  /\ NormalizeProfile(p) =
              [id |-> Clamp(p.id), exclusive |-> p.exclusive,
               release |-> [on |-> p.release.on,
                            rate |-> IF p.release.rate = "zero" THEN "usual"
                                     ELSE p.release.rate]]
         /\ NormalizeProfile(p) \in Profile
<1> DEFINE rate == IF p.release.rate = "zero" THEN "usual" ELSE p.release.rate
<1>1. p.release \in Release /\ p.id \in Nat /\ p.exclusive \in BOOLEAN
  BY DEF RawProfile
<1>2. NormalizeProfile(p) = [p EXCEPT !.id = Clamp(p.id), !.release.rate = rate]
  BY DEF NormalizeProfile
<1>3. rate \in Rates
  BY <1>1 DEF Release, Rates
<1> HIDE DEF rate
<1>4. NormalizeProfile(p) = [id |-> Clamp(p.id), exclusive |-> p.exclusive,
                             release |-> [p.release EXCEPT !.rate = rate]]
  BY <1>2 DEF RawProfile
<1>5. [p.release EXCEPT !.rate = rate] = [on |-> p.release.on, rate |-> rate]
      /\ p.release.on \in BOOLEAN
  BY <1>1 DEF Release
<1>6. [on |-> p.release.on, rate |-> rate] \in Release
  BY <1>3, <1>5 DEF Release
<1>7. Clamp(p.id) \in Ids
  BY <1>1, ClampedId
<1>8. NormalizeProfile(p) \in Profile
  BY <1>1, <1>4, <1>5, <1>6, <1>7 DEF Profile
<1> QED BY <1>4, <1>5, <1>8 DEF rate

(* normalizeBuilder makes the normal form of whatever it is given.         *)
LEMMA NormalizedBuilder ==
  ASSUME NEW payload \in RawBuilder
  PROVE  /\ Normal(NormalizeBuilder(payload))
         /\ NormalizeBuilder(payload).alerts = AlertList(payload.alerts)
<1> DEFINE listed == IF payload.profiles = <<>> THEN <<NewProfile(0, FALSE)>>
                     ELSE FirstOf(payload.profiles, MaxProfiles)
           profiles == [i \in DOMAIN listed |-> NormalizeProfile(listed[i])]
           ids == {profiles[i].id : i \in DOMAIN profiles}
           first == profiles[1].id
           default == IF payload.default \in ids THEN payload.default ELSE first
           some == FirstOf(payload.rules, MaxRules)
           rules == [k \in DOMAIN some |-> NormalizeRule(some[k], ids, first)]
           alerts == AlertList(payload.alerts)
           result == [payload EXCEPT !.default = default,
                                     !.profiles = ForceDefault(profiles, default),
                                     !.rules = rules, !.alerts = alerts]
<1>1. NormalizeBuilder(payload) = result
  BY DEF NormalizeBuilder, Mapped
<1>2. ASSUME NEW S, NEW list \in Seq(S), NEW n \in Nat
      PROVE  /\ FirstOf(list, n) \in Seq(S)
             /\ Len(FirstOf(list, n)) = IF Len(list) < n THEN Len(list) ELSE n
  BY DEF FirstOf
<1>3. listed \in Seq(RawProfile) /\ Len(listed) \in 1 .. MaxProfiles
  <2>1. CASE payload.profiles = <<>>
    <3>1. NewProfile(0, FALSE) \in RawProfile
      BY DEF NewProfile, RawProfile, Release, Rates
    <3>2. listed = <<NewProfile(0, FALSE)>>
      BY <2>1
    <3> HIDE DEF listed
    <3>3. listed \in Seq(RawProfile) /\ Len(listed) = 1
      <4>1. \A p \in RawProfile : <<p>> \in Seq(RawProfile) /\ Len(<<p>>) = 1
        OBVIOUS
      <4> QED BY <3>1, <3>2, <4>1
    <3> QED BY <3>3, BuilderSizes
  <2>2. CASE payload.profiles # <<>>
    <3>1. payload.profiles \in Seq(RawProfile)
      BY DEF RawBuilder
    <3>2. Len(payload.profiles) \in Nat /\ Len(payload.profiles) > 0
      BY <2>2, <3>1
    <3>3. listed = FirstOf(payload.profiles, MaxProfiles)
      BY <2>2
    <3> HIDE DEF listed
    <3>4. listed \in Seq(RawProfile)
          /\ Len(listed) = IF Len(payload.profiles) < MaxProfiles
                           THEN Len(payload.profiles) ELSE MaxProfiles
      BY <1>2, <3>1, <3>3, BuilderSizes
    <3> QED BY <3>2, <3>4, BuilderSizes
  <2> QED BY <2>1, <2>2
<1> HIDE DEF listed
<1>4. ASSUME NEW id \in Nat PROVE Clamp(id) \in Ids
  BY ClampedId
<1>5. profiles \in Seq(Profile) /\ Len(profiles) = Len(listed)
      /\ DOMAIN profiles = 1 .. Len(listed)
  <2>1. ASSUME NEW i \in DOMAIN listed
        PROVE  NormalizeProfile(listed[i]) \in Profile
    <3>1. listed[i] \in RawProfile
      BY <1>3
    <3> QED BY <3>1, NormalizedProfile
  <2> QED BY <1>3, <2>1
<1> HIDE DEF profiles
<1>6. first \in ids /\ default \in ids /\ ids \subseteq Ids
  <2>1. 1 \in DOMAIN profiles
    BY <1>3, <1>5
  <2>2. \A i \in DOMAIN profiles : profiles[i].id \in Ids
    <3>1. \A i \in DOMAIN profiles : profiles[i] \in Profile
      BY <1>5
    <3> QED BY <3>1 DEF Profile
  <2> QED BY <2>1, <2>2
<1>7. /\ some \in Seq(RawRule) /\ Len(some) \in 0 .. MaxRules
  <2>1. payload.rules \in Seq(RawRule)
    BY DEF RawBuilder
  <2> QED BY <1>2, <2>1, BuilderSizes
<1> HIDE DEF some, ids, first, default
<1>8. rules \in Seq(Rule) /\ Len(rules) = Len(some)
      /\ \A k \in DOMAIN rules : rules[k].profile \in ids
  <2>1. ASSUME NEW k \in DOMAIN some
        PROVE  NormalizeRule(some[k], ids, first) \in Rule
               /\ NormalizeRule(some[k], ids, first).profile \in ids
    <3>1. some[k] \in RawRule
      BY <1>7
    <3>2. (IF Clamp(some[k].profile) \in ids THEN Clamp(some[k].profile) ELSE first) \in ids
      BY <1>6
    <3> QED BY <1>6, <3>1, <3>2 DEF NormalizeRule, RawRule, Rule
  <2> QED BY <1>7, <2>1
<1> HIDE DEF rules
<1> DEFINE forced == ForceDefault(profiles, default)
<1>9. forced \in Seq(Profile) /\ Len(forced) = Len(listed)
      /\ ids = {forced[i].id : i \in DOMAIN forced}
  BY <1>5, ForcedProfiles DEF ids
<1> HIDE DEF forced
<1>10. /\ result = [enabled |-> payload.enabled, default |-> default, profiles |-> forced,
                    rules |-> rules, alerts |-> alerts]
       /\ payload.enabled \in BOOLEAN
       /\ alerts \in Seq(Alert) /\ DOMAIN alerts = 1 .. MaxAlerts
  <2>1. result = [payload EXCEPT !.default = default, !.profiles = forced, !.rules = rules,
                                 !.alerts = alerts]
    BY DEF forced
  <2>2. payload.alerts \in Seq(Alert)
    BY DEF RawBuilder
  <2>3. alerts \in Seq(Alert) /\ DOMAIN alerts = 1 .. MaxAlerts
    BY <2>2, PaddedAlerts
  <2> HIDE DEF result, alerts
  <2> QED BY <2>1, <2>3 DEF RawBuilder
<1> HIDE DEF result
<1>11. /\ result.default = default /\ result.profiles = forced /\ result.rules = rules
       /\ result.alerts = alerts /\ ProfileIds(result) = ids
  BY <1>9, <1>10 DEF ProfileIds
<1> HIDE DEF alerts
<1>12. result \in Builder
  BY <1>6, <1>8, <1>9, <1>10 DEF Builder
<1>13. Normal(result)
  BY <1>3, <1>6, <1>7, <1>8, <1>9, <1>10, <1>11, <1>12 DEF Normal
<1> QED BY <1>1, <1>11, <1>13 DEF alerts

(* The starter set is in normal form, too.                                 *)
LEMMA SeededBuilder ==
  ASSUME NEW b, Normal(b)
  PROVE  Normal(Seeded(b)) /\ Seeded(b).alerts = b.alerts
<1>1. CASE ~ (Fresh(b) \/ Legacy(b))
  BY <1>1 DEF Seeded
<1>2. CASE Fresh(b) \/ Legacy(b)
  <2> DEFINE profiles == [i \in 1 .. 4 |-> NewProfile(i - 1, i = 1)]
             rules == [i \in 1 .. 3 |-> StarterRule(i)]
             seeded == [enabled |-> b.enabled, default |-> 0, profiles |-> profiles,
                        rules |-> rules, alerts |-> b.alerts]
  <2>1. Seeded(b) = seeded /\ b.enabled \in BOOLEAN /\ b.alerts \in Seq(Alert)
        /\ DOMAIN b.alerts = 1 .. MaxAlerts
    BY <1>2 DEF Seeded, Normal, Builder
  <2>2. profiles \in Seq(Profile) /\ Len(profiles) = 4
        /\ \A i \in 1 .. 4 : profiles[i].id = i - 1
    <3>1. \A i \in 1 .. 4 : NewProfile(i - 1, i = 1) \in Profile
      BY BuilderSizes DEF NewProfile, Profile, Ids, Release, Rates
    <3>2. \A i \in 1 .. 4 : NewProfile(i - 1, i = 1).id = i - 1
      BY DEF NewProfile
    <3> QED BY <3>1, <3>2
  <2>3. rules \in Seq(Rule) /\ Len(rules) = 3 /\ \A i \in 1 .. 3 : rules[i].profile = i
    <3>1. \A i \in 1 .. 3 : StarterRule(i) \in Rule
      BY BuilderSizes
         DEF StarterRule, Rule, Ids, Condition, Signals, Virtual, On, NoCondition
    <3>2. \A i \in 1 .. 3 : StarterRule(i).profile = i
      BY DEF StarterRule
    <3> QED BY <3>1, <3>2
  <2> HIDE DEF profiles, rules
  <2>4. \A i \in 0 .. 3 : i \in ProfileIds(seeded)
    <3>1. ASSUME NEW i \in 0 .. 3 PROVE i \in ProfileIds(seeded)
      <4>1. i + 1 \in DOMAIN profiles /\ profiles[i + 1].id = i
        BY <2>2
      <4> QED BY <4>1 DEF ProfileIds
    <3> QED BY <3>1
  <2>5. seeded \in Builder
    BY <2>1, <2>2, <2>3, BuilderSizes DEF Builder, Ids
  <2>6. Normal(seeded)
    <3>1. /\ seeded.profiles = profiles /\ seeded.rules = rules /\ seeded.default = 0
          /\ seeded.alerts = b.alerts
      OBVIOUS
    <3> HIDE DEF seeded
    <3>2. Len(profiles) \in 1 .. MaxProfiles /\ Len(rules) \in 0 .. MaxRules
      BY <2>2, <2>3, BuilderSizes
    <3>3. \A k \in DOMAIN rules : rules[k].profile \in ProfileIds(seeded)
      BY <2>3, <2>4
    <3> QED BY <2>1, <2>4, <2>5, <3>1, <3>2, <3>3 DEF Normal
  <2> QED BY <2>1, <2>6
<1> QED BY <1>1, <1>2

(* Rules of profiles that exist are left alone, on the way to the page and *)
(* on the way to the device.                                               *)
LEMMA NormalRules ==
  ASSUME NEW rules \in Seq(Rule), NEW ids, ids \subseteq Ids, NEW first,
         \A k \in DOMAIN rules : rules[k].profile \in ids
  PROVE  [k \in DOMAIN rules |-> NormalizeRule(rules[k], ids, first)] = rules
<1>1. ASSUME NEW k \in DOMAIN rules
      PROVE  NormalizeRule(rules[k], ids, first) = rules[k]
  <2>1. rules[k] \in Rule /\ rules[k].profile \in ids /\ Clamp(rules[k].profile) = rules[k].profile
    BY ClampedId
  <2> QED BY <2>1 DEF NormalizeRule, Rule
<1>2. rules = [k \in DOMAIN rules |-> rules[k]]
  OBVIOUS
<1> QED BY <1>1, <1>2

(* Of a release the rate in force is sent.  It is read back as the release *)
(* that is in force.                                                       *)
Reread(release) ==
  [on |-> SentRelease(release).on,
   rate |-> IF SentRelease(release).rate = "zero" THEN "usual" ELSE SentRelease(release).rate]

LEMMA ReleaseIsReread ==
  ASSUME NEW r \in Release
  PROVE  SentRelease(r) \in Release /\ Reread(r) \in Release /\ InForce(Reread(r)) = InForce(r)
  BY DEF Release, Rates, SentRelease, InForce, Reread

(* What is saved of a builder in normal form: its default is exclusive.    *)
SentProfiles(b) ==
  [i \in DOMAIN b.profiles |->
     [id |-> b.profiles[i].id,
      exclusive |-> b.profiles[i].exclusive \/ b.profiles[i].id = b.default,
      release |-> SentRelease(b.profiles[i].release)]]

LEMMA SentAreProfiles ==
  ASSUME NEW b, Normal(b)
  PROVE  /\ SentProfiles(b) \in Seq(Profile) /\ Len(SentProfiles(b)) = Len(b.profiles)
         /\ DOMAIN SentProfiles(b) = DOMAIN b.profiles
<1>1. b.profiles \in Seq(Profile)
  BY DEF Normal, Builder
<1>2. ASSUME NEW i \in DOMAIN b.profiles PROVE SentProfiles(b)[i] \in Profile
  <2>1. b.profiles[i] \in Profile
    BY <1>1
  <2>2. /\ b.profiles[i].id \in Ids /\ b.profiles[i].exclusive \in BOOLEAN
        /\ b.profiles[i].release \in Release
    BY <2>1 DEF Profile
  <2>3. SentRelease(b.profiles[i].release) \in Release
    BY <2>2, ReleaseIsReread
  <2>4. (b.profiles[i].exclusive \/ b.profiles[i].id = b.default) \in BOOLEAN
    OBVIOUS
  <2> QED BY <2>2, <2>3, <2>4 DEF Profile, SentProfiles
<1>3. DOMAIN b.profiles = 1 .. Len(b.profiles) /\ Len(b.profiles) \in Nat
  BY <1>1
<1>4. SentProfiles(b) \in [1 .. Len(b.profiles) -> Profile]
  BY <1>2, <1>3 DEF SentProfiles
<1>5. \A n \in Nat : \A f \in [1 .. n -> Profile] :
        f \in Seq(Profile) /\ Len(f) = n /\ DOMAIN f = 1 .. n
  OBVIOUS
<1> QED BY <1>3, <1>4, <1>5

LEMMA SerializedParts ==
  ASSUME NEW b, Normal(b)
  PROVE  Serialize(b) = [b EXCEPT !.profiles = SentProfiles(b)]
<1> DEFINE profiles == [i \in DOMAIN b.profiles |-> SentProfile(b.profiles[i])]
           ids == {profiles[i].id : i \in DOMAIN profiles}
           chosen == Clamp(b.default)
           default == IF chosen \in ids THEN chosen ELSE profiles[1].id
           forced == [i \in DOMAIN profiles |->
                        [profiles[i] EXCEPT !.exclusive = @ \/ profiles[i].id = default]]
           rules == [k \in DOMAIN b.rules |-> NormalizeRule(b.rules[k], ids, default)]
<1>1. Serialize(b) = [b EXCEPT !.default = default, !.profiles = forced, !.rules = rules]
  BY DEF Serialize, Mapped
<1>2. /\ b \in Builder /\ b.profiles \in Seq(Profile) /\ b.rules \in Seq(Rule)
      /\ b.default \in ProfileIds(b) /\ b.default \in Ids
      /\ \A k \in DOMAIN b.rules : b.rules[k].profile \in ProfileIds(b)
  BY DEF Normal, Builder
<1>3. ASSUME NEW i \in DOMAIN b.profiles
      PROVE  /\ profiles[i] = [id |-> b.profiles[i].id, exclusive |-> b.profiles[i].exclusive,
                               release |-> SentRelease(b.profiles[i].release)]
             /\ profiles[i].id = b.profiles[i].id
             /\ profiles[i].exclusive = b.profiles[i].exclusive
             /\ b.profiles[i].id \in Ids
  <2> DEFINE old == b.profiles[i]
             new == profiles[i]
  <2>1. old \in Profile
    BY <1>2
  <2>2. Clamp(old.id) = old.id
    BY <2>1, ClampedId DEF Profile
  <2>3. new = [old EXCEPT !.id = old.id, !.release = SentRelease(old.release)]
    BY <2>2 DEF SentProfile
  <2> HIDE DEF old, new
  <2>4. new = [id |-> old.id, exclusive |-> old.exclusive, release |-> SentRelease(old.release)]
    BY <2>1, <2>3 DEF Profile
  <2>5. new.id = old.id /\ new.exclusive = old.exclusive /\ old.id \in Ids
    BY <2>1, <2>3 DEF Profile
  <2> QED BY <2>4, <2>5 DEF old, new
<1>4. DOMAIN profiles = DOMAIN b.profiles
  OBVIOUS
<1> HIDE DEF profiles
<1>5. ids = ProfileIds(b) /\ ids \subseteq Ids
  <2>1. \A i \in DOMAIN b.profiles : profiles[i].id = b.profiles[i].id
    BY <1>3
  <2> QED BY <1>3, <1>4, <2>1 DEF ProfileIds
<1>6. default = b.default
  BY <1>2, <1>5, ClampedId
<1> HIDE DEF ids, default
<1>7. rules = b.rules
  BY <1>2, <1>5, NormalRules
<1>8. forced = SentProfiles(b)
  <2>1. ASSUME NEW i \in DOMAIN b.profiles
        PROVE  [profiles[i] EXCEPT !.exclusive = @ \/ profiles[i].id = default]
                 = SentProfiles(b)[i]
    <3> DEFINE e == profiles[i].exclusive \/ profiles[i].id = default
    <3>1. e = (b.profiles[i].exclusive \/ b.profiles[i].id = b.default)
      BY <1>3, <1>6
    <3>2. SentProfiles(b)[i] = [id |-> b.profiles[i].id, exclusive |-> e,
                                release |-> SentRelease(b.profiles[i].release)]
      BY <3>1 DEF SentProfiles
    <3>3. [profiles[i] EXCEPT !.exclusive = @ \/ profiles[i].id = default]
            = [profiles[i] EXCEPT !.exclusive = e]
      OBVIOUS
    <3> DEFINE old == b.profiles[i]
               new == profiles[i]
    <3>4. new = [id |-> old.id, exclusive |-> old.exclusive,
                 release |-> SentRelease(old.release)]
      BY <1>3
    <3> HIDE DEF e, old, new
    <3>5. [new EXCEPT !.exclusive = e]
            = [id |-> old.id, exclusive |-> e, release |-> SentRelease(old.release)]
      BY <3>4
    <3> QED BY <3>2, <3>3, <3>5 DEF old, new
  <2>2. forced = [i \in DOMAIN b.profiles |-> SentProfiles(b)[i]]
    BY <1>4, <2>1
  <2>3. SentProfiles(b) = [i \in DOMAIN b.profiles |-> SentProfiles(b)[i]]
    BY DEF SentProfiles
  <2> QED BY <2>2, <2>3
<1> HIDE DEF rules, forced
<1>9. Serialize(b) = [b EXCEPT !.default = b.default, !.profiles = SentProfiles(b),
                               !.rules = b.rules]
  BY <1>1, <1>6, <1>7, <1>8
<1> QED BY <1>2, <1>9 DEF Builder

LEMMA SerializedBuilder ==
  ASSUME NEW b, Normal(b)
  PROVE  Storable(Serialize(b)) /\ Serialize(b).alerts = b.alerts
<1> DEFINE profiles == SentProfiles(b)
<1>1. Serialize(b) = [b EXCEPT !.profiles = profiles]
  BY SerializedParts
<1>2. b \in Builder
  BY DEF Normal
<1>3. profiles \in Seq(Profile) /\ DOMAIN profiles = DOMAIN b.profiles
  BY SentAreProfiles
<1>4. PICK i \in DOMAIN b.profiles : b.profiles[i].id = b.default
  BY DEF Normal, ProfileIds
<1>5. profiles[i].id = b.default /\ profiles[i].exclusive = TRUE
  BY <1>4 DEF SentProfiles
<1> HIDE DEF profiles
<1>6. Serialize(b) \in Builder /\ Serialize(b).alerts = b.alerts
      /\ Serialize(b).profiles = profiles /\ Serialize(b).default = b.default
  BY <1>1, <1>2, <1>3 DEF Builder
<1> QED BY <1>3, <1>4, <1>5, <1>6, BuilderIsRaw DEF Storable, ForcesDefault

(* RulesWithout by its recursion: the function exists on every prefix, and *)
(* what it lists are rules of other profiles, no more than there were.     *)
KeepsTo(kept, rules, id, n) ==
  kept = [m \in 0 .. n |->
            IF m = 0 THEN <<>>
            ELSE IF rules[m].profile = id THEN kept[m - 1] ELSE Append(kept[m - 1], rules[m])]

LEMMA KeptExists ==
  ASSUME NEW rules \in Seq(Rule), NEW id
  PROVE  \A n \in 0 .. Len(rules) : \E kept : KeepsTo(kept, rules, id, n)
<1> DEFINE bad == {n \in 0 .. Len(rules) : ~ \E kept : KeepsTo(kept, rules, id, n)}
<1> SUFFICES ASSUME bad # {} PROVE FALSE
  OBVIOUS
<1>1. PICK n \in bad : \A m \in bad : n <= m
  <2>1. bad \subseteq Nat
    OBVIOUS
  <2> HIDE DEF bad
  <2> QED BY <2>1, LeastOf
<1>2. n \in 0 .. Len(rules) /\ ~ \E kept : KeepsTo(kept, rules, id, n)
  BY <1>1
<1>3. CASE n = 0
  <2> DEFINE kept == [m \in 0 .. 0 |-> <<>>]
  <2>1. \A m \in 0 .. 0 : m = 0
    OBVIOUS
  <2>2. KeepsTo(kept, rules, id, 0)
    BY <2>1 DEF KeepsTo
  <2> QED BY <1>2, <1>3, <2>2
<1>4. CASE n # 0
  <2>1. n - 1 \in 0 .. Len(rules) /\ ~ n <= n - 1
    BY <1>2, <1>4
  <2>2. n - 1 \notin bad
    BY <1>1, <2>1
  <2>3. PICK old : KeepsTo(old, rules, id, n - 1)
    BY <2>1, <2>2
  <2> HIDE DEF bad
  <2> DEFINE last == IF rules[n].profile = id THEN old[n - 1] ELSE Append(old[n - 1], rules[n])
             new == [m \in 0 .. n |-> IF m = n THEN last ELSE old[m]]
  <2>4. \A m \in 0 .. n - 1 : new[m] = old[m]
    BY <1>2
  <2>5. ASSUME NEW m \in 0 .. n
        PROVE  new[m] = IF m = 0 THEN <<>>
                        ELSE IF rules[m].profile = id THEN new[m - 1]
                        ELSE Append(new[m - 1], rules[m])
    <3>1. CASE m = n
      <4>1. new[m] = last /\ n - 1 \in 0 .. n - 1
        BY <1>2, <1>4, <3>1
      <4>2. new[m - 1] = old[n - 1]
        BY <2>4, <3>1, <4>1
      <4> HIDE DEF new
      <4> QED BY <1>4, <3>1, <4>1, <4>2
    <3>2. CASE m # n
      <4>1. m \in 0 .. n - 1 /\ (m # 0 => m - 1 \in 0 .. n - 1)
        BY <1>2, <3>2
      <4>2. old[m] = IF m = 0 THEN <<>>
                     ELSE IF rules[m].profile = id THEN old[m - 1]
                     ELSE Append(old[m - 1], rules[m])
        BY <2>3, <4>1 DEF KeepsTo
      <4>3. new[m] = old[m] /\ (m # 0 => new[m - 1] = old[m - 1])
        BY <2>4, <4>1
      <4> HIDE DEF new
      <4> QED BY <4>2, <4>3
    <3> QED BY <3>1, <3>2
  <2>6. new = [m \in 0 .. n |-> new[m]]
    OBVIOUS
  <2> HIDE DEF new
  <2>7. KeepsTo(new, rules, id, n)
    BY <2>5, <2>6 DEF KeepsTo
  <2> QED BY <1>2, <2>7
<1> QED BY <1>3, <1>4

LEMMA RulesAreKept ==
  ASSUME NEW rules \in Seq(Rule), NEW id
  PROVE  /\ RulesWithout(rules, id) \in Seq({r \in Rule : \E k \in DOMAIN rules :
                                               r = rules[k] /\ r.profile # id})
         /\ Len(RulesWithout(rules, id)) <= Len(rules)
<1> DEFINE S == {r \in Rule : \E k \in DOMAIN rules : r = rules[k] /\ r.profile # id}
           kept == CHOOSE f : KeepsTo(f, rules, id, Len(rules))
           bad == {n \in 0 .. Len(rules) : ~ (kept[n] \in Seq(S) /\ Len(kept[n]) <= n)}
<1>1. RulesWithout(rules, id) = kept[Len(rules)]
  BY DEF RulesWithout, KeepsTo
<1>2. KeepsTo(kept, rules, id, Len(rules))
  <2>1. Len(rules) \in 0 .. Len(rules)
    OBVIOUS
  <2> QED BY <2>1, KeptExists
<1>3. ASSUME NEW n \in 0 .. Len(rules)
      PROVE  kept[n] = IF n = 0 THEN <<>>
                       ELSE IF rules[n].profile = id THEN kept[n - 1]
                       ELSE Append(kept[n - 1], rules[n])
  <2> HIDE DEF kept
  <2> QED BY <1>2 DEF KeepsTo
<1> HIDE DEF kept
<1>4. bad = {}
  <2> SUFFICES ASSUME bad # {} PROVE FALSE
    OBVIOUS
  <2>1. PICK n \in bad : \A m \in bad : n <= m
    <3>1. bad \subseteq Nat
      OBVIOUS
    <3> HIDE DEF bad
    <3> QED BY <3>1, LeastOf
  <2>2. n \in 0 .. Len(rules) /\ ~ (kept[n] \in Seq(S) /\ Len(kept[n]) <= n)
    BY <2>1
  <2>3. n # 0
    <3> HIDE DEF S
    <3>1. <<>> \in Seq(S) /\ Len(<<>>) = 0
      OBVIOUS
    <3>2. n = 0 => kept[n] = <<>>
      BY <1>3, <2>2
    <3>3. n = 0 => Len(kept[n]) <= n
      BY <3>1, <3>2
    <3> QED BY <2>2, <3>1, <3>2, <3>3
  <2>4. n - 1 \in 0 .. Len(rules) /\ ~ n <= n - 1 /\ n \in DOMAIN rules
    BY <2>2, <2>3
  <2>5. kept[n - 1] \in Seq(S) /\ Len(kept[n - 1]) <= n - 1
    BY <2>1, <2>4
  <2>6. kept[n] = IF rules[n].profile = id THEN kept[n - 1]
                  ELSE Append(kept[n - 1], rules[n])
    BY <1>3, <2>2, <2>3
  <2>7. CASE rules[n].profile = id
    BY <2>2, <2>5, <2>6, <2>7
  <2>8. CASE rules[n].profile # id
    <3>1. rules[n] \in S
      BY <2>4, <2>8
    <3> HIDE DEF S
    <3> QED BY <2>2, <2>5, <2>6, <2>8, <3>1
  <2> QED BY <2>7, <2>8
<1>5. kept[Len(rules)] \in Seq(S) /\ Len(kept[Len(rules)]) <= Len(rules)
  <2>1. Len(rules) \in 0 .. Len(rules)
    OBVIOUS
  <2> QED BY <1>4, <2>1
<1> QED BY <1>1, <1>5

(* An edit keeps the normal form.  First, what an edit of the profiles or  *)
(* of the rules alone has to show.                                         *)
LEMMA ProfilesEdited ==
  ASSUME NEW b, Normal(b), NEW new \in Builder, new.rules = b.rules,
         Len(new.profiles) \in 1 .. MaxProfiles,
         DOMAIN new.profiles = DOMAIN b.profiles,
         \A i \in DOMAIN new.profiles : new.profiles[i].id = b.profiles[i].id,
         new.default \in ProfileIds(b), DOMAIN new.alerts = DOMAIN b.alerts
  PROVE  Normal(new)
<1>1. ProfileIds(new) = ProfileIds(b)
  BY DEF ProfileIds
<1> QED BY <1>1 DEF Normal

LEMMA RulesEdited ==
  ASSUME NEW b, Normal(b), NEW rules \in Seq(Rule), Len(rules) \in 0 .. MaxRules,
         \A k \in DOMAIN rules : rules[k].profile \in ProfileIds(b),
         NEW new, new = [b EXCEPT !.rules = rules]
  PROVE  Normal(new) /\ new.alerts = b.alerts
<1>1. /\ new \in Builder /\ new.rules = rules /\ new.profiles = b.profiles
      /\ new.default = b.default /\ new.alerts = b.alerts
  BY DEF Normal, Builder
<1>2. Normal(new)
  BY <1>1 DEF Normal, ProfileIds
<1> QED BY <1>1, <1>2

LEMMA NormalParts ==
  ASSUME NEW b, Normal(b)
  PROVE  /\ b.profiles \in Seq(Profile) /\ Len(b.profiles) \in 1 .. MaxProfiles
         /\ b.rules \in Seq(Rule) /\ Len(b.rules) \in 0 .. MaxRules
         /\ b.default \in ProfileIds(b) /\ ProfileIds(b) \subseteq Ids
         /\ \A k \in DOMAIN b.rules : b.rules[k].profile \in ProfileIds(b)
<1>1. b.profiles \in Seq(Profile) /\ b.rules \in Seq(Rule)
  BY DEF Normal, Builder
<1>2. \A i \in DOMAIN b.profiles : b.profiles[i] \in Profile
  BY <1>1
<1>3. ProfileIds(b) \subseteq Ids
  BY <1>2 DEF ProfileIds, Profile
<1> QED BY <1>1, <1>3 DEF Normal

LEMMA AddProfileNormal ==
  ASSUME Normal(state), AddProfile
  PROVE  Normal(state') /\ state'.alerts = state.alerts
<1> DEFINE new == NewProfile(NextProfileId, FALSE)
           profiles == Append(state.profiles, new)
<1>1. /\ state.profiles \in Seq(Profile) /\ Len(state.profiles) \in 1 .. MaxProfiles
      /\ state \in Builder /\ MaxProfiles \in Nat
  BY NormalParts, BuilderSizes DEF Normal
<1>2. NextProfileId \in Ids
  <2> DEFINE unused == Ids \ ProfileIds(state)
  <2>1. CASE unused # {}
    <3>1. \E id \in unused : \A u \in unused : id <= u
      <4>1. unused \subseteq Nat
        BY DEF Ids
      <4> HIDE DEF unused
      <4> QED BY <2>1, <4>1, LeastOf
    <3> QED BY <2>1, <3>1 DEF NextProfileId
  <2>2. CASE unused = {}
    <3>1. Clamp(Len(state.profiles)) \in Ids
      BY <1>1, BuilderSizes DEF Clamp, Ids
    <3> QED BY <2>2, <3>1 DEF NextProfileId
  <2> QED BY <2>1, <2>2
<1>3. new \in Profile
  BY <1>2 DEF NewProfile, Profile, Release, Rates
<1>4. Len(state.profiles) < MaxProfiles /\ state' = [state EXCEPT !.profiles = profiles]
  BY DEF AddProfile
<1> HIDE DEF new
<1>5. /\ profiles \in Seq(Profile) /\ Len(profiles) = Len(state.profiles) + 1
      /\ \A i \in DOMAIN state.profiles : profiles[i] = state.profiles[i]
      /\ DOMAIN state.profiles \subseteq DOMAIN profiles
  BY <1>1, <1>3
<1> HIDE DEF profiles
<1>6. /\ state' \in Builder /\ state'.profiles = profiles /\ state'.rules = state.rules
      /\ state'.default = state.default /\ state'.alerts = state.alerts
  BY <1>1, <1>4, <1>5 DEF Builder
<1>7. ProfileIds(state) \subseteq ProfileIds(state')
  BY <1>5, <1>6 DEF ProfileIds
<1>8. Len(profiles) \in 1 .. MaxProfiles
  BY <1>1, <1>4, <1>5
<1> QED BY <1>6, <1>7, <1>8 DEF Normal

LEMMA RemoveProfileNormal ==
  ASSUME Normal(state), NEW i \in DOMAIN state.profiles, RemoveProfile(i)
  PROVE  Normal(state') /\ state'.alerts = state.alerts
<1> DEFINE old == state.profiles
           removed == old[i].id
           rest == Without(old, i)
           default == IF state.default = removed THEN rest[1].id ELSE state.default
           rules == RulesWithout(state.rules, removed)
<1>1. /\ old \in Seq(Profile) /\ Len(old) \in 1 .. MaxProfiles /\ Len(old) > 1
      /\ state.rules \in Seq(Rule) /\ Len(state.rules) \in 0 .. MaxRules
      /\ state \in Builder /\ MaxProfiles \in Nat /\ MaxRules \in Nat
  BY NormalParts, BuilderSizes DEF Normal, RemoveProfile
<1>2. state' = [state EXCEPT !.profiles = rest, !.default = default, !.rules = rules]
  BY DEF RemoveProfile
<1>3. rest \in Seq(Profile) /\ Len(rest) = Len(old) - 1
  <2>1. rest \in [1 .. Len(old) - 1 -> Profile]
    BY <1>1 DEF Without
  <2>2. \A n \in Nat : \A f \in [1 .. n -> Profile] : f \in Seq(Profile) /\ Len(f) = n
    OBVIOUS
  <2>3. Len(old) - 1 \in Nat
    BY <1>1
  <2> HIDE DEF rest
  <2> QED BY <2>1, <2>2, <2>3
<1>4. ASSUME NEW j \in DOMAIN old, j # i
      PROVE  old[j].id \in {rest[k].id : k \in DOMAIN rest}
  <2>1. CASE j < i
    <3>1. j \in 1 .. Len(old) - 1 /\ rest[j] = old[j]
      BY <1>1, <2>1 DEF Without
    <3> QED BY <1>1, <1>3, <3>1
  <2>2. CASE ~ j < i
    <3>1. j - 1 \in 1 .. Len(old) - 1 /\ rest[j - 1] = old[j]
      BY <1>1, <1>4, <2>2 DEF Without
    <3> QED BY <1>1, <1>3, <3>1
  <2> QED BY <2>1, <2>2
<1>5. \A id \in ProfileIds(state) : id # removed => id \in {rest[k].id : k \in DOMAIN rest}
  BY <1>4 DEF ProfileIds
<1>6. rest[1].id \in {rest[k].id : k \in DOMAIN rest}
  <2>1. 1 \in DOMAIN rest
    BY <1>1, <1>3
  <2> QED BY <2>1
<1>7. default \in {rest[k].id : k \in DOMAIN rest}
  BY <1>5, <1>6, NormalParts
<1>8. {rest[k].id : k \in DOMAIN rest} \subseteq Ids
  <2>1. \A k \in DOMAIN rest : rest[k] \in Profile
    BY <1>3
  <2> QED BY <2>1 DEF Profile
<1>9. /\ rules \in Seq(Rule) /\ Len(rules) \in 0 .. MaxRules
      /\ \A k \in DOMAIN rules : rules[k].profile \in {rest[j].id : j \in DOMAIN rest}
  <2> DEFINE S == {r \in Rule : \E k \in DOMAIN state.rules :
                     r = state.rules[k] /\ r.profile # removed}
  <2>1. rules \in Seq(S) /\ Len(rules) <= Len(state.rules)
    BY <1>1, RulesAreKept
  <2>2. ASSUME NEW r \in S PROVE r.profile \in {rest[j].id : j \in DOMAIN rest}
    BY <1>5, NormalParts
  <2>3. S \subseteq Rule
    OBVIOUS
  <2> HIDE DEF S, rules, rest
  <2>4. rules \in Seq(Rule) /\ Len(rules) \in Nat /\ \A k \in DOMAIN rules : rules[k] \in S
    BY <2>1, <2>3
  <2> QED BY <1>1, <2>1, <2>2, <2>4
<1>10. Len(rest) \in 1 .. MaxProfiles
  BY <1>1, <1>3
<1> HIDE DEF rest, rules, default
<1>11. /\ state' \in Builder /\ state'.profiles = rest /\ state'.rules = rules
       /\ state'.default = default /\ state'.alerts = state.alerts
  BY <1>1, <1>2, <1>3, <1>7, <1>8, <1>9 DEF Builder
<1>12. ProfileIds(state') = {rest[k].id : k \in DOMAIN rest}
  BY <1>11 DEF ProfileIds
<1> QED BY <1>7, <1>9, <1>10, <1>11, <1>12 DEF Normal

LEMMA OneProfileEdited ==
  ASSUME Normal(state), NEW i \in DOMAIN state.profiles, NEW p \in Profile,
         p.id = state.profiles[i].id, NEW default \in ProfileIds(state),
         state' = [state EXCEPT !.profiles = [state.profiles EXCEPT ![i] = p],
                                !.default = default]
  PROVE  Normal(state') /\ state'.alerts = state.alerts
<1> DEFINE profiles == [state.profiles EXCEPT ![i] = p]
<1>1. state.profiles \in Seq(Profile) /\ Len(state.profiles) \in 1 .. MaxProfiles
  BY NormalParts
<1>2. /\ profiles \in Seq(Profile) /\ Len(profiles) = Len(state.profiles)
      /\ DOMAIN profiles = DOMAIN state.profiles
      /\ \A j \in DOMAIN profiles : profiles[j].id = state.profiles[j].id
  BY <1>1
<1>3. state' = [state EXCEPT !.profiles = profiles, !.default = default]
  OBVIOUS
<1> HIDE DEF profiles
<1>4. Len(profiles) \in 1 .. MaxProfiles /\ default \in Ids
  BY <1>1, <1>2, NormalParts
<1>5. /\ state' \in Builder /\ state'.profiles = profiles /\ state'.default = default
      /\ state'.rules = state.rules /\ state'.alerts = state.alerts
  BY <1>2, <1>3, <1>4 DEF Normal, Builder
<1> QED BY <1>2, <1>4, <1>5, ProfilesEdited

LEMMA ProfileSwitches ==
  ASSUME Normal(state), NEW i \in DOMAIN state.profiles,
         \/ SetDefault(i)
         \/ \E on \in BOOLEAN : SetExclusive(i, on) \/ SwitchRelease(i, on)
         \/ \E rate \in Rates : TypeRate(i, rate)
  PROVE  Normal(state') /\ state'.alerts = state.alerts
<1> DEFINE old == state.profiles[i]
<1>1. /\ state \in Builder /\ state.profiles \in Seq(Profile)
      /\ state.default \in ProfileIds(state)
  BY NormalParts DEF Normal
<1>2. old \in Profile /\ old.id \in ProfileIds(state)
  BY <1>1 DEF ProfileIds
<1>3. ASSUME NEW e \in BOOLEAN
      PROVE  /\ [old EXCEPT !.exclusive = e] \in Profile
             /\ [old EXCEPT !.exclusive = e].id = old.id
  BY <1>2 DEF Profile
<1>4. state = [state EXCEPT !.default = state.default]
  BY <1>1 DEF Builder
<1>5. CASE SetDefault(i)
  <2>1. state' = [state EXCEPT
                    !.profiles = [state.profiles EXCEPT ![i] = [old EXCEPT !.exclusive = TRUE]],
                    !.default = old.id]
    BY <1>5 DEF SetDefault
  <2> QED BY <1>2, <1>3, <2>1, OneProfileEdited
<1>6. ASSUME NEW on \in BOOLEAN, SetExclusive(i, on)
      PROVE  Normal(state') /\ state'.alerts = state.alerts
  <2> DEFINE e == on \/ old.id = state.default
  <2>1. e \in BOOLEAN
    OBVIOUS
  <2>2. state' = [state EXCEPT
                    !.profiles = [state.profiles EXCEPT ![i] = [old EXCEPT !.exclusive = e]]]
    BY <1>6 DEF SetExclusive
  <2> HIDE DEF e
  <2>3. state' = [state EXCEPT
                    !.profiles = [state.profiles EXCEPT ![i] = [old EXCEPT !.exclusive = e]],
                    !.default = state.default]
    BY <1>1, <2>2 DEF Builder
  <2> QED BY <1>1, <1>3, <2>1, <2>3, OneProfileEdited
<1>7. ASSUME NEW r \in Release,
             state' = [state EXCEPT
                         !.profiles = [state.profiles EXCEPT ![i] = [old EXCEPT !.release = r]]]
      PROVE  Normal(state') /\ state'.alerts = state.alerts
  <2>1. [old EXCEPT !.release = r] \in Profile /\ [old EXCEPT !.release = r].id = old.id
    BY <1>2 DEF Profile
  <2>2. state' = [state EXCEPT
                    !.profiles = [state.profiles EXCEPT ![i] = [old EXCEPT !.release = r]],
                    !.default = state.default]
    BY <1>1, <1>7 DEF Builder
  <2> QED BY <1>1, <2>1, <2>2, OneProfileEdited
<1>8. old.release \in Release
  BY <1>2 DEF Profile
<1>9. ASSUME NEW on \in BOOLEAN, SwitchRelease(i, on)
      PROVE  Normal(state') /\ state'.alerts = state.alerts
  <2> DEFINE r == [on |-> on, rate |-> IF on /\ old.release.rate = "zero" THEN "usual"
                                       ELSE old.release.rate]
  <2>1. r \in Release
    BY <1>8 DEF Release, Rates
  <2>2. state' = [state EXCEPT
                    !.profiles = [state.profiles EXCEPT ![i] = [old EXCEPT !.release = r]]]
    BY <1>9 DEF SwitchRelease
  <2> HIDE DEF r
  <2> QED BY <1>7, <2>1, <2>2
<1>10. ASSUME NEW rate \in Rates, TypeRate(i, rate)
       PROVE  Normal(state') /\ state'.alerts = state.alerts
  <2> DEFINE r == [old.release EXCEPT !.rate = rate]
  <2>1. r \in Release
    BY <1>8 DEF Release
  <2>2. state' = [state EXCEPT
                    !.profiles = [state.profiles EXCEPT ![i] = [old EXCEPT !.release = r]]]
    BY <1>10 DEF TypeRate
  <2> HIDE DEF r
  <2> QED BY <1>7, <2>1, <2>2
<1> QED BY <1>5, <1>6, <1>9, <1>10

LEMMA AddRuleNormal ==
  ASSUME Normal(state), NEW i \in DOMAIN state.profiles, NEW picked \in Signals,
         AddRule(i, picked)
  PROVE  Normal(state') /\ state'.alerts = state.alerts
<1> DEFINE new == [enabled |-> TRUE, second |-> FALSE, profile |-> state.profiles[i].id,
                   a |-> [signal |-> picked, enabled |-> picked # ""],
                   b |-> [signal |-> picked, enabled |-> FALSE]]
           rules == Append(state.rules, new)
<1>1. /\ state.rules \in Seq(Rule) /\ Len(state.rules) \in 0 .. MaxRules
      /\ MaxRules \in Nat /\ ProfileIds(state) \subseteq Ids
      /\ \A k \in DOMAIN state.rules : state.rules[k].profile \in ProfileIds(state)
  BY NormalParts, BuilderSizes
<1>2. new \in Rule /\ new.profile \in ProfileIds(state)
  <2>1. state.profiles[i].id \in ProfileIds(state)
    BY IdOf
  <2>2. state.profiles[i].id \in Ids
    BY <1>1, <2>1
  <2>3. [signal |-> picked, enabled |-> picked # ""] \in Condition
        /\ [signal |-> picked, enabled |-> FALSE] \in Condition
    BY DEF Condition
  <2> QED BY <2>1, <2>2, <2>3 DEF Rule
<1>3. Len(state.rules) < MaxRules /\ state' = [state EXCEPT !.rules = rules]
  BY DEF AddRule
<1> HIDE DEF new
<1>4. rules \in Seq(Rule) /\ Len(rules) = Len(state.rules) + 1
      /\ \A k \in DOMAIN rules : rules[k].profile \in ProfileIds(state)
  <2>1. rules \in Seq(Rule) /\ Len(rules) = Len(state.rules) + 1
        /\ rules[Len(state.rules) + 1] = new
        /\ \A k \in 1 .. Len(state.rules) : rules[k] = state.rules[k]
    BY <1>1, <1>2
  <2> HIDE DEF rules
  <2> QED BY <1>1, <1>2, <2>1
<1> HIDE DEF rules
<1>5. Len(rules) \in 0 .. MaxRules
  <2> DEFINE n == Len(state.rules)
  <2>1. n \in Nat /\ n < MaxRules /\ MaxRules \in Nat /\ Len(rules) = n + 1
    BY <1>1, <1>3, <1>4
  <2> HIDE DEF n
  <2> QED BY <2>1
<1> QED BY <1>3, <1>4, <1>5, RulesEdited

LEMMA RemoveRuleNormal ==
  ASSUME Normal(state), NEW k \in DOMAIN state.rules, RemoveRule(k)
  PROVE  Normal(state') /\ state'.alerts = state.alerts
<1> DEFINE old == state.rules
           rules == Without(old, k)
<1>1. /\ old \in Seq(Rule) /\ Len(old) \in 0 .. MaxRules /\ Len(old) > 0
      /\ MaxRules \in Nat /\ \A j \in DOMAIN old : old[j].profile \in ProfileIds(state)
  BY NormalParts, BuilderSizes
<1>2. ASSUME NEW j \in 1 .. Len(old) - 1 PROVE \E h \in DOMAIN old : rules[j] = old[h]
  <2>1. CASE j < k
    <3>1. j \in DOMAIN old /\ rules[j] = old[j]
      BY <1>1, <2>1 DEF Without
    <3> QED BY <3>1
  <2>2. CASE ~ j < k
    <3>1. j + 1 \in DOMAIN old /\ rules[j] = old[j + 1]
      BY <1>1, <2>2 DEF Without
    <3> QED BY <3>1
  <2> QED BY <2>1, <2>2
<1>3. \A j \in 1 .. Len(old) - 1 : rules[j] \in Rule /\ rules[j].profile \in ProfileIds(state)
  BY <1>1, <1>2
<1>4. rules \in [1 .. Len(old) - 1 -> Rule]
  BY <1>3 DEF Without
<1>5. state' = [state EXCEPT !.rules = rules]
  BY DEF RemoveRule
<1>6. rules \in Seq(Rule) /\ Len(rules) = Len(old) - 1
  <2>1. \A n \in Nat : \A f \in [1 .. n -> Rule] : f \in Seq(Rule) /\ Len(f) = n
    OBVIOUS
  <2>2. Len(old) - 1 \in Nat
    BY <1>1
  <2> HIDE DEF rules
  <2> QED BY <1>4, <2>1, <2>2
<1> HIDE DEF rules
<1>7. Len(rules) \in 0 .. MaxRules
      /\ \A j \in DOMAIN rules : rules[j].profile \in ProfileIds(state)
  BY <1>1, <1>3, <1>6
<1> QED BY <1>5, <1>6, <1>7, RulesEdited

LEMMA OneRuleEdited ==
  ASSUME Normal(state), NEW k \in DOMAIN state.rules, NEW r \in Rule,
         r.profile = state.rules[k].profile,
         state' = [state EXCEPT !.rules = [state.rules EXCEPT ![k] = r]]
  PROVE  Normal(state') /\ state'.alerts = state.alerts
<1> DEFINE rules == [state.rules EXCEPT ![k] = r]
<1>1. /\ state.rules \in Seq(Rule) /\ Len(state.rules) \in 0 .. MaxRules
      /\ \A j \in DOMAIN state.rules : state.rules[j].profile \in ProfileIds(state)
  BY NormalParts
<1>2. /\ rules \in Seq(Rule) /\ Len(rules) = Len(state.rules)
      /\ \A j \in DOMAIN rules : rules[j].profile \in ProfileIds(state)
  BY <1>1
<1>3. state' = [state EXCEPT !.rules = rules]
  OBVIOUS
<1> HIDE DEF rules
<1> QED BY <1>1, <1>2, <1>3, RulesEdited

LEMMA ConditionedType ==
  ASSUME NEW condition \in Condition
  PROVE  Conditioned(condition) \subseteq Condition /\ Sourced(condition) \subseteq Condition
<1>1. Sourced(condition) \subseteq Condition
  <2>1. /\ \A signal \in Virtual : On(signal) \in Condition
        /\ On("picked") \in Condition /\ NoCondition \in Condition
    BY DEF Condition, Signals, On, NoCondition
  <2> QED BY <2>1 DEF Sourced
<1>2. [condition EXCEPT !.enabled = ~@] \in Condition
  BY DEF Condition
<1> QED BY <1>1, <1>2 DEF Conditioned

LEMMA RuleSwitches ==
  ASSUME Normal(state), NEW k \in DOMAIN state.rules, ToggleRule(k) \/ EditRule(k)
  PROVE  Normal(state') /\ state'.alerts = state.alerts
<1> DEFINE old == state.rules[k]
<1>1. state \in Builder /\ state.rules \in Seq(Rule) /\ old \in Rule
  <2>1. state \in Builder /\ state.rules \in Seq(Rule)
    BY NormalParts DEF Normal
  <2> QED BY <2>1
<1>2. CASE state' = [state EXCEPT !.rules[k].enabled = ~@]
  <2>1. state' = [state EXCEPT !.rules =
                    [state.rules EXCEPT ![k] = [old EXCEPT !.enabled = ~@]]]
    BY <1>2
  <2>2. [old EXCEPT !.enabled = ~@] \in Rule /\ [old EXCEPT !.enabled = ~@].profile = old.profile
    BY <1>1 DEF Rule
  <2> QED BY <2>1, <2>2, OneRuleEdited
<1>3. CASE state' = [state EXCEPT !.rules[k].second = ~@]
  <2>1. state' = [state EXCEPT !.rules =
                    [state.rules EXCEPT ![k] = [old EXCEPT !.second = ~@]]]
    BY <1>3
  <2>2. [old EXCEPT !.second = ~@] \in Rule /\ [old EXCEPT !.second = ~@].profile = old.profile
    BY <1>1 DEF Rule
  <2> QED BY <2>1, <2>2, OneRuleEdited
<1>4. ASSUME NEW c \in Condition, state' = [state EXCEPT !.rules[k].a = c]
      PROVE  Normal(state') /\ state'.alerts = state.alerts
  <2>1. state' = [state EXCEPT !.rules = [state.rules EXCEPT ![k] = [old EXCEPT !.a = c]]]
    BY <1>4
  <2>2. [old EXCEPT !.a = c] \in Rule /\ [old EXCEPT !.a = c].profile = old.profile
    BY <1>1 DEF Rule
  <2> QED BY <2>1, <2>2, OneRuleEdited
<1>5. ASSUME NEW c \in Condition, state' = [state EXCEPT !.rules[k].b = c]
      PROVE  Normal(state') /\ state'.alerts = state.alerts
  <2>1. state' = [state EXCEPT !.rules = [state.rules EXCEPT ![k] = [old EXCEPT !.b = c]]]
    BY <1>5
  <2>2. [old EXCEPT !.b = c] \in Rule /\ [old EXCEPT !.b = c].profile = old.profile
    BY <1>1 DEF Rule
  <2> QED BY <2>1, <2>2, OneRuleEdited
<1>6. Conditioned(old.a) \subseteq Condition /\ Conditioned(old.b) \subseteq Condition
  BY <1>1, ConditionedType DEF Rule
<1> QED BY <1>2, <1>3, <1>4, <1>5, <1>6 DEF ToggleRule, EditRule

LEMMA ProfilesStayNormal ==
  ASSUME Normal(state), EditProfiles
  PROVE  /\ Normal(state') /\ state'.alerts = state.alerts
         /\ UNCHANGED <<saved, calls, alerts_touched>>
<1>1. UNCHANGED <<saved, calls, alerts_touched>>
  BY DEF EditProfiles
<1>2. CASE AddProfile
  BY <1>1, <1>2, AddProfileNormal
<1>3. ASSUME NEW i \in DOMAIN state.profiles,
             \/ RemoveProfile(i) \/ SetDefault(i)
             \/ \E on \in BOOLEAN : SetExclusive(i, on) \/ SwitchRelease(i, on)
             \/ \E rate \in Rates : TypeRate(i, rate)
             \/ \E picked \in {"", "picked"} : AddRule(i, picked)
      PROVE  Normal(state') /\ state'.alerts = state.alerts
  <2>1. \A picked \in {"", "picked"} : picked \in Signals
    BY DEF Signals
  <2> QED BY <1>3, <2>1, RemoveProfileNormal, ProfileSwitches, AddRuleNormal
<1>4. ASSUME NEW k \in DOMAIN state.rules, RemoveRule(k) \/ ToggleRule(k) \/ EditRule(k)
      PROVE  Normal(state') /\ state'.alerts = state.alerts
  BY <1>4, RemoveRuleNormal, RuleSwitches
<1> QED BY <1>1, <1>2, <1>3, <1>4 DEF EditProfiles

LEMMA AlertsStayNormal ==
  ASSUME Normal(state), NEW k \in DOMAIN state.alerts, EditAlert(k)
  PROVE  Normal(state')
<1> DEFINE old == state.alerts[k]
<1>1. state \in Builder /\ state.alerts \in Seq(Alert)
  BY DEF Normal, Builder
<1>2. old \in Alert /\ old.condition \in Condition
  <2>1. old \in Alert
    BY <1>1
  <2> QED BY <2>1 DEF Alert
<1>3. ASSUME NEW a \in Alert,
             state' = [state EXCEPT !.alerts = [state.alerts EXCEPT ![k] = a]]
      PROVE  Normal(state')
  <2>1. [state.alerts EXCEPT ![k] = a] \in Seq(Alert)
        /\ DOMAIN [state.alerts EXCEPT ![k] = a] = DOMAIN state.alerts
    BY <1>1
  <2>2. /\ state' \in Builder /\ state'.profiles = state.profiles
        /\ state'.default = state.default /\ state'.rules = state.rules
        /\ DOMAIN state'.alerts = DOMAIN state.alerts
    BY <1>1, <1>3, <2>1 DEF Builder
  <2> QED BY <2>2 DEF Normal, ProfileIds
<1>4. ASSUME NEW c \in Sourced(old.condition),
             state' = [state EXCEPT !.alerts[k].condition = c]
      PROVE  Normal(state')
  <2>1. c \in Condition
    BY <1>2, ConditionedType
  <2>2. [old EXCEPT !.condition = c] \in Alert
    BY <1>2, <2>1 DEF Alert
  <2>3. state' = [state EXCEPT !.alerts =
                    [state.alerts EXCEPT ![k] = [old EXCEPT !.condition = c]]]
    BY <1>4
  <2> QED BY <1>3, <2>2, <2>3
<1>5. CASE state' = [state EXCEPT !.alerts[k] = Toggled(@)]
  <2>1. state' = [state EXCEPT !.alerts = [state.alerts EXCEPT ![k] = Toggled(old)]]
    BY <1>5
  <2>2. Toggled(old) \in Alert
    <3> DEFINE on == old.condition.enabled \/ ~old.enabled
    <3>1. on \in BOOLEAN
      OBVIOUS
    <3>2. Toggled(old) = [old EXCEPT !.enabled = ~old.enabled, !.condition.enabled = on]
      BY DEF Toggled
    <3> HIDE DEF on
    <3>3. Toggled(old) = [enabled |-> ~old.enabled,
                          condition |-> [old.condition EXCEPT !.enabled = on]]
      BY <1>2, <3>2 DEF Alert
    <3>4. [old.condition EXCEPT !.enabled = on] \in Condition
      BY <1>2, <3>1 DEF Condition
    <3> QED BY <3>3, <3>4 DEF Alert
  <2> QED BY <1>3, <2>1, <2>2
<1> QED BY <1>4, <1>5 DEF EditAlert

LEMMA SwitchedBuilder ==
  ASSUME NEW b, Normal(b), NEW on \in BOOLEAN, NEW new, new = [b EXCEPT !.enabled = on]
  PROVE  Normal(new) /\ new.alerts = b.alerts
<1>1. /\ new \in Builder /\ new.profiles = b.profiles /\ new.rules = b.rules
      /\ new.default = b.default /\ new.alerts = b.alerts
  BY DEF Normal, Builder
<1> QED BY <1>1, ProfilesEdited, NormalParts

(* What is saved and loaded back is what was shown, releases in force.     *)
LEMMA SavedIsShown ==
  ASSUME NEW b, Normal(b), DistinctIds(b), ~Fresh(b), ~Legacy(b)
  PROVE  InEffect(Shown(b)) = InEffect(WithDefault(b))
<1> DEFINE sent == Serialize(b)
           read == [i \in DOMAIN b.profiles |->
                      [id |-> b.profiles[i].id,
                       exclusive |-> b.profiles[i].exclusive \/ b.profiles[i].id = b.default,
                       release |-> Reread(b.profiles[i].release)]]
           felt == [i \in DOMAIN b.profiles |->
                      [id |-> b.profiles[i].id,
                       exclusive |-> b.profiles[i].exclusive \/ b.profiles[i].id = b.default,
                       release |-> InForce(b.profiles[i].release)]]
<1>1. /\ b \in Builder /\ b.profiles \in Seq(Profile) /\ Len(b.profiles) \in 1 .. MaxProfiles
      /\ b.rules \in Seq(Rule) /\ Len(b.rules) \in 0 .. MaxRules
      /\ b.default \in ProfileIds(b) /\ ProfileIds(b) \subseteq Ids
      /\ \A k \in DOMAIN b.rules : b.rules[k].profile \in ProfileIds(b)
  BY NormalParts DEF Normal
<1>2. /\ sent \in RawBuilder /\ sent.profiles = SentProfiles(b) /\ sent.rules = b.rules
      /\ sent.default = b.default /\ sent.alerts = b.alerts
      /\ sent = [b EXCEPT !.profiles = SentProfiles(b)]
  <2>1. sent = [b EXCEPT !.profiles = SentProfiles(b)]
    BY SerializedParts
  <2>2. sent \in RawBuilder
    BY SerializedBuilder DEF Storable
  <2> HIDE DEF sent
  <2> QED BY <1>1, <2>1, <2>2 DEF Builder
<1>3. ASSUME NEW i \in DOMAIN b.profiles
      PROVE  /\ b.profiles[i] \in Profile /\ b.profiles[i].id \in Ids
             /\ b.profiles[i].release \in Release
             /\ (b.profiles[i].exclusive \/ b.profiles[i].id = b.default) \in BOOLEAN
  <2>1. b.profiles[i] \in Profile
    BY <1>1
  <2> QED BY <2>1 DEF Profile
<1> HIDE DEF sent
(* Reading what was sent changes nothing but the releases.                 *)
<1>4. NormalizeBuilder(sent) = [b EXCEPT !.profiles = read]
  <2> DEFINE listed == IF sent.profiles = <<>> THEN <<NewProfile(0, FALSE)>>
                       ELSE FirstOf(sent.profiles, MaxProfiles)
             normal == [i \in DOMAIN listed |-> NormalizeProfile(listed[i])]
             ids == {normal[i].id : i \in DOMAIN normal}
             first == normal[1].id
             default == IF sent.default \in ids THEN sent.default ELSE first
             some == FirstOf(sent.rules, MaxRules)
             rules == [k \in DOMAIN some |-> NormalizeRule(some[k], ids, first)]
  <2>1. NormalizeBuilder(sent)
          = [sent EXCEPT !.default = default, !.profiles = ForceDefault(normal, default),
                         !.rules = rules, !.alerts = AlertList(sent.alerts)]
    BY DEF NormalizeBuilder, Mapped
  <2>2. ASSUME NEW S, NEW list \in Seq(S), NEW n \in Nat, Len(list) <= n
        PROVE  FirstOf(list, n) = list
    <3>1. FirstOf(list, n) = SubSeq(list, 1, Len(list))
      BY <2>2 DEF FirstOf
    <3> QED BY <3>1
  <2>3. listed = SentProfiles(b)
    <3>1. /\ SentProfiles(b) \in Seq(Profile) /\ SentProfiles(b) # <<>>
          /\ Len(SentProfiles(b)) <= MaxProfiles /\ MaxProfiles \in Nat
      BY <1>1, SentAreProfiles, BuilderSizes
    <3>2. FirstOf(SentProfiles(b), MaxProfiles) = SentProfiles(b)
      BY <2>2, <3>1
    <3> QED BY <1>2, <3>1, <3>2
  <2>4. some = b.rules
    BY <1>1, <1>2, <2>2, BuilderSizes
  <2> HIDE DEF listed, some
  <2>5. normal = read
    <3>1. ASSUME NEW i \in DOMAIN b.profiles
          PROVE  NormalizeProfile(SentProfiles(b)[i]) = read[i]
      <4> DEFINE p == SentProfiles(b)[i]
      <4>1. p = [id |-> b.profiles[i].id,
                 exclusive |-> b.profiles[i].exclusive \/ b.profiles[i].id = b.default,
                 release |-> SentRelease(b.profiles[i].release)]
        BY DEF SentProfiles
      <4>2. p \in RawProfile
        <5>1. SentRelease(b.profiles[i].release) \in Release
          BY <1>3, ReleaseIsReread
        <5>2. b.profiles[i].id \in Nat
          BY <1>3 DEF Ids
        <5> HIDE DEF p
        <5> QED BY <1>3, <4>1, <5>1, <5>2 DEF RawProfile
      <4>3. Clamp(b.profiles[i].id) = b.profiles[i].id
        BY <1>3, ClampedId
      <4> HIDE DEF p
      <4>4. NormalizeProfile(p) =
              [id |-> Clamp(p.id), exclusive |-> p.exclusive,
               release |-> [on |-> p.release.on,
                            rate |-> IF p.release.rate = "zero" THEN "usual"
                                     ELSE p.release.rate]]
        BY <4>2, NormalizedProfile
      <4>5. p.id = b.profiles[i].id /\ p.release = SentRelease(b.profiles[i].release)
            /\ p.exclusive = (b.profiles[i].exclusive \/ b.profiles[i].id = b.default)
        BY <4>1
      <4>6. NormalizeProfile(p) = read[i]
        BY <4>3, <4>4, <4>5 DEF Reread
      <4> QED BY <4>6 DEF p
    <3>2. DOMAIN listed = DOMAIN b.profiles
      BY <2>3, SentAreProfiles
    <3>3. normal = [i \in DOMAIN b.profiles |-> NormalizeProfile(SentProfiles(b)[i])]
      BY <2>3, <3>2
    <3>4. read = [i \in DOMAIN b.profiles |-> read[i]]
      OBVIOUS
    <3> HIDE DEF normal, read
    <3> QED BY <3>1, <3>3, <3>4
  <2> HIDE DEF normal
  <2>6. ids = ProfileIds(b)
    <3>1. DOMAIN read = DOMAIN b.profiles
          /\ \A i \in DOMAIN b.profiles : read[i].id = b.profiles[i].id
      OBVIOUS
    <3> HIDE DEF read
    <3> QED BY <2>5, <3>1 DEF ProfileIds
  <2> HIDE DEF ids, first
  <2>7. default = b.default
    BY <1>1, <1>2, <2>6
  <2> HIDE DEF default
  <2>8. rules = b.rules
    BY <1>1, <2>4, <2>6, NormalRules
  <2> HIDE DEF rules
  (* The default is exclusive already. *)
  <2>9. ForceDefault(read, b.default) = read
    <3> DEFINE one(i) == /\ read[i].id = b.default
                         /\ \A j \in 1 .. i - 1 : read[j].id # b.default
    <3>1. ForceDefault(read, b.default)
            = [i \in DOMAIN read |->
                 IF one(i) THEN [read[i] EXCEPT !.exclusive = TRUE] ELSE read[i]]
      BY DEF ForceDefault
    <3>2. ASSUME NEW i \in DOMAIN read, one(i)
          PROVE  [read[i] EXCEPT !.exclusive = TRUE] = read[i]
      <4>1. i \in DOMAIN b.profiles
        OBVIOUS
      <4>2. read[i] = [id |-> b.profiles[i].id, exclusive |-> TRUE,
                       release |-> Reread(b.profiles[i].release)]
        BY <3>2, <4>1
      <4> DEFINE r == read[i]
                 e == TRUE
                 release == Reread(b.profiles[i].release)
      <4>3. r = [id |-> b.profiles[i].id, exclusive |-> e, release |-> release]
        BY <4>2
      <4> HIDE DEF r, e, release
      <4>4. [r EXCEPT !.exclusive = e] = r
        BY <4>3
      <4> QED BY <4>4 DEF r, e
    <3>3. read = [i \in DOMAIN read |-> read[i]]
      OBVIOUS
    <3> HIDE DEF read, one
    <3> QED BY <3>1, <3>2, <3>3
  <2>10. AlertList(sent.alerts) = b.alerts
    BY <1>1, <1>2, PaddedAlerts DEF Normal, Builder
  <2> HIDE DEF read
  <2>11. NormalizeBuilder(sent)
           = [sent EXCEPT !.default = b.default, !.profiles = read,
                          !.rules = b.rules, !.alerts = b.alerts]
    BY <2>1, <2>5, <2>7, <2>8, <2>9, <2>10
  <2> QED BY <1>1, <1>2, <2>11 DEF Builder
<1>5. Shown(b) = [b EXCEPT !.profiles = read]
  <2> DEFINE back == [b EXCEPT !.profiles = read]
  <2>1. Len(read) = Len(b.profiles)
    <3>1. DOMAIN b.profiles = 1 .. Len(b.profiles) /\ Len(b.profiles) \in Nat
      BY <1>1
    <3>2. DOMAIN read = 1 .. Len(b.profiles)
      BY <3>1
    <3> HIDE DEF read
    <3> QED BY <3>1, <3>2
  <2> HIDE DEF read
  <2>2. back.profiles = read /\ back.rules = b.rules
    BY <1>1 DEF Builder
  <2> HIDE DEF back
  <2>3. ~Fresh(back) /\ ~Legacy(back)
    BY <2>1, <2>2 DEF Fresh, Legacy
  <2>4. Shown(b) = Seeded(back)
    BY <1>4 DEF Shown, sent, back
  <2> QED BY <2>3, <2>4 DEF Seeded, back
<1>6. InEffect(Shown(b)) = [b EXCEPT !.profiles = felt]
  <2> DEFINE back == [b EXCEPT !.profiles = read]
  <2>1. back.profiles = read
    BY <1>1 DEF Builder
  <2>2. ASSUME NEW i \in DOMAIN b.profiles
        PROVE  [read[i] EXCEPT !.release = InForce(@)] = felt[i]
    <3>1. InForce(Reread(b.profiles[i].release)) = InForce(b.profiles[i].release)
      BY <1>3, ReleaseIsReread
    <3> QED BY <3>1
  <2>3. DOMAIN read = DOMAIN b.profiles /\ felt = [i \in DOMAIN b.profiles |-> felt[i]]
    OBVIOUS
  <2> HIDE DEF read, felt
  <2>4. [i \in DOMAIN read |-> [read[i] EXCEPT !.release = InForce(@)]] = felt
    BY <2>2, <2>3
  <2>5. InEffect(back) = [back EXCEPT !.profiles = felt]
    BY <2>1, <2>4 DEF InEffect, Mapped
  <2> QED BY <1>1, <1>5, <2>5 DEF Builder
<1>7. InEffect(WithDefault(b)) = [b EXCEPT !.profiles = felt]
  <2> DEFINE forced == ForceDefault(b.profiles, b.default)
             first(i) == /\ b.profiles[i].id = b.default
                         /\ \A j \in 1 .. i - 1 : b.profiles[j].id # b.default
             back == [b EXCEPT !.profiles = forced]
  <2>1. ASSUME NEW i \in DOMAIN b.profiles PROVE first(i) <=> b.profiles[i].id = b.default
    <3>1. ASSUME b.profiles[i].id = b.default, NEW j \in 1 .. i - 1
          PROVE  b.profiles[j].id # b.default
      <4>1. j \in DOMAIN b.profiles /\ j # i
        BY <1>1
      <4> QED BY <3>1, <4>1 DEF DistinctIds
    <3> QED BY <3>1
  <2>2. forced = [i \in DOMAIN b.profiles |->
                    IF first(i) THEN [b.profiles[i] EXCEPT !.exclusive = TRUE]
                    ELSE b.profiles[i]]
    BY DEF ForceDefault
  <2> HIDE DEF first, forced
  <2>3. ASSUME NEW i \in DOMAIN b.profiles
        PROVE  [forced[i] EXCEPT !.release = InForce(@)] = felt[i]
    <3>1. forced[i] = IF b.profiles[i].id = b.default
                      THEN [b.profiles[i] EXCEPT !.exclusive = TRUE] ELSE b.profiles[i]
      BY <2>1, <2>2
    <3> DEFINE e == b.profiles[i].exclusive \/ b.profiles[i].id = b.default
               old == b.profiles[i]
    <3>2. felt[i] = [id |-> old.id, exclusive |-> e, release |-> InForce(old.release)]
      OBVIOUS
    <3>3. old = [id |-> old.id, exclusive |-> old.exclusive, release |-> old.release]
          /\ old.exclusive \in BOOLEAN
      BY <1>3 DEF Profile
    <3>4. CASE old.id = b.default
      <4>1. e = TRUE
        BY <3>4
      <4>2. forced[i] = [old EXCEPT !.exclusive = e]
        BY <3>1, <3>4, <4>1
      <4> HIDE DEF e, old, felt
      <4>3. forced[i] = [id |-> old.id, exclusive |-> e, release |-> old.release]
        BY <3>3, <4>2
      <4> QED BY <3>2, <4>3
    <3>5. CASE old.id # b.default
      <4>1. e = old.exclusive
        BY <3>3, <3>5
      <4>2. forced[i] = old
        BY <3>1, <3>5
      <4> HIDE DEF e, old, felt
      <4> QED BY <3>2, <3>3, <4>1, <4>2
    <3> QED BY <3>4, <3>5
  <2>4. DOMAIN forced = DOMAIN b.profiles /\ felt = [i \in DOMAIN b.profiles |-> felt[i]]
    BY <2>2
  <2> HIDE DEF felt
  <2>5. [i \in DOMAIN forced |-> [forced[i] EXCEPT !.release = InForce(@)]] = felt
    BY <2>3, <2>4
  <2>6. back.profiles = forced
    BY <1>1 DEF Builder
  <2>7. InEffect(back) = [back EXCEPT !.profiles = felt]
    BY <2>5, <2>6 DEF InEffect, Mapped
  <2>8. WithDefault(b) = back
    BY DEF WithDefault, forced
  <2> QED BY <1>1, <2>7, <2>8 DEF Builder
<1> QED BY <1>6, <1>7

LEMMA BuilderInitially == WebPagesInit => BuilderInv
<1> SUFFICES ASSUME WebPagesInit PROVE BuilderInv
  OBVIOUS
<1>1. saved \in Builders /\ state = NoBuilder /\ alerts_touched = FALSE
  <2>1. Opened("behavior", Builders) \subseteq Builders
    BY BehaviorBuilderAssumption DEF Opened
  <2> QED BY <2>1 DEF WebPagesInit, BuilderInit
<1>2. Storable(saved)
  BY <1>1, BehaviorBuilderAssumption DEF Storable
<1>3. ASSUME page = "behavior" PROVE AreCalls /\ \A c \in CallSlots : BuilderCall(c)
  <2> DEFINE first == <<Sent("load", NoBuilder)>>
  <2>1. CallsInit(first)
    BY <1>3 DEF WebPagesInit, BuilderInit
  <2>2. AreCalls
    BY <2>1 DEF CallsInit, AreCalls
  <2>3. ASSUME NEW c \in CallSlots PROVE BuilderCall(c)
    <3>1. calls[c] = IF c \in DOMAIN first THEN first[c] ELSE NoCall
      BY <2>1 DEF CallsInit
    <3>2. DOMAIN first = {1} /\ first[1] = Sent("load", NoBuilder)
      OBVIOUS
    <3>3. calls[c] = NoCall \/ calls[c] = Sent("load", NoBuilder)
      BY <3>1, <3>2
    <3> QED BY <3>3 DEF BuilderCall, Sent
  <2> QED BY <2>2, <2>3
<1> QED BY <1>1, <1>2, <1>3 DEF BuilderInv

(* What a step has to show besides the call that it moves on.              *)
AlertsKept ==
  /\ alerts_touched' \in BOOLEAN
  /\ ~alerts_touched' =>
       ~alerts_touched /\ AlertList(saved'.alerts) = AlertList(saved.alerts)
StateKept ==
  /\ state # NoBuilder => state' # NoBuilder
  /\ state' # NoBuilder =>
       /\ Normal(state')
       /\ ~alerts_touched' => AlertList(state'.alerts) = AlertList(saved'.alerts)

LEMMA OneBuilderCall ==
  ASSUME BuilderInv, page = "behavior", page' = "behavior", AlertsKept, StateKept,
         Storable(saved'), NEW c \in CallSlots, NEW STATE call, Put(c, call), BuilderCall(c)'
  PROVE  BuilderInv'
<1>1. /\ AreCalls' /\ calls'[c] = call
      /\ \A d \in CallSlots : d # c => calls'[d] = calls[d]
  BY PutOne DEF BuilderInv
<1>2. ASSUME NEW d \in CallSlots, d # c PROVE BuilderCall(d)'
  <2>1. BuilderCall(d) /\ calls'[d] = calls[d]
    BY <1>1, <1>2 DEF BuilderInv
  <2> QED BY <2>1 DEF BuilderCall, AlertsKept, StateKept, SameAlerts
<1> QED BY <1>1, <1>2 DEF BuilderInv, AlertsKept, StateKept, SameAlerts

LEMMA NoBuilderCall ==
  ASSUME BuilderInv, page = "behavior", page' = "behavior", AlertsKept, StateKept,
         Storable(saved'), UNCHANGED calls
  PROVE  BuilderInv'
<1>1. ASSUME NEW d \in CallSlots PROVE BuilderCall(d)'
  <2>1. BuilderCall(d)
    BY DEF BuilderInv
  <2> QED BY <2>1 DEF BuilderCall, AlertsKept, StateKept, SameAlerts
<1> QED BY <1>1 DEF BuilderInv, AlertsKept, StateKept, SameAlerts, AreCalls

LEMMA NothingMoves ==
  ASSUME BuilderInv, UNCHANGED <<saved, state, alerts_touched>>
  PROVE  AlertsKept /\ StateKept /\ Storable(saved')
  BY DEF BuilderInv, AlertsKept, StateKept, SameAlerts

LEMMA BuilderAnswer ==
  ASSUME BuilderInv, page = "behavior", page' = "behavior", NEW c \in CallSlots,
         BuilderAnswers(c)
  PROVE  BuilderInv'
<1>0. UNCHANGED <<state, alerts_touched>> /\ Storable(saved) /\ AreCalls
  BY DEF BuilderInv, BuilderAnswers
<1>1. BuilderCall(c)
  BY DEF BuilderInv
<1>2. CASE IsSent(c, "load") /\ UNCHANGED saved /\ Put(c, Done(c, saved))
  <2>1. calls[c] \in [op : {"load"}, at : {"sent"}, body : {NoBuilder}]
    BY <1>1, <1>2 DEF IsSent, BuilderCall, NoCall
  <2>2. calls'[c] = Done(c, saved)
    BY <1>0, <1>2, PutOne
  <2>3. calls'[c] \in [op : {"load"}, at : {"done"}, body : RawBuilder]
        /\ calls'[c].body = saved
    BY <1>0, <2>1, <2>2 DEF Done, Storable
  <2>4. BuilderCall(c)'
    BY <1>2, <2>3 DEF BuilderCall, SameAlerts
  <2> QED BY <1>0, <1>2, <2>4, NothingMoves, OneBuilderCall
<1>3. CASE IsSent(c, "save") /\ saved' = calls[c].body /\ Put(c, Done(c, saved'))
  <2>1. /\ calls[c] \in [op : {"save"}, at : {"sent", "done"}, body : RawBuilder]
        /\ ForcesDefault(calls[c].body) /\ SameAlerts(calls[c].body)
    BY <1>1, <1>3 DEF IsSent, BuilderCall, NoCall
  <2>2. calls'[c] = [op |-> calls[c].op, at |-> "done", body |-> saved']
    BY <1>0, <1>3 DEF Done, Put, AreCalls
  <2>3. calls'[c] \in [op : {"save"}, at : {"sent", "done"}, body : RawBuilder]
        /\ calls'[c].body = saved'
    BY <1>3, <2>1, <2>2
  <2>4. BuilderCall(c)'
    BY <1>3, <2>1, <2>3 DEF BuilderCall, SameAlerts
  <2>5. saved' \in RawBuilder /\ ForcesDefault(saved')
        /\ (~alerts_touched => AlertList(saved'.alerts) = AlertList(saved.alerts))
    BY <1>3, <2>1 DEF SameAlerts
  <2>6. AlertsKept /\ StateKept /\ Storable(saved')
    BY <1>0, <2>5 DEF BuilderInv, AlertsKept, StateKept, SameAlerts, Storable
  <2>7. ASSUME NEW d \in CallSlots, d # c PROVE BuilderCall(d)'
    <3>1. BuilderCall(d) /\ calls'[d] = calls[d]
      BY <1>0, <1>3, <2>7 DEF BuilderInv, Put
    <3> QED BY <2>6, <3>1 DEF BuilderCall, AlertsKept, StateKept, SameAlerts
  <2>8. AreCalls'
    BY <1>0, <1>3 DEF Put, AreCalls
  <2> QED BY <2>4, <2>6, <2>7, <2>8
          DEF BuilderInv, AlertsKept, StateKept, SameAlerts
<1>4. CASE /\ IsSent(c, "toggle") /\ saved' = [saved EXCEPT !.enabled = calls[c].body.enabled]
           /\ Put(c, Done(c, saved'))
  <2>1. /\ calls[c] \in [op : {"toggle"}, at : {"sent", "done"}, body : RawBuilder]
        /\ state # NoBuilder
    BY <1>1, <1>4 DEF IsSent, BuilderCall, NoCall
  <2>2. calls'[c] = [op |-> calls[c].op, at |-> "done", body |-> saved']
    BY <1>0, <1>4 DEF Done, Put, AreCalls
  <2>3. calls[c].body.enabled \in BOOLEAN
    BY <2>1 DEF RawBuilder
  <2>4. /\ saved' \in RawBuilder /\ saved'.alerts = saved.alerts
        /\ saved'.profiles = saved.profiles /\ saved'.default = saved.default
    BY <1>0, <1>4, <2>3 DEF Storable, RawBuilder
  <2>5. calls'[c] \in [op : {"toggle"}, at : {"sent", "done"}, body : RawBuilder]
    BY <2>1, <2>2, <2>4
  <2>6. AlertsKept /\ StateKept /\ Storable(saved')
    BY <1>0, <2>4
       DEF BuilderInv, AlertsKept, StateKept, SameAlerts, Storable, ForcesDefault
  <2>7. BuilderCall(c)'
    BY <1>0, <2>1, <2>5 DEF BuilderCall
  <2>8. ASSUME NEW d \in CallSlots, d # c PROVE BuilderCall(d)'
    <3>1. BuilderCall(d) /\ calls'[d] = calls[d]
      BY <1>0, <1>4, <2>8 DEF BuilderInv, Put
    <3> QED BY <2>6, <3>1 DEF BuilderCall, AlertsKept, StateKept, SameAlerts
  <2>9. AreCalls'
    BY <1>0, <1>4 DEF Put, AreCalls
  <2> QED BY <2>6, <2>7, <2>8, <2>9
          DEF BuilderInv, AlertsKept, StateKept, SameAlerts
<1> QED BY <1>2, <1>3, <1>4 DEF BuilderAnswers

(* A handler that goes on or fails.                                        *)
LEMMA BuilderGoesOn ==
  ASSUME BuilderInv, page = "behavior", page' = "behavior", NEW c \in CallSlots,
         FinishLoad(c) \/ FinishSave(c) \/ BuilderCallFails(c)
  PROVE  BuilderInv'
<1>1. BuilderCall(c) /\ AreCalls /\ Storable(saved)
  BY DEF BuilderInv
<1>2. ASSUME Ends(c) PROVE Put(c, NoCall) /\ BuilderCall(c)'
  BY <1>1, <1>2, PutOne DEF Ends, BuilderCall
<1>3. CASE FinishLoad(c)
  <2> DEFINE body == calls[c].body
  <2>1. IsDone(c, "load") /\ Ends(c) /\ UNCHANGED <<saved, alerts_touched>>
        /\ state' = Seeded(NormalizeBuilder(body))
    BY <1>3 DEF FinishLoad
  <2>2. body \in RawBuilder /\ SameAlerts(body)
    BY <1>1, <2>1 DEF IsDone, BuilderCall, NoCall
  <2> HIDE DEF body
  <2>3. Normal(state') /\ AlertList(state'.alerts) = AlertList(body.alerts)
    <3>1. body.alerts \in Seq(Alert)
      BY <2>2 DEF RawBuilder
    <3>2. Normal(state') /\ state'.alerts = AlertList(body.alerts)
      BY <2>1, <2>2, NormalizedBuilder, SeededBuilder
    <3> QED BY <3>1, <3>2, FullAlerts
  <2>4. AlertsKept /\ StateKept
    BY <2>1, <2>2, <2>3, NoBuilderIsNone
       DEF AlertsKept, StateKept, SameAlerts, BuilderInv
  <2> QED BY <1>1, <1>2, <2>1, <2>4, OneBuilderCall
<1>4. CASE FinishSave(c)
  <2>1. Put(c, Sent("load", NoBuilder)) /\ UNCHANGED <<saved, state, alerts_touched>>
    BY <1>4 DEF FinishSave
  <2>2. calls'[c] = Sent("load", NoBuilder)
    BY <1>1, <2>1, PutOne
  <2>3. BuilderCall(c)'
    BY <2>2 DEF BuilderCall, Sent
  <2> QED BY <2>1, <2>3, NothingMoves, OneBuilderCall
<1>5. CASE BuilderCallFails(c)
  <2>1. Ends(c) /\ UNCHANGED <<saved, alerts_touched>>
    BY <1>5 DEF BuilderCallFails, Fails
  <2>2. CASE calls[c].op # "toggle"
    <3>1. state' = state
      BY <1>5, <2>2 DEF BuilderCallFails
    <3> QED BY <1>2, <2>1, <3>1, NothingMoves, OneBuilderCall
  <2>3. CASE calls[c].op = "toggle"
    <3>1. calls[c].body \in RawBuilder /\ state # NoBuilder
      BY <1>1, <2>3 DEF BuilderCall, NoCall
    <3>2. state' = [state EXCEPT !.enabled = ~calls[c].body.enabled]
      BY <1>5, <2>3 DEF BuilderCallFails
    <3>3. Normal(state) /\ SameAlerts(state)
      BY <3>1 DEF BuilderInv
    <3>4. Normal(state') /\ state'.alerts = state.alerts
      BY <3>2, <3>3, SwitchedBuilder
    <3>5. AlertsKept /\ StateKept
      BY <2>1, <3>3, <3>4, NoBuilderIsNone
         DEF AlertsKept, StateKept, SameAlerts, BuilderInv
    <3> QED BY <1>1, <1>2, <2>1, <3>5, OneBuilderCall
  <2> QED BY <2>2, <2>3
<1> QED BY <1>3, <1>4, <1>5

LEMMA BuilderStarts ==
  ASSUME BuilderInv, page = "behavior", page' = "behavior", AlertsKept, StateKept,
         UNCHANGED saved, NEW STATE call, Start(call),
         \/ call \in [op : {"load"}, at : {"sent"}, body : {NoBuilder}]
         \/ /\ call \in [op : {"save"}, at : {"sent"}, body : RawBuilder]
            /\ ForcesDefault(call.body)
            /\ ~alerts_touched' => AlertList(call.body.alerts) = AlertList(saved.alerts)
         \/ call \in [op : {"toggle"}, at : {"sent"}, body : RawBuilder] /\ state # NoBuilder
  PROVE  BuilderInv'
<1>1. PICK d \in CallSlots : Put(d, call)
  BY DEF Start
<1>2. calls'[d] = call
  BY <1>1, PutOne DEF BuilderInv
<1>3. BuilderCall(d)'
  BY <1>2 DEF BuilderCall, SameAlerts, StateKept
<1>4. Storable(saved')
  BY DEF BuilderInv
<1> QED BY <1>1, <1>3, <1>4, OneBuilderCall

(* The user saves, switches the builder, imports a file.                   *)
LEMMA BuilderSaves ==
  ASSUME BuilderInv, page = "behavior", page' = "behavior", state # NoBuilder, SaveBuilder
  PROVE  BuilderInv'
<1>1. UNCHANGED <<saved, state, alerts_touched>> /\ Start(Sent("save", Serialize(state)))
  BY DEF SaveBuilder
<1>2. Normal(state) /\ SameAlerts(state)
  BY DEF BuilderInv
<1> DEFINE sent == Serialize(state)
<1>3. sent \in RawBuilder /\ ForcesDefault(sent) /\ sent.alerts = state.alerts
  BY <1>2, SerializedBuilder DEF Storable
<1> HIDE DEF sent
<1>4. Sent("save", sent) \in [op : {"save"}, at : {"sent"}, body : RawBuilder]
      /\ Sent("save", sent).body = sent
  BY <1>3 DEF Sent
<1>5. ~alerts_touched' => AlertList(sent.alerts) = AlertList(saved.alerts)
  BY <1>1, <1>2, <1>3 DEF SameAlerts
<1>6. Start(Sent("save", sent))
  BY <1>1 DEF sent
<1> QED BY <1>1, <1>3, <1>4, <1>5, <1>6, NothingMoves, BuilderStarts

LEMMA BuilderSwitches ==
  ASSUME BuilderInv, page = "behavior", page' = "behavior", state # NoBuilder, ToggleEnabled
  PROVE  BuilderInv'
<1> DEFINE sent == [NoBuilder EXCEPT !.enabled = ~state.enabled]
<1>1. /\ state' = [state EXCEPT !.enabled = ~@] /\ UNCHANGED <<saved, alerts_touched>>
      /\ Start(Sent("toggle", sent))
  BY DEF ToggleEnabled
<1>2. Normal(state) /\ SameAlerts(state) /\ (~state.enabled) \in BOOLEAN
  BY DEF BuilderInv
<1>3. Normal(state') /\ state'.alerts = state.alerts
  <2>1. state' = [state EXCEPT !.enabled = ~state.enabled]
    BY <1>1
  <2> QED BY <1>2, <2>1, SwitchedBuilder
<1>4. AlertsKept /\ StateKept
  BY <1>1, <1>2, <1>3, NoBuilderIsNone DEF AlertsKept, StateKept, SameAlerts, BuilderInv
<1>5. sent \in RawBuilder
  BY NoBuilderIsNone, <1>2 DEF RawBuilder
<1> HIDE DEF sent
<1>6. Sent("toggle", sent) \in [op : {"toggle"}, at : {"sent"}, body : RawBuilder]
  BY <1>5 DEF Sent
<1> QED BY <1>1, <1>4, <1>6, BuilderStarts

LEMMA ImportSent ==
  ASSUME BuilderInv, page = "behavior", page' = "behavior", Normal(state'),
         AlertsKept, StateKept, UNCHANGED saved,
         Start(Sent("save", Serialize(state'))) \/ UNCHANGED calls
  PROVE  BuilderInv'
<1>1. CASE Start(Sent("save", Serialize(state')))
  <2> DEFINE sent == Serialize(state')
  <2>1. sent \in RawBuilder /\ ForcesDefault(sent) /\ sent.alerts = state'.alerts
    BY SerializedBuilder DEF Storable
  <2>2. ~alerts_touched' => AlertList(sent.alerts) = AlertList(saved.alerts)
    BY <2>1, NoBuilderIsNone DEF StateKept
  <2>3. Start(Sent("save", sent))
    BY <1>1
  <2> HIDE DEF sent
  <2> DEFINE call == Sent("save", sent)
  <2>4. call \in [op : {"save"}, at : {"sent"}, body : RawBuilder] /\ call.body = sent
    BY <2>1 DEF Sent
  <2>5. PICK d \in CallSlots : Put(d, call)
    BY <2>3 DEF Start
  <2> HIDE DEF call
  <2>6. /\ AreCalls' /\ calls'[d] = call
        /\ \A e \in CallSlots : e # d => calls'[e] = calls[e]
    BY <2>5 DEF Put, BuilderInv, AreCalls
  <2>7. BuilderCall(d)'
    BY <2>1, <2>2, <2>4, <2>6 DEF BuilderCall, SameAlerts
  <2>8. ASSUME NEW e \in CallSlots, e # d PROVE BuilderCall(e)'
    <3>1. BuilderCall(e) /\ calls'[e] = calls[e]
      BY <2>6, <2>8 DEF BuilderInv
    <3> QED BY <3>1 DEF BuilderCall, AlertsKept, StateKept, SameAlerts
  <2> QED BY <2>6, <2>7, <2>8 DEF BuilderInv, AlertsKept, StateKept, SameAlerts
<1>2. CASE UNCHANGED calls
  <2>1. Storable(saved')
    BY DEF BuilderInv
  <2> QED BY <1>2, <2>1, NoBuilderCall
<1> QED BY <1>1, <1>2

LEMMA BuilderImports ==
  ASSUME BuilderInv, page = "behavior", page' = "behavior", NEW file \in Files, Import(file)
  PROVE  BuilderInv'
<1> DEFINE normal == NormalizeBuilder(file)
           sent == Serialize(state')
<1>1. /\ state' = Imported(file) /\ UNCHANGED saved
      /\ alerts_touched' = (alerts_touched \/ state = NoBuilder)
      /\ Start(Sent("save", sent)) \/ UNCHANGED calls
  BY DEF Import
<1>2. file \in RawBuilder
  BY BehaviorBuilderAssumption
<1>3. Normal(normal)
  BY <1>2, NormalizedBuilder
<1> HIDE DEF normal
<1>4. CASE state = NoBuilder
  <2>1. Normal(state') /\ alerts_touched' = TRUE
    BY <1>1, <1>3, <1>4 DEF Imported, normal
  <2>2. AlertsKept /\ StateKept
    BY <1>4, <2>1 DEF AlertsKept, StateKept
  <2> QED BY <1>1, <2>1, <2>2, ImportSent
<1>5. CASE state # NoBuilder
  <2>1. Normal(state) /\ SameAlerts(state) /\ alerts_touched' = alerts_touched
    BY <1>1, <1>5 DEF BuilderInv
  <2>2. state' = [normal EXCEPT !.alerts = state.alerts]
    BY <1>1, <1>5 DEF Imported, normal
  <2>3. /\ state.alerts \in Seq(Alert) /\ normal \in Builder
        /\ DOMAIN state.alerts = DOMAIN normal.alerts
    BY <1>3, <2>1 DEF Normal, Builder
  <2>4. /\ state' \in Builder /\ state'.profiles = normal.profiles
        /\ state'.rules = normal.rules /\ state'.default = normal.default
        /\ state'.alerts = state.alerts
    BY <2>2, <2>3 DEF Builder
  <2>5. Normal(state')
    BY <1>3, <2>3, <2>4, ProfilesEdited, NormalParts
  <2>6. AlertsKept /\ StateKept
    BY <1>1, <2>1, <2>4, <2>5, NoBuilderIsNone
       DEF AlertsKept, StateKept, SameAlerts, BuilderInv
  <2> QED BY <1>1, <2>5, <2>6, ImportSent
<1> QED BY <1>4, <1>5

LEMMA BuilderStep == BuilderInv /\ [WebPagesNext]_WebPagesVars => BuilderInv'
<1> SUFFICES ASSUME BuilderInv, [WebPagesNext]_WebPagesVars PROVE BuilderInv'
  OBVIOUS
<1>0. page' = page
  BY DEF WebPagesNext, WebPagesVars, pageVars
<1>1. CASE UNCHANGED builderVars /\ (page = "behavior" => UNCHANGED calls)
  <2>1. UNCHANGED <<saved, state, alerts_touched>>
    BY <1>1 DEF builderVars
  <2>2. CASE page = "behavior"
    BY <1>0, <1>1, <2>1, <2>2, NothingMoves, NoBuilderCall
  <2>3. CASE page # "behavior"
    BY <1>0, <2>1, <2>3 DEF BuilderInv, SameAlerts
  <2> QED BY <2>2, <2>3
<1>2. CASE page = "behavior" /\ BuilderNext
  <2>0. page = "behavior" /\ page' = "behavior"
    BY <1>0, <1>2
  <2>1. ASSUME NEW c \in CallSlots,
               BuilderAnswers(c) \/ FinishLoad(c) \/ FinishSave(c) \/ BuilderCallFails(c)
        PROVE  BuilderInv'
    BY <2>0, <2>1, BuilderAnswer, BuilderGoesOn
  <2>2. CASE LoadBuilder
    <3>1. UNCHANGED <<saved, state, alerts_touched>> /\ Start(Sent("load", NoBuilder))
      BY <2>2 DEF LoadBuilder
    <3>2. Sent("load", NoBuilder) \in [op : {"load"}, at : {"sent"}, body : {NoBuilder}]
      BY DEF Sent
    <3> QED BY <2>0, <3>1, <3>2, NothingMoves, BuilderStarts
  <2>3. ASSUME NEW file \in Files, Import(file) PROVE BuilderInv'
    BY <2>0, <2>3, BuilderImports
  <2>4. CASE state # NoBuilder /\ EditProfiles
    <3>1. Normal(state) /\ SameAlerts(state)
      BY <2>4 DEF BuilderInv
    <3>2. Normal(state') /\ state'.alerts = state.alerts
          /\ UNCHANGED <<saved, calls, alerts_touched>>
      BY <2>4, <3>1, ProfilesStayNormal
    <3>3. AlertsKept /\ StateKept /\ Storable(saved')
      BY <3>1, <3>2, NoBuilderIsNone DEF AlertsKept, StateKept, SameAlerts, BuilderInv
    <3> QED BY <2>0, <3>2, <3>3, NoBuilderCall
  <2>5. CASE state # NoBuilder /\ SaveBuilder
    BY <2>0, <2>5, BuilderSaves
  <2>6. CASE state # NoBuilder /\ ToggleEnabled
    BY <2>0, <2>6, BuilderSwitches
  <2>7. ASSUME state # NoBuilder, NEW k \in DOMAIN state.alerts, EditAlert(k)
        PROVE  BuilderInv'
    <3>1. Normal(state)
      BY <2>7 DEF BuilderInv
    <3>2. Normal(state') /\ alerts_touched' = TRUE /\ UNCHANGED <<saved, calls>>
      BY <2>7, <3>1, AlertsStayNormal DEF EditAlert
    <3>3. AlertsKept /\ StateKept /\ Storable(saved')
      BY <3>2, NoBuilderIsNone DEF AlertsKept, StateKept, BuilderInv
    <3> QED BY <2>0, <3>2, <3>3, NoBuilderCall
  <2> QED BY <1>2, <2>1, <2>2, <2>3, <2>4, <2>5, <2>6, <2>7 DEF BuilderNext
<1> QED BY <1>1, <1>2 DEF WebPagesNext, WebPagesVars, pageVars, builderVars

(* On the page the rules and the default name profiles that exist, and on  *)
(* the device some profile with the default's id is exclusive, through     *)
(* removals, imports and ids that collide (normalizeBuilder,               *)
(* removeProfile, serializeBehaviorPayload).  Ids may collide.             *)
THEOREM ProfilesStaySound == WebPagesSpec => []ProfilesAreSound
<1>1. BuilderInv => ProfilesAreSound
  BY DEF BuilderInv, Storable, Normal, ProfilesAreSound, RulesHaveProfiles,
         DefaultIsExclusive
<1> QED BY <1>1, BuilderInitially, BuilderStep, PTL DEF WebPagesSpec

(* A builder that is saved and loaded back is the builder that was shown,  *)
(* with the releases that were in force, unless ids collide or the starter *)
(* set replaces it (serializeBehaviorPayload and normalizeBuilder).  Rates *)
(* of releases that are off or zero are not kept.                          *)
THEOREM SavesAreLossless == WebPagesSpec => []SaveLosesNothing
<1>1. BuilderInv => SaveLosesNothing
  BY SavedIsShown DEF BuilderInv, SaveLosesNothing
<1> QED BY <1>1, BuilderInitially, BuilderStep, PTL DEF WebPagesSpec

(* The device's alerts are those it had, whatever loads, saves, switches   *)
(* and imports overlap, until the user edits one or imports before the     *)
(* page has loaded them (importBuilderProfileFromText).                    *)
THEOREM AlertsSurvive == WebPagesSpec => AlertsStay
<1>1. BuilderInv /\ [WebPagesNext]_WebPagesVars
        => [~alerts_touched' => AlertList(saved'.alerts) = AlertList(saved.alerts)]_builderVars
  <2> SUFFICES ASSUME BuilderInv, [WebPagesNext]_WebPagesVars, builderVars' # builderVars,
                      ~alerts_touched'
               PROVE  AlertList(saved'.alerts) = AlertList(saved.alerts)
    OBVIOUS
  <2>1. page = "behavior" /\ BuilderNext
    BY DEF WebPagesNext, WebPagesVars, builderVars
  <2>2. ASSUME NEW c \in CallSlots, BuilderAnswers(c)
        PROVE  AlertList(saved'.alerts) = AlertList(saved.alerts)
    <3>1. BuilderCall(c) /\ Storable(saved) /\ ~alerts_touched
      BY <2>1, <2>2 DEF BuilderInv, BuilderAnswers
    <3>2. CASE IsSent(c, "load") /\ UNCHANGED saved
      BY <3>2
    <3>3. CASE IsSent(c, "save") /\ saved' = calls[c].body
      <4>1. SameAlerts(calls[c].body)
        BY <3>1, <3>3 DEF IsSent, BuilderCall, NoCall
      <4> QED BY <3>1, <3>3, <4>1 DEF SameAlerts
    <3>4. CASE saved' = [saved EXCEPT !.enabled = calls[c].body.enabled]
      <4>1. saved'.alerts = saved.alerts
        BY <3>1, <3>4 DEF Storable, RawBuilder
      <4> QED BY <4>1
    <3> QED BY <2>2, <3>2, <3>3, <3>4 DEF BuilderAnswers
  <2>3. CASE UNCHANGED saved
    BY <2>3
  <2> QED BY <2>1, <2>2, <2>3
          DEF BuilderNext, FinishLoad, FinishSave, BuilderCallFails, LoadBuilder, Import,
              EditProfiles, SaveBuilder, ToggleEnabled, EditAlert
<1> QED BY <1>1, BuilderInitially, BuilderStep, PTL DEF WebPagesSpec, AlertsStay

-----------------------------------------------------------------------------
(* The table of the SignalScope page.                                      *)
LEMMA TableInitially == WebPagesInit => TableShowsLatest
  BY DEF WebPagesInit, EditorInit, TableShowsLatest, Everything

LEMMA TableStep ==
  TableShowsLatest /\ [WebPagesNext]_WebPagesVars => TableShowsLatest'
<1> SUFFICES ASSUME TableShowsLatest, [WebPagesNext]_WebPagesVars
             PROVE  TableShowsLatest'
  OBVIOUS
<1>1. CASE UNCHANGED table
  BY <1>1 DEF TableShowsLatest, table
<1>2. CASE EditorNext
  <2>1. ASSUME NEW STATE answer, ApplyStatus(answer) PROVE TableShowsLatest'
    BY <2>1 DEF ApplyStatus, PollRenders, RenderFrames, ApplyFrameFilter,
                TableShowsLatest
  <2>2. CASE TogglePause
    BY <2>2 DEF TogglePause, Resume, RenderFrames, ApplyFrameFilter, TableShowsLatest
  <2>3. ASSUME NEW STATE keys, TypeFilter(keys) PROVE TableShowsLatest'
    BY <2>3 DEF TypeFilter, RenderFrames, ApplyFrameFilter, TableShowsLatest
  <2>4. CASE User /\ ~TogglePause /\ ~ \E keys \in Filters \cup {Everything} : TypeFilter(keys)
    BY <1>1, <2>4 DEF User, ClickFrame, ChooseSignal, ClickBit, CycleRawOverride,
       FocusByte, CommitRawByte, TypeRange, ChooseOperation, TypeValue, ClearRawOverrides
  <2> QED BY <1>2, <2>1, <2>2, <2>3, <2>4 DEF EditorNext, StatusAnswers, StatusFails
<1> QED BY <1>1, <1>2 DEF WebPagesNext, WebPagesVars, editorVars, table

(* Pausing is the only thing that lets the table fall behind the last      *)
(* answer, and a filter never hides what it lets through                   *)
(* (data/signalscope.js, renderFrames and applyFrameFilter).               *)
THEOREM TableIsLatest == WebPagesSpec => []TableShowsLatest
  BY TableInitially, TableStep, PTL DEF WebPagesSpec

(* What arrives while the table is paused is kept for later: neither an    *)
(* answer nor any editor renders it (refreshStatus reads framesPaused).    *)
THEOREM PauseHolds == WebPagesSpec => PausedTableStands
<1>1. [WebPagesNext]_WebPagesVars => [paused /\ paused' => source' = source]_editorVars
  <2> SUFFICES ASSUME [WebPagesNext]_WebPagesVars, paused, paused', editorVars' # editorVars
               PROVE  source' = source
    OBVIOUS
  <2>0. EditorNext
    BY DEF WebPagesNext, WebPagesVars, editorVars
  <2>1. ASSUME NEW STATE answer, ApplyStatus(answer) PROVE source' = source
    BY <2>1 DEF ApplyStatus, PollRenders
  <2>2. CASE TogglePause
    BY <2>2 DEF TogglePause
  <2>3. ASSUME NEW STATE keys, TypeFilter(keys) PROVE source' = source
    BY <2>3 DEF TypeFilter, RenderFrames
  <2>4. CASE User /\ ~TogglePause /\ ~ \E keys \in Filters \cup {Everything} : TypeFilter(keys)
    BY <2>4 DEF User, ClickFrame, ChooseSignal, ClickBit, CycleRawOverride, table,
       FocusByte, CommitRawByte, TypeRange, ChooseOperation, TypeValue, ClearRawOverrides
  <2> QED BY <2>0, <2>1, <2>2, <2>3, <2>4 DEF EditorNext, StatusAnswers, StatusFails
<1> QED BY <1>1, PTL DEF WebPagesSpec, PausedTableStands

-----------------------------------------------------------------------------
(* The bit editor and the device.                                          *)
(* Induction over the numbers up to one, by the least counterexample.      *)
LEMMA UpTo ==
  ASSUME NEW N \in Nat, NEW S, 0 \in S, \A n \in 1 .. N : n - 1 \in S => n \in S
  PROVE  \A n \in 0 .. N : n \in S
<1> DEFINE bad == {n \in 0 .. N : n \notin S}
<1> SUFFICES ASSUME bad # {} PROVE FALSE
  OBVIOUS
<1>1. bad \subseteq Nat
  OBVIOUS
<1>2. PICK n \in bad : \A m \in bad : n <= m
  <2> HIDE DEF bad
  <2> QED BY <1>1, LeastOf
<1>3. n \in 1 .. N /\ n - 1 \in 0 .. N /\ ~ n <= n - 1
  OBVIOUS
<1> QED BY <1>2, <1>3

(* A function that is given at 0 and, at every other number, by a step     *)
(* from the number before, exists.                                         *)
LEMMA Recursion ==
  ASSUME NEW N \in Nat, NEW start \in Int, NEW step \in [1 .. N -> [Int -> Int]]
  PROVE  \E f \in [0 .. N -> Int] :
           f[0] = start /\ \A n \in 1 .. N : f[n] = step[n][f[n - 1]]
<1> DEFINE Good(n, f) == f[0] = start /\ \A m \in 1 .. n : f[m] = step[m][f[m - 1]]
           S == {n \in 0 .. N : \E f \in [0 .. N -> Int] : Good(n, f)}
<1>1. 0 \in S
  <2>1. [n \in 0 .. N |-> start] \in [0 .. N -> Int] /\ 0 \in 0 .. N
    OBVIOUS
  <2>2. Good(0, [n \in 0 .. N |-> start])
    OBVIOUS
  <2> HIDE DEF Good
  <2> QED BY <2>1, <2>2
<1>2. ASSUME NEW n \in 1 .. N, n - 1 \in S PROVE n \in S
  <2>1. PICK f \in [0 .. N -> Int] : Good(n - 1, f)
    BY <1>2
  <2>2. step[n] \in [Int -> Int] /\ f[n - 1] \in Int
    OBVIOUS
  <2> DEFINE g == [f EXCEPT ![n] = step[n][f[n - 1]]]
  <2>3. step[n][f[n - 1]] \in Int
    BY <2>2
  <2>4. /\ g \in [0 .. N -> Int] /\ g[n] = step[n][f[n - 1]]
        /\ \A m \in 0 .. n - 1 : g[m] = f[m]
    <3>1. n \in 0 .. N /\ \A m \in 0 .. n - 1 : m \in 0 .. N /\ m # n
      OBVIOUS
    <3> QED BY <2>3, <3>1
  <2> HIDE DEF g
  <2>5. Good(n, g)
    <3>1. g[0] = start
      <4>1. 0 \in 0 .. n - 1
        OBVIOUS
      <4> QED BY <2>1, <2>4, <4>1
    <3>2. ASSUME NEW m \in 1 .. n PROVE g[m] = step[m][g[m - 1]]
      <4>1. m - 1 \in 0 .. n - 1
        OBVIOUS
      <4>2. CASE m = n
        BY <2>4, <4>1, <4>2
      <4>3. CASE m # n
        <5>1. m \in 1 .. n - 1
          BY <4>3
        <5> QED BY <2>1, <2>4, <4>1, <5>1
      <4> QED BY <4>2, <4>3
    <3> QED BY <3>1, <3>2
  <2> HIDE DEF Good
  <2> QED BY <2>4, <2>5
<1>3. \A n \in 0 .. N : n \in S
  <2> HIDE DEF S
  <2> QED BY <1>1, <1>2, UpTo
<1>4. N \in S
  <2>1. N \in 0 .. N
    OBVIOUS
  <2> QED BY <1>3, <2>1
<1> QED BY <1>4

LEMMA EditorSizes ==
  /\ ByteBits \in Nat \ {0} /\ Width \in Nat /\ FloatBits \in 1 .. Width - 1
  /\ ByteBits <= Width
<1>1. ByteBits \in Nat \ {0} /\ Bytes \in Nat \ {0} /\ FloatBits \in 1 .. Width - 1
  BY ScopeEditorAssumption
<1>2. ByteBits * Bytes \in Nat /\ ByteBits <= ByteBits * Bytes
  BY <1>1
<1> QED BY <1>1, <1>2 DEF Width

(* Powers of two.                                                          *)
LEMMA Doubling ==
  /\ TwoTo[0] = 1 /\ \A n \in 1 .. Width : TwoTo[n] = 2 * TwoTo[n - 1]
  /\ \A n \in 0 .. Width : TwoTo[n] \in Nat \ {0}
<1> DEFINE Is(f) == f = [n \in 0 .. Width |-> IF n = 0 THEN 1 ELSE 2 * f[n - 1]]
           step == [n \in 1 .. Width |-> [x \in Int |-> 2 * x]]
           S == {n \in 0 .. Width : TwoTo[n] \in Nat \ {0}}
<1> USE EditorSizes
<1>1. PICK f \in [0 .. Width -> Int] :
        f[0] = 1 /\ \A n \in 1 .. Width : f[n] = step[n][f[n - 1]]
  <2>1. step \in [1 .. Width -> [Int -> Int]] /\ 1 \in Int
    OBVIOUS
  <2> HIDE DEF step
  <2> QED BY <2>1, Recursion
<1>2. Is(f)
  <2>1. ASSUME NEW n \in 1 .. Width PROVE f[n] = 2 * f[n - 1]
    <3>1. f[n - 1] \in Int
      BY <1>1
    <3>2. f[n] = step[n][f[n - 1]]
      BY <1>1
    <3> QED BY <3>1, <3>2
  <2>2. \A n \in 0 .. Width : f[n] = IF n = 0 THEN 1 ELSE 2 * f[n - 1]
    BY <1>1, <2>1
  <2>3. f = [n \in 0 .. Width |-> f[n]]
    OBVIOUS
  <2> QED BY <2>2, <2>3
<1>3. TwoTo = CHOOSE g : Is(g)
  BY DEF TwoTo
<1>4. Is(TwoTo)
  <2> HIDE DEF Is
  <2> QED BY <1>2, <1>3
<1>5. TwoTo[0] = 1 /\ \A n \in 1 .. Width : TwoTo[n] = 2 * TwoTo[n - 1]
  <2>1. \A n \in 0 .. Width : TwoTo[n] = IF n = 0 THEN 1 ELSE 2 * TwoTo[n - 1]
    <3> HIDE DEF Is
    <3>1. ASSUME NEW g, Is(g)
          PROVE  \A n \in 0 .. Width : g[n] = IF n = 0 THEN 1 ELSE 2 * g[n - 1]
      BY <3>1 DEF Is
    <3> QED BY <1>4, <3>1
  <2> QED BY <2>1
<1>6. \A n \in 0 .. Width : n \in S
  <2>1. 0 \in S
    BY <1>5
  <2>2. ASSUME NEW n \in 1 .. Width, n - 1 \in S PROVE n \in S
    BY <1>5, <2>2
  <2> HIDE DEF S
  <2> QED BY <2>1, <2>2, UpTo
<1> QED BY <1>5, <1>6

LEMMA Growing ==
  ASSUME NEW m \in 0 .. Width, NEW n \in 0 .. Width, m <= n
  PROVE  TwoTo[m] <= TwoTo[n]
<1> DEFINE S == {k \in 0 .. Width : m <= k => TwoTo[m] <= TwoTo[k]}
<1> USE EditorSizes, Doubling
<1>1. 0 \in S
  OBVIOUS
<1>2. ASSUME NEW k \in 1 .. Width, k - 1 \in S PROVE k \in S
  <2>1. TwoTo[k] = 2 * TwoTo[k - 1] /\ TwoTo[k - 1] \in Nat \ {0} /\ TwoTo[m] \in Nat
    OBVIOUS
  <2> QED BY <1>2, <2>1
<1>3. \A k \in 0 .. Width : k \in S
  <2> HIDE DEF S
  <2> QED BY <1>1, <1>2, UpTo
<1> QED BY <1>3

(* The positions that a range names.                                       *)
LEMMA RangeType ==
  ASSUME NEW r \in BitRange
  PROVE  /\ r.start_bit \in Nat /\ r.length \in Nat \ {0} /\ r.length <= Width
         /\ r.little_endian \in BOOLEAN /\ r.is_signed \in BOOLEAN
  BY EditorSizes DEF BitRange, Bits

LEMMA WalkOf ==
  ASSUME NEW r \in BitRange
  PROVE  /\ DOMAIN Walk(r) = 0 .. r.length - 1 /\ Walk(r)[0] = r.start_bit
         /\ \A i \in 1 .. r.length - 1 : Walk(r)[i] = NextMotorolaBit(Walk(r)[i - 1])
<1> DEFINE Is(f) == f = [i \in 0 .. r.length - 1 |->
                           IF i = 0 THEN r.start_bit ELSE NextMotorolaBit(f[i - 1])]
           last == r.length - 1
           step == [n \in 1 .. last |-> [x \in Int |-> NextMotorolaBit(x)]]
<1>0. last \in Nat /\ r.start_bit \in Int
  BY RangeType
<1>1. PICK f \in [0 .. last -> Int] :
        f[0] = r.start_bit /\ \A n \in 1 .. last : f[n] = step[n][f[n - 1]]
  <2>1. \A x \in Int : NextMotorolaBit(x) \in Int
    BY EditorSizes DEF NextMotorolaBit
  <2>2. step \in [1 .. last -> [Int -> Int]]
    BY <2>1
  <2> HIDE DEF step, last
  <2> QED BY <1>0, <2>2, Recursion
<1>2. Is(f)
  <2>1. ASSUME NEW n \in 1 .. last PROVE f[n] = NextMotorolaBit(f[n - 1])
    <3>1. f[n - 1] \in Int
      BY <1>0, <1>1
    <3>2. f[n] = step[n][f[n - 1]]
      BY <1>1
    <3> QED BY <3>1, <3>2
  <2>2. \A n \in 0 .. last :
          f[n] = IF n = 0 THEN r.start_bit ELSE NextMotorolaBit(f[n - 1])
    <3> HIDE DEF last
    <3> QED BY <1>0, <1>1, <2>1
  <2>3. f = [n \in 0 .. last |-> f[n]]
    OBVIOUS
  <2> QED BY <2>2, <2>3
<1>3. Walk(r) = CHOOSE g : Is(g)
  BY DEF Walk
<1>4. Is(Walk(r))
  <2> HIDE DEF Is
  <2> QED BY <1>2, <1>3
<1>5. ASSUME NEW g, Is(g)
      PROVE  /\ DOMAIN g = 0 .. last /\ g[0] = r.start_bit
             /\ \A i \in 1 .. last : g[i] = NextMotorolaBit(g[i - 1])
  BY <1>0, <1>5
<1> HIDE DEF Is
<1> QED BY <1>4, <1>5

LEMMA MaskBitsOf ==
  ASSUME NEW r \in BitRange
  PROVE  /\ DOMAIN MaskBits(r) = 0 .. r.length - 1 /\ MaskBits(r)[0] = r.start_bit
         /\ \A i \in 1 .. r.length - 1 :
              MaskBits(r)[i] = IF r.little_endian THEN MaskBits(r)[i - 1] + 1
                               ELSE NextMotorolaBit(MaskBits(r)[i - 1])
<1> DEFINE Next(x) == IF r.little_endian THEN x + 1
                      ELSE IF x % ByteBits = 0 THEN x + 2 * ByteBits - 1 ELSE x - 1
           Is(f) == f = [i \in 0 .. r.length - 1 |->
                           IF i = 0 THEN r.start_bit
                           ELSE IF r.little_endian THEN f[i - 1] + 1
                           ELSE IF f[i - 1] % ByteBits = 0 THEN f[i - 1] + 2 * ByteBits - 1
                           ELSE f[i - 1] - 1]
           last == r.length - 1
           step == [n \in 1 .. last |-> [x \in Int |-> Next(x)]]
<1>0. last \in Nat /\ r.start_bit \in Int
  BY RangeType
<1>1. PICK f \in [0 .. last -> Int] :
        f[0] = r.start_bit /\ \A n \in 1 .. last : f[n] = step[n][f[n - 1]]
  <2>1. \A x \in Int : Next(x) \in Int
    BY EditorSizes
  <2>2. step \in [1 .. last -> [Int -> Int]]
    <3> HIDE DEF Next
    <3> QED BY <2>1
  <2> HIDE DEF step, last
  <2> QED BY <1>0, <2>2, Recursion
<1>2. Is(f)
  <2>1. ASSUME NEW n \in 1 .. last PROVE f[n] = Next(f[n - 1])
    <3> HIDE DEF Next
    <3>1. f[n - 1] \in Int
      BY <1>0, <1>1
    <3>2. f[n] = step[n][f[n - 1]]
      BY <1>1
    <3> QED BY <3>1, <3>2
  <2>2. \A n \in 0 .. last : f[n] = IF n = 0 THEN r.start_bit ELSE Next(f[n - 1])
    <3> HIDE DEF last, Next
    <3> QED BY <1>0, <1>1, <2>1
  <2>3. f = [n \in 0 .. last |-> f[n]]
    OBVIOUS
  <2> QED BY <2>2, <2>3
<1>3. MaskBits(r) = CHOOSE g : Is(g)
  BY DEF MaskBits
<1>4. Is(MaskBits(r))
  <2> HIDE DEF Is
  <2> QED BY <1>2, <1>3
<1>5. ASSUME NEW g, Is(g)
      PROVE  /\ DOMAIN g = 0 .. last /\ g[0] = r.start_bit
             /\ \A i \in 1 .. last :
                  g[i] = IF r.little_endian THEN g[i - 1] + 1 ELSE NextMotorolaBit(g[i - 1])
  BY <1>0, <1>5 DEF NextMotorolaBit
<1> HIDE DEF Is
<1> QED BY <1>4, <1>5

LEMMA LeastOfTwo ==
  ASSUME NEW a \in Int, NEW b \in Int
  PROVE  Min({a, b}) = IF a <= b THEN a ELSE b
<1> DEFINE least == IF a <= b THEN a ELSE b
<1>1. least \in {a, b} /\ \A y \in {a, b} : least <= y
  OBVIOUS
<1>2. \A x \in {a, b} : (\A y \in {a, b} : x <= y) => x = least
  OBVIOUS
<1> HIDE DEF least
<1>3. Min({a, b}) = least
  BY <1>1, <1>2 DEF Min
<1> QED BY <1>3 DEF least

LEMMA GreatestOfTwo ==
  ASSUME NEW a \in Int, NEW b \in Int
  PROVE  Max({a, b}) = IF a >= b THEN a ELSE b
<1> DEFINE greatest == IF a >= b THEN a ELSE b
<1>1. greatest \in {a, b} /\ \A y \in {a, b} : greatest >= y
  OBVIOUS
<1>2. \A x \in {a, b} : (\A y \in {a, b} : x >= y) => x = greatest
  OBVIOUS
<1> HIDE DEF greatest
<1>3. Max({a, b}) = greatest
  BY <1>1, <1>2 DEF Max
<1> QED BY <1>3 DEF greatest

(* What the device accepts the page reads at the same bits.                *)
LEMMA SamePositions ==
  ASSUME NEW r \in BitRange, Accepts(r)
  PROVE  /\ DOMAIN Position(r) = 0 .. r.length - 1
         /\ \A i \in 0 .. r.length - 1 : /\ Position(r)[i] = MaskBits(r)[i]
                                         /\ Position(r)[i] \in Bits
<1> DEFINE last == r.length - 1
           S == {i \in 0 .. last : IF r.little_endian THEN MaskBits(r)[i] = r.start_bit + i
                                   ELSE MaskBits(r)[i] = Walk(r)[i]}
<1>0. last \in Nat /\ r.start_bit \in Nat /\ Width - 1 \in Nat
  BY RangeType, EditorSizes
<1>1. 0 \in S
  <2>1. 0 \in 0 .. last /\ r.start_bit + 0 = r.start_bit
    BY <1>0
  <2> QED BY <2>1, WalkOf, MaskBitsOf
<1>2. ASSUME NEW i \in 1 .. last, i - 1 \in S PROVE i \in S
  <2>1. i \in 0 .. last
    BY <1>0
  <2>2. MaskBits(r)[i] = IF r.little_endian THEN MaskBits(r)[i - 1] + 1
                         ELSE NextMotorolaBit(MaskBits(r)[i - 1])
    BY MaskBitsOf
  <2>3. CASE r.little_endian
    <3>1. MaskBits(r)[i] = r.start_bit + (i - 1) + 1
      BY <1>2, <2>2, <2>3
    <3>2. r.start_bit + (i - 1) + 1 = r.start_bit + i
      BY <1>0
    <3> QED BY <2>1, <2>3, <3>1, <3>2
  <2>4. CASE ~r.little_endian
    <3>1. Walk(r)[i] = NextMotorolaBit(Walk(r)[i - 1])
      BY WalkOf
    <3> QED BY <1>2, <2>1, <2>2, <2>4, <3>1
  <2> QED BY <2>3, <2>4
<1>3. \A i \in 0 .. last : i \in S
  <2> HIDE DEF S, last
  <2> QED BY <1>0, <1>1, <1>2, UpTo
<1>4. ASSUME NEW i \in 0 .. last
      PROVE  Position(r)[i] = MaskBits(r)[i] /\ Position(r)[i] \in Bits
  <2>1. MaskBits(r)[i] \in Bits
    BY MaskBitsOf DEF Accepts
  <2>2. i \in S
    BY <1>3
  <2>3. CASE r.little_endian
    <3>1. r.start_bit + i \in 0 .. Width - 1
      BY <2>1, <2>2, <2>3 DEF Bits
    <3>2. Min({r.start_bit + i, Width - 1}) = r.start_bit + i
      BY <1>0, <3>1, LeastOfTwo
    <3> QED BY <2>1, <2>2, <2>3, <3>2 DEF Position
  <2>4. CASE ~r.little_endian
    BY <2>1, <2>2, <2>4 DEF Position
  <2> QED BY <2>3, <2>4
<1>5. DOMAIN Position(r) = 0 .. r.length - 1
  BY DEF Position
<1> QED BY <1>4, <1>5

(* The page's number is the one that its bits spell, the first last: read  *)
(* from the top, each bit doubles what was read and is added.              *)
RawBit(r, i) == IF r.little_endian THEN i ELSE r.length - 1 - i
ShownBit(d, r, i) == d[Position(r)[RawBit(r, i)]]
Spelt(d, r, h) ==
  /\ h \in [0 .. r.length -> Int] /\ h[0] = 0
  /\ \A n \in 1 .. r.length : h[n] = 2 * h[n - 1] + ShownBit(d, r, r.length - n)

LEMMA ShownBitType ==
  ASSUME NEW r \in BitRange, NEW d \in Payload, Accepts(r)
  PROVE  \A i \in 0 .. r.length - 1 :
           RawBit(r, i) \in 0 .. r.length - 1 /\ ShownBit(d, r, i) \in {0, 1}
<1> SUFFICES ASSUME NEW i \in 0 .. r.length - 1
             PROVE  RawBit(r, i) \in 0 .. r.length - 1 /\ ShownBit(d, r, i) \in {0, 1}
  OBVIOUS
<1>1. RawBit(r, i) \in 0 .. r.length - 1
  BY RangeType DEF RawBit
<1>2. Position(r)[RawBit(r, i)] \in Bits
  BY <1>1, SamePositions
<1>3. d[Position(r)[RawBit(r, i)]] \in 0 .. 1
  BY <1>2 DEF Payload
<1> QED BY <1>1, <1>3 DEF ShownBit

LEMMA SpeltExists ==
  ASSUME NEW r \in BitRange, NEW d \in Payload, Accepts(r)
  PROVE  \E h : Spelt(d, r, h)
<1> DEFINE L == r.length
           step == [n \in 1 .. L |-> [x \in Int |-> 2 * x + ShownBit(d, r, L - n)]]
<1>0. L \in Nat /\ \A n \in 1 .. L : ShownBit(d, r, L - n) \in {0, 1}
  <2>1. L \in Nat
    BY RangeType
  <2>2. \A n \in 1 .. L : L - n \in 0 .. L - 1
    BY <2>1
  <2> QED BY <2>1, <2>2, ShownBitType
<1>1. PICK h \in [0 .. L -> Int] : h[0] = 0 /\ \A n \in 1 .. L : h[n] = step[n][h[n - 1]]
  <2>1. step \in [1 .. L -> [Int -> Int]] /\ 0 \in Int
    BY <1>0
  <2> HIDE DEF step, L
  <2> QED BY <1>0, <2>1, Recursion
<1>2. ASSUME NEW n \in 1 .. L PROVE h[n] = 2 * h[n - 1] + ShownBit(d, r, L - n)
  <2>1. h[n - 1] \in Int
    BY <1>0, <1>1
  <2>2. h[n] = step[n][h[n - 1]]
    BY <1>1
  <2> QED BY <2>1, <2>2
<1> QED BY <1>1, <1>2 DEF Spelt

LEMMA SpeltBound ==
  ASSUME NEW r \in BitRange, NEW d \in Payload, Accepts(r), NEW h, Spelt(d, r, h)
  PROVE  \A n \in 0 .. r.length : h[n] \in 0 .. TwoTo[n] - 1
<1> DEFINE L == r.length
           S == {n \in 0 .. L : h[n] \in 0 .. TwoTo[n] - 1}
<1>0. L \in Nat /\ L <= Width
  BY RangeType
<1>1. 0 \in S
  BY <1>0, Doubling DEF Spelt
<1>2. ASSUME NEW n \in 1 .. L, n - 1 \in S PROVE n \in S
  <2>1. n \in 1 .. Width /\ n - 1 \in 0 .. Width /\ L - n \in 0 .. L - 1
    BY <1>0, EditorSizes
  <2>2. TwoTo[n] = 2 * TwoTo[n - 1] /\ TwoTo[n - 1] \in Nat \ {0}
    BY <2>1, Doubling
  <2>3. h[n] = 2 * h[n - 1] + ShownBit(d, r, L - n) /\ ShownBit(d, r, L - n) \in {0, 1}
    BY <2>1, ShownBitType DEF Spelt
  <2>4. h[n - 1] \in 0 .. TwoTo[n - 1] - 1
    BY <1>2
  <2>5. h[n] \in 0 .. TwoTo[n] - 1
    BY <2>2, <2>3, <2>4
  <2> QED BY <2>5
<1>3. \A n \in 0 .. L : n \in S
  <2> HIDE DEF S, L
  <2> QED BY <1>0, <1>1, <1>2, UpTo
<1> QED BY <1>3

LEMMA ReadIsSpelt ==
  ASSUME NEW r \in BitRange, NEW d \in Payload, Accepts(r), NEW h, Spelt(d, r, h)
  PROVE  ReadBits(d, r) = h[r.length]
<1> DEFINE L == r.length
           bit(n) == d[Position(r)[n - 1]]
           Is(f) == f = [n \in 0 .. L |->
                           IF n = 0 THEN 0
                           ELSE IF r.little_endian THEN f[n - 1] + bit(n) * TwoTo[n - 1]
                           ELSE 2 * f[n - 1] + bit(n)]
           Next(n, x) == IF r.little_endian THEN x + bit(n) * TwoTo[n - 1]
                         ELSE 2 * x + bit(n)
           step == [n \in 1 .. L |-> [x \in Int |-> Next(n, x)]]
<1>0. L \in Nat \ {0} /\ L <= Width
  BY RangeType
<1>1. \A n \in 1 .. L : bit(n) \in {0, 1} /\ TwoTo[n - 1] \in Nat \ {0}
  <2> SUFFICES ASSUME NEW n \in 1 .. L PROVE bit(n) \in {0, 1} /\ TwoTo[n - 1] \in Nat \ {0}
    OBVIOUS
  <2>1. n - 1 \in 0 .. L - 1 /\ n - 1 \in 0 .. Width
    BY <1>0, EditorSizes
  <2>2. Position(r)[n - 1] \in Bits
    BY <2>1, SamePositions
  <2>3. bit(n) \in 0 .. 1
    BY <2>2 DEF Payload
  <2> QED BY <2>1, <2>3, Doubling
<1> HIDE DEF bit
<1>2. PICK f \in [0 .. L -> Int] : f[0] = 0 /\ \A n \in 1 .. L : f[n] = step[n][f[n - 1]]
  <2>1. ASSUME NEW n \in 1 .. L, NEW x \in Int
        PROVE  Next(n, x) \in Int
    <3>1. bit(n) \in {0, 1} /\ TwoTo[n - 1] \in Nat
      BY <1>1
    <3>2. bit(n) * TwoTo[n - 1] \in Int
      BY <3>1
    <3> QED BY <3>1, <3>2
  <2>2. step \in [1 .. L -> [Int -> Int]] /\ 0 \in Int
    <3> HIDE DEF Next
    <3> QED BY <2>1
  <2> HIDE DEF step, L
  <2> QED BY <1>0, <2>2, Recursion
<1>3. ASSUME NEW n \in 1 .. L
      PROVE  f[n] = IF r.little_endian THEN f[n - 1] + bit(n) * TwoTo[n - 1]
                    ELSE 2 * f[n - 1] + bit(n)
  <2>1. f[n - 1] \in Int
    BY <1>0, <1>2
  <2>2. f[n] = step[n][f[n - 1]]
    BY <1>2
  <2> QED BY <2>1, <2>2
<1>4. Is(f)
  <2>1. \A n \in 0 .. L :
          f[n] = IF n = 0 THEN 0
                 ELSE IF r.little_endian THEN f[n - 1] + bit(n) * TwoTo[n - 1]
                 ELSE 2 * f[n - 1] + bit(n)
    <3> HIDE DEF L
    <3> QED BY <1>0, <1>2, <1>3
  <2>2. f = [n \in 0 .. L |-> f[n]]
    OBVIOUS
  <2> QED BY <2>1, <2>2
<1>5. ReadBits(d, r) = (CHOOSE g : Is(g))[L]
  BY DEF ReadBits, bit
<1> DEFINE read == CHOOSE g : Is(g)
<1>6. Is(read)
  <2> HIDE DEF Is
  <2> QED BY <1>4
<1>7. ASSUME NEW n \in 0 .. L
      PROVE  read[n] = IF n = 0 THEN 0
                       ELSE IF r.little_endian THEN read[n - 1] + bit(n) * TwoTo[n - 1]
                       ELSE 2 * read[n - 1] + bit(n)
  <2>1. ASSUME NEW g, Is(g)
        PROVE  g[n] = IF n = 0 THEN 0
                      ELSE IF r.little_endian THEN g[n - 1] + bit(n) * TwoTo[n - 1]
                      ELSE 2 * g[n - 1] + bit(n)
    BY <2>1
  <2> HIDE DEF Is, read
  <2> QED BY <1>6, <2>1
<1> HIDE DEF read, step
<1>8. \A n \in 1 .. L : h[n] = 2 * h[n - 1] + ShownBit(d, r, L - n) /\ h[n - 1] \in Int
  BY <1>0 DEF Spelt
<1>9. CASE r.little_endian
  <2> DEFINE S == {n \in 0 .. L : read[n] \in Int /\ read[n] + TwoTo[n] * h[L - n] = h[L]}
  <2>1. 0 \in S
    <3>1. read[0] = 0 /\ TwoTo[0] = 1 /\ h[L - 0] = h[L] /\ h[L] \in Int
      BY <1>0, <1>7, Doubling DEF Spelt
    <3> QED BY <1>0, <3>1
  <2>2. ASSUME NEW n \in 1 .. L, n - 1 \in S PROVE n \in S
    <3> DEFINE two == TwoTo[n - 1]  rest == h[L - n]  b == bit(n)
    <3>1. n \in 0 .. L /\ n # 0 /\ L - n + 1 \in 1 .. L /\ n - 1 = L - (L - n + 1)
          /\ L - (n - 1) = L - n + 1 /\ (L - n + 1) - 1 = L - n /\ n \in 1 .. Width
      BY <1>0, EditorSizes
    <3>2. read[n] = read[n - 1] + b * two
      BY <1>7, <1>9, <3>1
    <3>3. h[L - (n - 1)] = 2 * rest + b
      <4>1. ShownBit(d, r, n - 1) = b
        BY <1>9 DEF ShownBit, RawBit, bit
      <4>2. h[L - n + 1] = 2 * h[(L - n + 1) - 1] + ShownBit(d, r, L - (L - n + 1))
        BY <1>8, <3>1
      <4> QED BY <3>1, <4>1, <4>2
    <3>4. TwoTo[n] = 2 * two /\ two \in Nat /\ b \in {0, 1} /\ rest \in Int
      <4>1. h[(L - n + 1) - 1] \in Int
        BY <1>8, <3>1
      <4> QED BY <1>1, <3>1, <4>1, Doubling
    <3>5. read[n - 1] \in Int /\ read[n - 1] + two * (2 * rest + b) = h[L]
      BY <2>2, <3>3
    <3> HIDE DEF two, rest, b
    <3>6. two * (2 * rest + b) = b * two + (2 * two) * rest
      <4>1. CASE b = 0
        BY <3>4, <4>1
      <4>2. CASE b = 1
        BY <3>4, <4>2
      <4> QED BY <3>4, <4>1, <4>2
    <3>7. (2 * two) * rest \in Int /\ b * two \in Int
      BY <3>4
    <3>8. read[n] \in Int /\ read[n] + (2 * two) * rest = h[L]
      BY <3>2, <3>5, <3>6, <3>7
    <3> QED BY <3>1, <3>4, <3>8 DEF rest
  <2>3. \A n \in 0 .. L : n \in S
    <3> HIDE DEF S, L
    <3> QED BY <1>0, <2>1, <2>2, UpTo
  <2>4. read[L] \in Int /\ read[L] + TwoTo[L] * h[L - L] = h[L]
    <3>1. L \in 0 .. L
      BY <1>0
    <3> QED BY <2>3, <3>1
  <2>5. h[L - L] = 0 /\ TwoTo[L] \in Nat
    BY <1>0, Doubling, EditorSizes DEF Spelt
  <2> QED BY <1>5, <2>4, <2>5 DEF read
<1>10. CASE ~r.little_endian
  <2> DEFINE S == {n \in 0 .. L : read[n] = h[n]}
  <2>1. 0 \in S
    BY <1>0, <1>7 DEF Spelt
  <2>2. ASSUME NEW n \in 1 .. L, n - 1 \in S PROVE n \in S
    <3>1. n \in 0 .. L /\ n # 0 /\ L - 1 - (L - n) = n - 1
      BY <1>0
    <3>2. ShownBit(d, r, L - n) = bit(n)
      BY <1>10, <3>1 DEF ShownBit, RawBit, bit
    <3> QED BY <1>7, <1>8, <1>10, <2>2, <3>1, <3>2
  <2>3. \A n \in 0 .. L : n \in S
    <3> HIDE DEF S, L
    <3> QED BY <1>0, <2>1, <2>2, UpTo
  <2>4. L \in 0 .. L
    BY <1>0
  <2> QED BY <1>5, <2>3, <2>4 DEF read
<1> QED BY <1>9, <1>10

(* A value that a float holds reaches the device as it was shown, and the  *)
(* device's two's complement of it is the number that was read.            *)
LEMMA Wraps ==
  ASSUME NEW m \in Nat \ {0}, NEW x \in 0 .. m - 1
  PROVE  x % m = x /\ (x - m) % m = x
  OBVIOUS

LEMMA StagedIsRead ==
  ASSUME NEW r \in BitRange, NEW d \in Payload, Accepts(r), r.length <= FloatBits
  PROVE  StagedRaw(r, ExtractSignalRaw(d, r)) = ReadBits(d, r)
<1> DEFINE L == r.length
           top == TwoTo[L]
           half == TwoTo[L - 1]
           raw == ReadBits(d, r)
           v == ExtractSignalRaw(d, r)
<1>0. L \in 1 .. Width /\ L - 1 \in 0 .. Width /\ L < Width /\ Width - 1 \in 0 .. Width
      /\ L <= Width - 1 /\ FloatBits \in 0 .. Width /\ 0 \in 0 .. Width
  BY RangeType, EditorSizes
<1>1. half \in Nat \ {0} /\ top = 2 * half
  BY <1>0, Doubling
<1>2. raw \in 0 .. top - 1
  <2>1. PICK h : Spelt(d, r, h)
    BY SpeltExists
  <2>2. L \in 0 .. L
    BY <1>0
  <2>3. h[L] \in 0 .. top - 1
    BY <2>1, <2>2, SpeltBound
  <2>4. raw = h[L]
    BY <2>1, ReadIsSpelt
  <2> QED BY <2>3, <2>4
<1>3. v = IF r.is_signed /\ raw >= half THEN raw - top ELSE raw
  BY <1>0 DEF ExtractSignalRaw
<1>4. top <= TwoTo[FloatBits] /\ top <= TwoTo[Width - 1] /\ TwoTo[0] = 1
      /\ TwoTo[FloatBits] \in Nat /\ TwoTo[Width - 1] \in Nat
  BY <1>0, Growing, Doubling
<1>5. StagedRaw(r, v) = Min({IF r.is_signed THEN half - 1
                             ELSE Min({top, TwoTo[Width - 1]}) - 1,
                             Max({IF r.is_signed THEN -half ELSE 0, AsFloat(v)})}) % top
  BY DEF StagedRaw
<1> HIDE DEF top, half, raw, v
<1>6. v \in Int /\ -top <= v /\ v < top
  BY <1>1, <1>2, <1>3
<1>7. AsFloat(v) = v
  <2>1. v \in -TwoTo[FloatBits] .. TwoTo[FloatBits]
    BY <1>1, <1>4, <1>6
  <2>2. v = v * TwoTo[0]
    BY <1>4, <1>6
  <2>3. v \in Floats
    BY <1>0, <2>1, <2>2 DEF Floats
  <2> QED BY <2>3 DEF AsFloat
<1>8. CASE r.is_signed
  <2>1. -half <= v /\ v <= half - 1
    BY <1>1, <1>2, <1>3, <1>8
  <2>2. Max({-half, v}) = v /\ Min({half - 1, v}) = v
    BY <1>1, <1>6, <2>1, LeastOfTwo, GreatestOfTwo
  <2>3. StagedRaw(r, v) = v % top
    BY <1>5, <1>7, <1>8, <2>2
  <2>4. v % top = raw
    BY <1>1, <1>2, <1>3, Wraps
  <2> QED BY <2>3, <2>4 DEF v, raw
<1>9. CASE ~r.is_signed
  <2>1. 0 <= v /\ v <= top - 1 /\ v = raw
    BY <1>1, <1>2, <1>3, <1>9
  <2>2. Min({top, TwoTo[Width - 1]}) = top
    BY <1>1, <1>4, LeastOfTwo
  <2>3. Max({0, v}) = v /\ Min({top - 1, v}) = v
    BY <1>1, <1>6, <2>1, LeastOfTwo, GreatestOfTwo
  <2>4. StagedRaw(r, v) = v % top
    BY <1>5, <1>7, <1>9, <2>2, <2>3
  <2>5. v % top = raw
    BY <1>1, <1>2, <2>1, Wraps
  <2> QED BY <2>4, <2>5 DEF v, raw
<1> QED BY <1>8, <1>9 DEF v, raw

(* Shifting the number right again gives back its bits one by one, so what *)
(* the device writes at a position is what the page read there.            *)
LEMMA FrameIsKept ==
  ASSUME NEW r \in BitRange, NEW d \in Payload, Accepts(r), r.length <= FloatBits
  PROVE  Replaced(d, r, ExtractSignalRaw(d, r)) = d
<1> DEFINE L == r.length
           raw == StagedRaw(r, ExtractSignalRaw(d, r))
           Is(f) == f = [n \in 0 .. L |-> IF n = 0 THEN raw ELSE f[n - 1] \div 2]
           shifted == CHOOSE f : Is(f)
           at == MaskBits(r)
           From(b) == IF r.little_endian THEN CHOOSE i \in DOMAIN at : at[i] = b
                      ELSE r.length - 1 - (CHOOSE i \in DOMAIN at : at[i] = b)
<1>0. L \in Nat /\ DOMAIN at = 0 .. L - 1
  BY RangeType, MaskBitsOf
<1>1. Replaced(d, r, ExtractSignalRaw(d, r))
        = [b \in Bits |-> IF \E i \in DOMAIN at : at[i] = b THEN shifted[From(b)] % 2 ELSE d[b]]
  BY DEF Replaced
<1>2. PICK h : Spelt(d, r, h)
  BY SpeltExists
<1>3. raw = h[L]
  BY <1>2, StagedIsRead, ReadIsSpelt
<1>4. \A n \in 0 .. L : h[n] \in Int
  BY <1>2 DEF Spelt
<1> HIDE DEF raw, at
<1>5. ASSUME NEW n \in 1 .. L
      PROVE  h[n] \div 2 = h[n - 1] /\ h[n] % 2 = ShownBit(d, r, L - n)
  <2>1. L - n \in 0 .. L - 1 /\ n - 1 \in 0 .. L
    BY <1>0
  <2>2. h[n] = 2 * h[n - 1] + ShownBit(d, r, L - n)
    BY <1>2 DEF Spelt
  <2>3. ShownBit(d, r, L - n) \in {0, 1} /\ h[n - 1] \in Int
    BY <1>4, <2>1, ShownBitType
  <2> QED BY <2>2, <2>3
<1>6. Is([n \in 0 .. L |-> h[L - n]])
  <2> DEFINE f == [n \in 0 .. L |-> h[L - n]]
  <2>1. ASSUME NEW n \in 0 .. L PROVE f[n] = IF n = 0 THEN raw ELSE f[n - 1] \div 2
    <3>1. CASE n = 0
      BY <1>0, <1>3, <3>1
    <3>2. CASE n # 0
      <4>1. L - n + 1 \in 1 .. L /\ (L - n + 1) - 1 = L - n /\ L - (n - 1) = L - n + 1
            /\ n - 1 \in 0 .. L
        BY <1>0, <3>2
      <4>2. h[L - n + 1] \div 2 = h[L - n]
        BY <1>5, <4>1
      <4>3. f[n] = h[L - n] /\ f[n - 1] = h[L - n + 1]
        BY <4>1
      <4> HIDE DEF f
      <4> QED BY <3>2, <4>2, <4>3
    <3> QED BY <3>1, <3>2
  <2>2. f = [n \in 0 .. L |-> f[n]]
    OBVIOUS
  <2> HIDE DEF f
  <2>3. Is(f)
    BY <2>1, <2>2
  <2> QED BY <2>3 DEF f
<1>7. Is(shifted)
  <2> HIDE DEF Is
  <2> QED BY <1>6
<1>8. ASSUME NEW n \in 0 .. L
      PROVE  shifted[n] = IF n = 0 THEN raw ELSE shifted[n - 1] \div 2
  <2>1. ASSUME NEW g, Is(g) PROVE g[n] = IF n = 0 THEN raw ELSE g[n - 1] \div 2
    BY <2>1
  <2> HIDE DEF Is, shifted
  <2> QED BY <1>7, <2>1
<1> HIDE DEF shifted
<1>9. \A n \in 0 .. L : shifted[n] = h[L - n]
  <2> DEFINE S == {n \in 0 .. L : shifted[n] = h[L - n]}
  <2>1. 0 \in S
    BY <1>0, <1>3, <1>8
  <2>2. ASSUME NEW n \in 1 .. L, n - 1 \in S PROVE n \in S
    <3>1. L - n + 1 \in 1 .. L /\ (L - n + 1) - 1 = L - n /\ L - (n - 1) = L - n + 1
          /\ n \in 0 .. L /\ n # 0
      BY <1>0
    <3>2. h[L - n + 1] \div 2 = h[L - n]
      BY <1>5, <3>1
    <3> QED BY <1>8, <2>2, <3>1, <3>2
  <2>3. \A n \in 0 .. L : n \in S
    <3> HIDE DEF S, L
    <3> QED BY <1>0, <2>1, <2>2, UpTo
  <2> QED BY <2>3
<1>10. ASSUME NEW b \in Bits, \E i \in DOMAIN at : at[i] = b
       PROVE  shifted[From(b)] % 2 = d[b]
  <2> DEFINE i == CHOOSE j \in DOMAIN at : at[j] = b
             k == RawBit(r, i)
  <2>1. i \in 0 .. L - 1 /\ at[i] = b
    BY <1>0, <1>10
  <2>2. From(b) = k
    BY DEF RawBit
  <2> HIDE DEF i, k
  <2>3. k \in 0 .. L - 1 /\ RawBit(r, k) = i
    <3>1. CASE r.little_endian
      BY <2>1, <3>1 DEF RawBit, k
    <3>2. CASE ~r.little_endian
      <4>1. k = L - 1 - i
        BY <3>2 DEF RawBit, k
      <4>2. RawBit(r, k) = L - 1 - k
        BY <3>2 DEF RawBit
      <4> HIDE DEF k
      <4> QED BY <1>0, <2>1, <4>1, <4>2
    <3> QED BY <3>1, <3>2
  <2>4. L - k \in 1 .. L /\ L - (L - k) = k /\ k \in 0 .. L
    BY <1>0, <2>3
  <2>5. shifted[k] % 2 = ShownBit(d, r, k)
    BY <1>5, <1>9, <2>4
  <2>6. ShownBit(d, r, k) = d[b]
    BY <2>1, <2>3, SamePositions DEF ShownBit, at
  <2> QED BY <2>2, <2>5, <2>6
<1> HIDE DEF From
<1>11. d = [b \in Bits |-> d[b]]
  BY DEF Payload
<1> QED BY <1>1, <1>10, <1>11

-----------------------------------------------------------------------------
(* The bit editor.  Its payload and range are always well formed, and      *)
(* unless the user has typed a value, or a status answer has changed the   *)
(* operation, since the bits were last rendered, the value is what the     *)
(* bits spell.                                                             *)
Lists == Answers \cup {{Demo}}
SyncedInv ==
  fresh /\ operation = "REPLACE" /\ Accepts(range) => value = ExtractSignalRaw(data, range)
EditorInv ==
  /\ latest \in Lists /\ source \in Lists /\ displayed \subseteq source
  /\ data \in Payload /\ range \in BitRange
  /\ SyncedInv

LEMMA ListedFrame ==
  ASSUME NEW answer \in Lists, NEW f \in answer
  PROVE  /\ f.data \in Payload /\ f.decoded \in Seq(BitRange)
         /\ \A g \in answer : g.key = f.key => g = f
<1>1. CASE answer \in Answers
  BY <1>1, ScopeEditorAssumption
<1>2. CASE answer = {Demo}
  <2>1. f = Demo /\ \A g \in answer : g = f
    BY <1>2
  <2>2. Zeros \in Payload /\ <<>> \in Seq(BitRange)
    BY DEF Zeros, Payload
  <2> QED BY <2>1, <2>2 DEF Demo
<1> QED BY <1>1, <1>2 DEF Lists

LEMMA ZerosSpellZero ==
  ASSUME NEW r \in BitRange, Accepts(r), ~r.is_signed
  PROVE  ExtractSignalRaw(Zeros, r) = 0
<1>0. Zeros \in Payload /\ r.length \in Nat
  BY RangeType DEF Zeros, Payload
<1>1. PICK h : Spelt(Zeros, r, h)
  BY <1>0, SpeltExists
<1> DEFINE S == {n \in 0 .. r.length : h[n] = 0}
<1>2. 0 \in S
  BY <1>0, <1>1 DEF Spelt
<1>3. ASSUME NEW n \in 1 .. r.length, n - 1 \in S PROVE n \in S
  <2>1. r.length - n \in 0 .. r.length - 1 /\ n \in 0 .. r.length
    BY <1>0
  <2>2. Position(r)[RawBit(r, r.length - n)] \in Bits
    BY <1>0, <2>1, ShownBitType, SamePositions
  <2>3. ShownBit(Zeros, r, r.length - n) = 0
    BY <2>2 DEF ShownBit, Zeros
  <2>4. h[n] = 2 * h[n - 1] + 0
    BY <1>1, <2>3 DEF Spelt
  <2> QED BY <1>3, <2>1, <2>4
<1>4. \A n \in 0 .. r.length : n \in S
  <2> HIDE DEF S
  <2> QED BY <1>0, <1>2, <1>3, UpTo
<1>5. r.length \in S
  <2>1. r.length \in 0 .. r.length
    BY <1>0
  <2> HIDE DEF S
  <2> QED BY <1>4, <2>1
<1>6. ReadBits(Zeros, r) = 0
  BY <1>0, <1>1, <1>5, ReadIsSpelt
<1> QED BY <1>6 DEF ExtractSignalRaw

LEMMA EditorInitially == EditorInit => EditorInv
<1> SUFFICES ASSUME EditorInit PROVE EditorInv
  OBVIOUS
<1>1. Min({ByteBits, Width}) = ByteBits /\ ByteBits \in 1 .. Width /\ 0 \in Bits
  BY EditorSizes, LeastOfTwo DEF Bits
<1>2. range \in BitRange /\ ~range.is_signed
  BY <1>1 DEF EditorInit, BitRange
<1>3. SyncedInv
  BY <1>2, ZerosSpellZero DEF EditorInit, SyncedInv
<1>4. data \in Payload
  BY DEF EditorInit, Zeros, Payload
<1> QED BY <1>2, <1>3, <1>4 DEF EditorInit, EditorInv, Lists

(* What a rendering of the bits leaves behind.                             *)
LEMMA RenderedBits ==
  ASSUME EditorInv, UNCHANGED table, data' \in Payload, range' \in BitRange,
         RenderRawBitEditor
  PROVE  EditorInv'
<1>1. Accepts(range') => Extractable(range')
  BY SamePositions DEF Extractable
<1>2. SyncedInv'
  BY <1>1 DEF SyncedInv, RenderRawBitEditor, SyncedValue
<1> QED BY <1>2 DEF EditorInv, table

LEMMA OnlyTheTable ==
  ASSUME EditorInv, UNCHANGED editor, latest' \in Lists, source' \in Lists,
         displayed' \subseteq source',
         fresh' => fresh /\ operation' = operation
  PROVE  EditorInv'
  BY DEF EditorInv, SyncedInv, editor

LEMMA EditedRange ==
  ASSUME NEW r \in BitRange, NEW b \in Bits, NEW n \in 1 .. Width
  PROVE  [r EXCEPT !.start_bit = b, !.length = n] \in BitRange
  BY DEF BitRange

LEMMA EditedByte ==
  ASSUME EditorInv, NEW k \in 0 .. Bytes - 1
  PROVE  /\ [range EXCEPT !.start_bit = k * ByteBits, !.length = ByteBits] \in BitRange
         /\ \A byte \in Nat :
              [b \in Bits |-> IF b \div ByteBits = k
                              THEN (byte \div TwoTo[b % ByteBits]) % 2 ELSE data[b]]
                \in Payload
<1>1. k * ByteBits \in Bits
  <2>1. Bytes \in Nat /\ ByteBits \in Nat \ {0} /\ k \in Nat /\ k + 1 <= Bytes
    BY ScopeEditorAssumption
  <2>2. (k + 1) * ByteBits <= Bytes * ByteBits
    BY <2>1
  <2>3. (k + 1) * ByteBits = k * ByteBits + ByteBits /\ k * ByteBits \in Nat
        /\ Bytes * ByteBits = ByteBits * Bytes
    BY <2>1
  <2> QED BY <2>1, <2>2, <2>3, EditorSizes DEF Bits, Width
<1>2. [range EXCEPT !.start_bit = k * ByteBits, !.length = ByteBits] \in BitRange
  <2>1. ByteBits \in 1 .. Width /\ range \in BitRange
    BY EditorSizes DEF EditorInv
  <2> DEFINE start == k * ByteBits
  <2> HIDE DEF start
  <2>2. [range EXCEPT !.start_bit = start, !.length = ByteBits] \in BitRange
    BY <1>1, <2>1, EditedRange DEF start
  <2> QED BY <2>2 DEF start
<1>3. ASSUME NEW byte \in Nat, NEW b \in Bits
      PROVE  (byte \div TwoTo[b % ByteBits]) % 2 \in 0 .. 1
  <2>1. b % ByteBits \in 0 .. Width
    <3>1. b \in Nat
      BY <1>3, EditorSizes DEF Bits
    <3>2. b % ByteBits \in 0 .. ByteBits - 1
      BY <3>1, EditorSizes
    <3> QED BY <3>2, EditorSizes
  <2>2. TwoTo[b % ByteBits] \in Nat \ {0}
    BY <2>1, Doubling
  <2>3. byte \div TwoTo[b % ByteBits] \in Int
    BY <2>2
  <2> QED BY <2>3
<1>4. \A b \in Bits : data[b] \in 0 .. 1
  BY DEF EditorInv, Payload
<1> QED BY <1>2, <1>3, <1>4 DEF Payload

LEMMA BitClicked ==
  ASSUME EditorInv, NEW b \in Bits, ClickBit(b)
  PROVE  EditorInv'
<1>1. data' \in Payload
  BY DEF EditorInv, ClickBit, Payload
<1>2. range' \in BitRange
  <2>1. CASE SignalsWith(b) = {}
    <3>1. range' = [range EXCEPT !.start_bit = b, !.length = 1] /\ 1 \in 1 .. Width
      BY <2>1, EditorSizes DEF ClickBit
    <3> QED BY <3>1, EditedRange DEF EditorInv
  <2>2. CASE SignalsWith(b) # {}
    <3> DEFINE i == Min(SignalsWith(b))
    <3>1. i \in SignalsWith(b)
      <4>1. SignalsWith(b) \subseteq Nat
        BY DEF SignalsWith
      <4>2. \E m \in SignalsWith(b) : \A n \in SignalsWith(b) : m <= n
        BY <2>2, <4>1, LeastOf
      <4> QED BY <4>2 DEF Min
    <3>2. PICK g \in Find(displayed, selected) : i \in DOMAIN g.decoded
      <4> HIDE DEF i
      <4> QED BY <3>1 DEF SignalsWith
    <3>3. PICK f \in Find(displayed, selected) : range' = f.decoded[i]
      BY <2>2 DEF ClickBit
    <3> HIDE DEF i
    <3>4. f \in source /\ g \in source /\ g.key = f.key
      BY <3>2, <3>3 DEF EditorInv, Find
    <3>5. g = f /\ f.decoded \in Seq(BitRange)
      BY <3>4, ListedFrame DEF EditorInv
    <3> QED BY <3>2, <3>3, <3>5
  <2> QED BY <2>1, <2>2
<1> QED BY <1>1, <1>2, RenderedBits DEF ClickBit

LEMMA FrameClicked ==
  ASSUME EditorInv, NEW f \in displayed, ClickFrame(f)
  PROVE  EditorInv'
<1>1. f.data \in Payload /\ f.decoded \in Seq(BitRange)
  BY ListedFrame DEF EditorInv
<1>2. f.decoded # <<>> => f.decoded[1] \in BitRange
  BY <1>1
<1>3. data' \in Payload /\ range' \in BitRange
  BY <1>1, <1>2 DEF EditorInv, ClickFrame
<1>4. Accepts(range') => Extractable(range')
  BY <1>3, SamePositions DEF Extractable
<1>5. /\ value' = SyncedValue(SyncedValue(value, data', range, operation'),
                              data', range', operation')
      /\ UNCHANGED table
  BY DEF ClickFrame
<1>6. SyncedInv'
  BY <1>4, <1>5 DEF SyncedInv, SyncedValue
<1> QED BY <1>3, <1>5, <1>6 DEF EditorInv, table

LEMMA AnswerShown ==
  ASSUME EditorInv, NEW answer \in Lists, ApplyStatus(answer)
  PROVE  EditorInv'
<1>1. UNCHANGED editor /\ latest' = answer
  BY DEF ApplyStatus
<1>2. source' \in Lists /\ displayed' \subseteq source'
  BY <1>1 DEF EditorInv, ApplyStatus, PollRenders, RenderFrames, ApplyFrameFilter
<1>3. fresh' => fresh /\ operation' = operation
  BY DEF ApplyStatus, RefreshSignalPicker, mode
<1> QED BY <1>1, <1>2, <1>3, OnlyTheTable

LEMMA EditorStep == EditorInv /\ [EditorNext]_editorVars => EditorInv'
<1> SUFFICES ASSUME EditorInv, [EditorNext]_editorVars PROVE EditorInv'
  OBVIOUS
<1>1. CASE UNCHANGED editorVars
  BY <1>1 DEF EditorInv, SyncedInv, editorVars, table, editor, mode
<1>2. CASE StatusAnswers \/ StatusFails
  BY <1>2, AnswerShown DEF StatusAnswers, StatusFails, Lists
<1>3. CASE TogglePause
  <2>1. source' \in Lists /\ displayed' \subseteq source' /\ latest' \in Lists
    BY <1>3 DEF TogglePause, Resume, RenderFrames, ApplyFrameFilter, EditorInv
  <2> QED BY <1>3, <2>1, OnlyTheTable DEF TogglePause, mode
<1>4. ASSUME NEW keys \in Filters \cup {Everything}, TypeFilter(keys) PROVE EditorInv'
  <2>1. source' \in Lists /\ displayed' \subseteq source' /\ latest' \in Lists
    BY <1>4 DEF TypeFilter, RenderFrames, ApplyFrameFilter, EditorInv
  <2> QED BY <1>4, <2>1, OnlyTheTable DEF TypeFilter, mode
<1>5. ASSUME NEW f \in displayed, ClickFrame(f) PROVE EditorInv'
  BY <1>5, FrameClicked
<1>6. ASSUME NEW i \in 0 .. Width - 1, ChooseSignal(i) PROVE EditorInv'
  <2>1. PICK f \in Find(displayed, selected) :
          i + 1 \in DOMAIN f.decoded /\ range' = f.decoded[i + 1]
    BY <1>6 DEF ChooseSignal
  <2>2. f.decoded \in Seq(BitRange)
    BY ListedFrame DEF EditorInv, Find
  <2>3. range' \in BitRange
    BY <2>1, <2>2
  <2> QED BY <1>6, <2>3, RenderedBits DEF ChooseSignal, EditorInv
<1>7. ASSUME NEW b \in Bits, ClickBit(b) PROVE EditorInv'
  BY <1>7, BitClicked
<1>8. ASSUME NEW k \in 0 .. Bytes - 1, FocusByte(k) PROVE EditorInv'
  BY <1>8, EditedByte, RenderedBits DEF FocusByte, EditorInv
<1>9. ASSUME NEW k \in 0 .. Bytes - 1, NEW byte \in 0 .. TwoTo[ByteBits] - 1,
             CommitRawByte(k, byte)
      PROVE  EditorInv'
  <2>1. byte \in Nat
    BY Doubling, EditorSizes
  <2>2. data' \in Payload
    BY <1>9, <2>1, EditedByte DEF CommitRawByte
  <2> QED BY <1>9, <2>2, RenderedBits DEF CommitRawByte, EditorInv
<1>10. ASSUME NEW r \in Ranges, TypeRange(r) PROVE EditorInv'
  <2>1. r \in BitRange
    BY ScopeEditorAssumption
  <2> QED BY <1>10, <2>1, RenderedBits DEF TypeRange, EditorInv
<1>11. ASSUME NEW op \in Operations, ChooseOperation(op) PROVE EditorInv'
  BY <1>11, RenderedBits DEF ChooseOperation, EditorInv
<1>12. CASE TypeValue(1)
  BY <1>12 DEF TypeValue, EditorInv, SyncedInv, table
<1>13. CASE ClearRawOverrides \/ \E b \in Bits : CycleRawOverride(b)
  BY <1>13, RenderedBits DEF ClearRawOverrides, CycleRawOverride, EditorInv
<1> QED BY <1>1, <1>2, <1>3, <1>4, <1>5, <1>6, <1>7, <1>8, <1>9, <1>10, <1>11, <1>12, <1>13
        DEF EditorNext, User

(* Staging a REPLACE as the bit editor stands changes nothing in the frame *)
(* it shows: the page's reading of a range (extractSignalRawBigInt) and    *)
(* the device's writing of it (convertPhysicalToRaw, buildBitMaskAndValue) *)
(* are inverse, in both byte orders, signed or not, for every range that   *)
(* stays in the frame and that a float can hold.                           *)
THEOREM ReplacesAreExact == WebPagesSpec => []ReplaceMakesTheFrameShown
<1>1. WebPagesInit => EditorInv
  BY EditorInitially DEF WebPagesInit
<1>2. EditorInv /\ [WebPagesNext]_WebPagesVars => EditorInv'
  <2>1. [WebPagesNext]_WebPagesVars => [EditorNext]_editorVars
    BY DEF WebPagesNext, WebPagesVars
  <2> QED BY <2>1, EditorStep
<1>3. EditorInv => ReplaceMakesTheFrameShown
  BY FrameIsKept DEF EditorInv, SyncedInv, ReplaceMakesTheFrameShown
<1> QED BY <1>1, <1>2, <1>3, PTL DEF WebPagesSpec
=============================================================================

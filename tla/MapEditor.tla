------------------------------ MODULE MapEditor ------------------------------
(***************************************************************************)
(* The map editor (data/assets/js/openhaldex-legacy-ui.js, initMapPage): a *)
(* lock table over throttle rows and speed columns, edited cell by cell,   *)
(* shaped column by column, kept as the device's current map and in its    *)
(* map files, and exported to and imported from a text of tab-separated    *)
(* cells.  A text is a sequence of lines, a line a sequence of numbers: a  *)
(* label such as "T40" is the number in it, a heading no number at all.    *)
(*                                                                         *)
(* A definition named ...Mutant is a faulty version of the one after it,   *)
(* kept to show that a property notices the fault; nothing uses it.        *)
(***************************************************************************)
EXTENDS PageCalls, Integers, Sequences

CONSTANTS
  DefaultSpeed, DefaultThrottle, DefaultLock,
  SpeedMax, ThrottleMax, CellMax,    \* 255, 100, 100
  Maps,                              \* what the device may hold as its current map
  MapNames,                          \* the names of map files
  Texts,                             \* other texts a user may import
  TypedCells                         \* what the user may type

NaN == -1          \* parseInt of what is no number; the page knows none below 0
Cells == Nat \cup {NaN}
MapTexts == Seq(Seq(Cells) \ {<<>>})  \* texts without an empty line
RawMap == [speed : Seq(Cells), throttle : Seq(Cells), lock : Seq(Seq(Cells))]

ASSUME MapEditorAssumption ==
  /\ SpeedMax \in Nat /\ ThrottleMax \in Nat /\ CellMax \in Nat
  /\ DefaultSpeed \in Seq(0 .. SpeedMax) \ {<<>>}
  /\ DefaultThrottle \in Seq(0 .. ThrottleMax) \ {<<>>}
  /\ DefaultLock \in [1 .. Len(DefaultThrottle) -> [1 .. Len(DefaultSpeed) -> 0 .. CellMax]]
  /\ Maps \subseteq RawMap /\ Maps # {}
  /\ Texts \subseteq MapTexts /\ TypedCells \subseteq Cells

MapRows == Len(DefaultThrottle)
MapCols == Len(DefaultSpeed)
EditorMap ==
  [speed : [1 .. MapCols -> 0 .. SpeedMax],
   throttle : [1 .. MapRows -> 0 .. ThrottleMax],
   lock : [1 .. MapRows -> [1 .. MapCols -> 0 .. CellMax]]]
DefaultMap == [speed |-> DefaultSpeed, throttle |-> DefaultThrottle, lock |-> DefaultLock]

VARIABLES
  device_map,    \* the current map of the device
  map_files,     \* its files: a function from names to maps
  map,           \* the map that the page shows
  selected_col,  \* the column to shape, 0 for none
  selected_file  \* mapSelect: the file that is selected, "" for none

mapVars == <<device_map, map_files, map, selected_col, selected_file>>

-----------------------------------------------------------------------------
(* normalizeBins and normalizeLockTable: the default for what is missing   *)
(* or no number, and the bounds.                                           *)
Bounded(n, default, limit) ==
  IF n = NaN THEN default ELSE IF n > limit THEN limit ELSE n
At(list, i, default) == IF i \in DOMAIN list THEN list[i] ELSE default

NormalizeBins(bins, default, limit) ==
  [i \in DOMAIN default |-> Bounded(At(bins, i, default[i]), default[i], limit)]
NormalizeLockTable(table) ==
  [r \in 1 .. MapRows |-> [c \in 1 .. MapCols |->
     Bounded(At(At(table, r, <<>>), c, 0), 0, CellMax)]]

NormalizeMap(speed, throttle, table) ==
  [speed |-> NormalizeBins(speed, DefaultSpeed, SpeedMax),
   throttle |-> NormalizeBins(throttle, DefaultThrottle, ThrottleMax),
   lock |-> NormalizeLockTable(table)]

(* exportTxt: a header and, for every throttle, its label, its value and   *)
(* its cells.                                                              *)
ToTxt(m) ==
  <<<<NaN, NaN>> \o m.speed>>
    \o [r \in 1 .. MapRows |-> <<m.throttle[r], m.throttle[r]>> \o m.lock[r]]

(* fromTxt: a row's throttle is its label, or its value when the label is  *)
(* 0 or no number.                                                         *)
Tail2(line) == SubSeq(line, 3, Len(line))
Readable(text) == Len(text) >= 2 /\ Len(text[1]) >= 3
FromTxtMutant(text) ==
  NormalizeMap(
    Tail2(text[1]),
    [r \in 1 .. Len(text) - 1 |->
       IF text[r + 1][1] \in {0, NaN} THEN At(text[r + 1], 2, NaN) ELSE text[r + 1][1]],
    [r \in 1 .. Len(text) - 1 |-> Tail(text[r + 1])])
FromTxt(text) ==
  NormalizeMap(
    Tail2(text[1]),
    [r \in 1 .. Len(text) - 1 |->
       IF text[r + 1][1] \in {0, NaN} THEN At(text[r + 1], 2, NaN) ELSE text[r + 1][1]],
    [r \in 1 .. Len(text) - 1 |-> Tail2(text[r + 1])])

(* applyColumnShape: a straight line from the first row to the last, with  *)
(* halves rounded up.                                                      *)
ShapedCell(start, end, r) ==
  IF MapRows = 1 THEN Bounded(start, 0, CellMax)
  ELSE LET n == MapRows - 1
       IN  Bounded((2 * (start * n + (end - start) * (r - 1)) + n) \div (2 * n), 0, CellMax)

-----------------------------------------------------------------------------
(* The device.  A request that replaces its current map tells the saves    *)
(* under way, so that SavedAsIsShown can leave them out.                   *)
Told(c, d, op, body) ==
  IF d = c THEN [op |-> op, at |-> "done", body |-> body]
  ELSE IF IsDone(d, "first") \/ calls[d].op = "second"
       THEN [calls[d] EXCEPT !.body.replaced = TRUE] ELSE calls[d]
Replaces(c, new) ==
  /\ device_map' = new
  /\ calls' = [d \in CallSlots |-> Told(c, d, calls[c].op, calls[c].body)]

KeptFiles == {name \in MapNames : map_files[name] # <<>>}
MapAnswers(c) ==
  /\ UNCHANGED <<map, selected_col, selected_file, user_steps>>
  /\ \/ /\ IsSent(c, "read")
        /\ Put(c, Done(c, [path |-> calls[c].body.path, map |-> device_map]))
        /\ UNCHANGED <<device_map, map_files>>
     \/ /\ IsSent(c, "list")
        /\ Put(c, Done(c, [path |-> calls[c].body.path, listed |-> KeptFiles]))
        /\ UNCHANGED <<device_map, map_files>>
     \/ /\ IsSent(c, "write") \/ IsSent(c, "import") \/ IsSent(c, "first")
        /\ Replaces(c, calls[c].body.map) /\ UNCHANGED map_files
     \/ /\ IsSent(c, "second") /\ Put(c, Done(c, calls[c].body))
        /\ map_files' = [map_files EXCEPT ![calls[c].body.name] = <<device_map>>]
        /\ UNCHANGED device_map
     \/ /\ IsSent(c, "open") /\ map_files[calls[c].body.path] # <<>>
        /\ Replaces(c, map_files[calls[c].body.path][1]) /\ UNCHANGED map_files
     \/ /\ IsSent(c, "delete") /\ Put(c, Done(c, calls[c].body))
        /\ map_files' = [map_files EXCEPT ![calls[c].body.path] = <<>>]
        /\ UNCHANGED device_map

(* loadFromDevice, also after a file was loaded: what was edited meanwhile *)
(* is replaced.                                                            *)
RefreshesList(c, path) == Put(c, Sent("list", [path |-> path]))
FinishRead(c) ==
  /\ IsDone(c, "read")
  /\ IF calls[c].body.path = "" THEN Ends(c) ELSE RefreshesList(c, calls[c].body.path)
  /\ map' = LET read == calls[c].body.map
            IN  NormalizeMap(read.speed, read.throttle, read.lock)
  /\ UNCHANGED <<device_map, map_files, selected_col, selected_file, user_steps>>

(* refreshMapList selects the path it was given, if that is listed or what *)
(* the device calls current, or else any file that is listed, or none.     *)
FinishList(c) ==
  /\ IsDone(c, "list") /\ Ends(c)
  /\ LET path == calls[c].body.path  listed == calls[c].body.listed
     IN  selected_file' \in IF path \in listed THEN {path}
                           ELSE IF path # "" THEN {path, ""} ELSE {""} \cup listed
  /\ UNCHANGED <<device_map, map_files, map, selected_col, user_steps>>

(* saveMapAs: the map first, then the name to keep it under; every other   *)
(* handler goes on by reading the map or the list again.                   *)
GoesOn(c) ==
  /\ \/ IsDone(c, "first") /\ Put(c, Sent("second", calls[c].body))
     \/ IsDone(c, "second") /\ RefreshesList(c, calls[c].body.name)
     \/ IsDone(c, "open") /\ Put(c, Sent("read", calls[c].body))
     \/ (IsDone(c, "import") \/ IsDone(c, "delete")) /\ RefreshesList(c, "")
     \/ IsDone(c, "write") /\ Ends(c)
  /\ UNCHANGED <<mapVars, user_steps>>

(* saveCurrent and loadFromDevice swallow what they catch.                 *)
MapCallFails(c) ==
  /\ \/ calls[c].op = "import" /\ RefreshesList(c, "")
     \/ calls[c].op = "read" /\ calls[c].body.path # ""
        /\ RefreshesList(c, calls[c].body.path)
     \/ Fails(c) /\ calls[c].op # "import"
        /\ (calls[c].op = "read" => calls[c].body.path = "")
  /\ UNCHANGED <<mapVars, user_steps>>

-----------------------------------------------------------------------------
(* The user.                                                               *)
EditCell ==
  \/ \E r \in 1 .. MapRows, c \in 1 .. MapCols, n \in TypedCells :
       map' = [map EXCEPT !.lock[r][c] = Bounded(n, @, CellMax)]
  \/ \E c \in 1 .. MapCols, n \in TypedCells :
       map' = [map EXCEPT !.speed[c] = Bounded(n, @, SpeedMax)]
  \/ \E r \in 1 .. MapRows, n \in TypedCells :
       map' = [map EXCEPT !.throttle[r] = Bounded(n, @, ThrottleMax)]
  \/ \E start, end \in TypedCells \ {NaN} :
       /\ selected_col # 0
       /\ map' = [map EXCEPT !.lock = [r \in 1 .. MapRows |->
                    [@[r] EXCEPT ![selected_col] = ShapedCell(start, end, r)]]]

EditMap ==
  /\ EditCell
  /\ UNCHANGED <<device_map, map_files, selected_col, selected_file, calls>>

SelectColumn(c) ==
  selected_col' = c /\ UNCHANGED <<device_map, map_files, map, selected_file, calls>>
SelectFile(name) ==
  /\ name \in KeptFiles /\ selected_file' = name
  /\ UNCHANGED <<device_map, map_files, map, selected_col, calls>>

RefreshList == Start(Sent("list", [path |-> selected_file])) /\ UNCHANGED mapVars
LoadFromDevice == Start(Sent("read", [path |-> ""])) /\ UNCHANGED mapVars
SaveCurrent == Start(Sent("write", [map |-> map])) /\ UNCHANGED mapVars

SaveMapAsMutant(name) ==
  /\ Start(Sent("second", [map |-> map, name |-> name, replaced |-> FALSE]))
  /\ UNCHANGED mapVars
SaveMapAs(name) ==
  /\ Start(Sent("first", [map |-> map, name |-> name, replaced |-> FALSE]))
  /\ UNCHANGED mapVars

LoadSelectedMap ==
  selected_file # "" /\ Start(Sent("open", [path |-> selected_file])) /\ UNCHANGED mapVars
DeleteSelectedMap ==
  selected_file # "" /\ Start(Sent("delete", [path |-> selected_file])) /\ UNCHANGED mapVars

(* A text is shown and saved at once.                                      *)
ImportText(text) ==
  /\ Readable(text)
  /\ map' = FromTxt(text)
  /\ Start(Sent("import", [map |-> FromTxt(text)]))
  /\ UNCHANGED <<device_map, map_files, selected_col, selected_file>>

MapInit ==
  /\ device_map \in Opened("map", Maps)
  /\ map_files = [name \in MapNames |-> <<>>]
  /\ map = DefaultMap /\ selected_col = 0 /\ selected_file = ""
  /\ IF page = "map" THEN CallsInit(<<Sent("read", [path |-> ""]), Sent("list", [path |-> ""])>>) ELSE TRUE

MapNext ==
  \/ \E c \in CallSlots :
       \/ MapAnswers(c) \/ FinishRead(c) \/ FinishList(c)
       \/ GoesOn(c) \/ MapCallFails(c)
  \/ /\ UserActs
     /\ \/ EditMap \/ RefreshList \/ LoadFromDevice \/ SaveCurrent
        \/ LoadSelectedMap \/ DeleteSelectedMap
        \/ \E c \in 1 .. MapCols : SelectColumn(c)
        \/ \E name \in MapNames : SelectFile(name) \/ SaveMapAs(name)
        \/ \E text \in Texts \cup {ToTxt(map)} : ImportText(text)

-----------------------------------------------------------------------------
(* A map that was exported comes back as it was, with its bins, whatever   *)
(* was typed, shaped, loaded or imported before.                           *)
MapTextRoundTrips == Readable(ToTxt(map)) /\ FromTxt(ToTxt(map)) = map

(* "Saved" under a name is the map that the page showed at the click,      *)
(* unless another request replaced the device's map between the two posts. *)
SavedAsIsShown ==
  [][\A c \in CallSlots :
       (IsSent(c, "second") /\ MapAnswers(c) /\ ~calls[c].body.replaced)
         => map_files'[calls[c].body.name] = <<calls[c].body.map>>]_mapVars
=============================================================================

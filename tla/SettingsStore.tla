---------------------------- MODULE SettingsStore ----------------------------
(***************************************************************************)
(* Native/PrintscreenJson.cpp: the settings file and its in-memory cache.  *)
(*                                                                         *)
(* Papyrus scripts read and write settings through natives that each hold  *)
(* g_jsonMutex from beginning to end; only SaveEntry() does more than one  *)
(* thing to the disk under it, so it is several actions, between which the *)
(* process may die.  There is one file, reached by several spellings of    *)
(* its name: those that differ in case share a cache entry, others, such   *)
(* as ./PrintScreen, do not.  A document is a function from keys to the    *)
(* type of the value stored there.  `dirty' is written and never read:     *)
(* left out.                                                               *)
(***************************************************************************)
EXTENDS Naturals

CONSTANTS Names,        \* spellings of the file's name that NormalizeFileName() accepts
          Fold,         \* the spelling in lower case of each
          Keys,         \* keys, folded to lower case
          LegacyFiles   \* what an older version may have left on the disk

Types  == {"int", "float", "string"}
Absent == "absent"
Slots  == Types \cup {Absent}
Data   == [Keys -> Slots]            \* the JSON object in memory, flat
Blank  == [k \in Keys |-> Absent]    \* {}

\* A file: its root values under the folded and under another spelling of each key,
\* and those of PapyrusUtil's containers; "torn" is a file that does not parse.
File == [kind : {"missing", "torn", "object"}, root : Data, other : Data,
         bucket : [Types -> Data]]
NoBuckets == [b \in Types |-> Blank]
Flat(d) == [kind |-> "object", root |-> d, other |-> Blank, bucket |-> NoBuckets]
Unread(kind) == [kind |-> kind, root |-> Blank, other |-> Blank, bucket |-> NoBuckets]

ASSUME NamesAssumption == Names # {} /\ Fold \in [Names -> Names]
ASSUME LegacyAssumption ==
  /\ LegacyFiles \subseteq File
  /\ \A f \in LegacyFiles : f.kind # "object" => f = Unread(f.kind)

VARIABLES
  file, tmp,   \* <name>.json and <name>.json.tmp
  cache,       \* g_cache: per cache key the entry's loaded, good and data
  step, saver, \* where SaveEntry() is ("idle": the mutex is free), for which spelling
  asked,       \* per name: the values set since its entry was last read from the disk
  solid,       \* per name: the keys among them that were set while the entry was good
  current,     \* the names whose entry was read or saved since the file last changed
  durable,     \* the settings that are to survive
  givenUp      \* one of the losses SomeCopySurvives names has happened

disk  == <<file, tmp>>
saving == <<step, saver>>
ghosts == <<asked, solid, current, durable, givenUp>>
vars == <<disk, cache, saving, ghosts>>

\* An entry is good only after it has been read or saved.
Entry == {e \in [loaded : BOOLEAN, good : BOOLEAN, data : Data] : e.good => e.loaded}
Fresh == [loaded |-> FALSE, good |-> FALSE, data |-> Blank]

TypeOK ==
  /\ file \in File /\ tmp \in File
  /\ cache \in [Names -> Entry]
  /\ step \in {"idle", "open", "write", "remove", "rename", "saved"}
  /\ saver \in Names
  /\ asked \in [Names -> Data] /\ solid \in [Names -> SUBSET Keys]
  /\ current \subseteq Names
  /\ durable \in Data
  /\ givenUp \in BOOLEAN

-----------------------------------------------------------------------------
(* Reading the file                                                          *)

CacheKey_Exact(name) == name               \* defect: the cache is keyed by the spelling
\* Spellings that differ in (ASCII) case only share a cache entry.
CacheKey(name) == Fold[name]

\* Root keys that differ by case only: the folded spelling wins.
Collapse(f) == [k \in Keys |-> IF f.root[k] # Absent THEN f.root[k] ELSE f.other[k]]

Hoist_Overwrites(d, b) ==                  \* defect: a value already on the root is replaced
  [k \in Keys |-> IF b[k] # Absent THEN b[k] ELSE d[k]]
\* The values of a container go to the root, where a value already there wins.
Hoist(d, b) == [k \in Keys |-> IF d[k] # Absent THEN d[k] ELSE b[k]]

MigrateLegacyData(f) ==
  Hoist(Hoist(Hoist(Collapse(f), f.bucket["string"]), f.bucket["int"]), f.bucket["float"])

Init ==
  /\ file \in LegacyFiles /\ tmp = Unread("missing")
  /\ cache = [n \in Names |-> Fresh]
  /\ step = "idle" /\ saver = CHOOSE n \in Names : TRUE
  /\ asked = [n \in Names |-> Blank] /\ solid = [n \in Names |-> {}]
  /\ current = {}
  /\ durable = MigrateLegacyData(file)
  /\ givenUp = FALSE

\* LoadEntry() from the disk: the file may also fail to open for a moment.
Loads == {[loaded |-> TRUE, good |-> FALSE, data |-> Blank]}
         \cup IF file.kind = "object"
              THEN {[loaded |-> TRUE, good |-> TRUE, data |-> MigrateLegacyData(file)]}
              ELSE {}

\* LoadEntry(): the cached entry, unless there is none yet.
LoadEntry(name) == LET e == cache[CacheKey(name)] IN IF e.loaded THEN {e} ELSE Loads

\* MutableEntry(): the entry of a file that could not be read starts from {}, again
\* at every call.
MutableEntry(name) ==
  {[e EXCEPT !.data = IF e.good THEN e.data ELSE Blank] : e \in LoadEntry(name)}

Store(name, e) ==
  /\ cache' = [cache EXCEPT ![CacheKey(name)] = e]
  /\ current' = IF e.good /\ ~cache[CacheKey(name)].loaded
                THEN current \cup {Fold[name]} ELSE current

\* JsonExists() looks at the disk only; GetErrors() at the entry's error text.
Get(e, type, k) ==
  CASE ~e.good -> Absent
    [] e.good /\ type = "float" -> IF e.data[k] \in {"int", "float"} THEN "float" ELSE Absent
    [] OTHER -> IF e.data[k] = type THEN type ELSE Absent

Has(e, type, k) ==
  /\ e.good
  /\ e.data[k] = type \/ (type = "float" /\ e.data[k] = "int")

-----------------------------------------------------------------------------
(* The natives                                                               *)

Unlocked == step = "idle"

\* Get*, Has*, GetErrors: the first call reads the file, later ones change nothing.
Read(name) ==
  /\ Unlocked
  /\ ~cache[CacheKey(name)].loaded
  /\ \E e \in LoadEntry(name) : Store(name, e)
  /\ UNCHANGED <<disk, saving, asked, solid, durable, givenUp>>

\* IsGood() and Load() read the file again; values set and not saved are dropped.
Reload(name) ==
  /\ Unlocked
  /\ \E e \in Loads :
       /\ cache' = [cache EXCEPT ![CacheKey(name)] = e]
       /\ current' = IF e.good THEN current \cup {Fold[name]} ELSE current \ {Fold[name]}
  /\ asked' = [asked EXCEPT ![Fold[name]] = Blank]
  /\ solid' = [solid EXCEPT ![Fold[name]] = {}]
  /\ UNCHANGED <<disk, saving, durable, givenUp>>

\* Set*Value().
SetValue(name, type, k) ==
  /\ Unlocked
  /\ \E e \in MutableEntry(name) :
       /\ Store(name, [e EXCEPT !.data[k] = type])
       /\ solid' = [solid EXCEPT ![Fold[name]] = @ \cup IF e.good THEN {k} ELSE {}]
  /\ asked' = [asked EXCEPT ![Fold[name]][k] = type]
  /\ UNCHANGED <<disk, saving, durable, givenUp>>

\* SaveEntry(): the entry to write is fetched; the directory may fail to be created.
Save(name) ==
  /\ Unlocked
  /\ \E e \in MutableEntry(name) : Store(name, e)
  /\ saver' = name
  /\ step' \in {"open", "idle"}
  /\ UNCHANGED <<disk, asked, solid, durable, givenUp>>

OpenTarget_Direct == "file"                \* defect: the file itself is truncated
OpenTarget == "tmp"                        \* the file the new text is written to

\* The temporary file is opened and truncated, or cannot be opened.
OpenTemp ==
  /\ step = "open"
  /\ \/ /\ IF OpenTarget = "tmp" THEN tmp' = Unread("torn") /\ UNCHANGED file
                                 ELSE file' = Unread("torn") /\ UNCHANGED tmp
        /\ step' = "write"
        /\ givenUp' = (givenUp \/ (file.kind = "missing" /\ tmp.kind = "object"))
     \/ UNCHANGED <<disk, givenUp>> /\ step' = "idle"
  /\ UNCHANGED <<cache, saver, asked, solid, current, durable>>

WriteFailed_Ignored == "remove"            \* defect: the stream's state is not tested
WriteFailed == "idle"                      \* the save fails, the file is left alone

\* The text is written completely, or the write fails.
WriteTemp ==
  /\ step = "write"
  /\ \/ tmp' = Flat(cache[CacheKey(saver)].data) /\ step' = "remove"
     \/ UNCHANGED tmp /\ step' = WriteFailed
  /\ UNCHANGED <<file, cache, saver, ghosts>>

\* The destination is removed, which may fail and is not checked.  From here on what is
\* to survive is what is being saved, if that was built on what the file held.
RemoveOld ==
  /\ step = "remove"
  /\ \/ UNCHANGED <<file, current, durable, givenUp>>
     \/ /\ file.kind # "missing" /\ file' = Unread("missing")
        /\ IF Fold[saver] \in current
           THEN /\ durable' = cache[CacheKey(saver)].data
                /\ current' = {Fold[saver]}
                /\ UNCHANGED givenUp
           ELSE /\ givenUp' = TRUE
                /\ UNCHANGED <<current, durable>>
  /\ step' = "rename"
  /\ UNCHANGED <<tmp, cache, saver, asked, solid>>

\* The rename succeeds: the save has.
RenameTemp ==
  /\ step = "rename"
  /\ file' = tmp /\ tmp' = Unread("missing")
  /\ cache' = [cache EXCEPT ![CacheKey(saver)].good = TRUE]
  /\ step' = "saved"
  /\ durable' = tmp.root /\ givenUp' = FALSE /\ current' = {Fold[saver]}
  /\ UNCHANGED <<saver, asked, solid>>

\* The rename fails: the temporary file is removed too, which may fail and is not checked.
RenameFails ==
  /\ step = "rename"
  /\ tmp' \in {tmp, Unread("missing")}
  /\ step' = "idle"
  /\ givenUp' = (givenUp \/ (file.kind = "missing" /\ tmp'.kind = "missing"))
  /\ UNCHANGED <<file, cache, saver, asked, solid, current, durable>>

\* Save() returns TRUE.
SaveReturns ==
  /\ step = "saved"
  /\ step' = "idle"
  /\ UNCHANGED <<disk, cache, saver, ghosts>>

\* The game crashes or exits and is started again: only the disk survives.
Restart ==
  /\ cache' = [n \in Names |-> Fresh]
  /\ step' = "idle"
  /\ asked' = [n \in Names |-> Blank] /\ solid' = [n \in Names |-> {}]
  /\ current' = {}
  /\ UNCHANGED <<disk, saver, durable, givenUp>>

SaveStep == OpenTemp \/ WriteTemp \/ RemoveOld \/ RenameTemp \/ RenameFails \/ SaveReturns

Next ==
  \/ \E n \in Names : Read(n) \/ Reload(n) \/ Save(n)
  \/ \E n \in Names, type \in Types, k \in Keys : SetValue(n, type, k)
  \/ SaveStep
  \/ Restart

Spec == Init /\ [][Next]_vars

-----------------------------------------------------------------------------
(* Properties                                                                *)

\* In whatever case the name was written when a value was set, and when the settings are
\* saved, a Save() that succeeds has written the last value set for every key set while
\* the file was readable.
SavedWhatWasSet ==
  step = "saved" =>
    \A k \in solid[Fold[saver]] : file.root[k] = asked[Fold[saver]][k]

\* A save never leaves a file that does not parse: not when a write fails, not when
\* the game dies between any two steps.
FileNeverTorn == [][file'.kind = "torn" => file.kind = "torn"]_vars

\* The settings on the disk survive every failed save and every crash, whole: in the
\* file, or in the temporary file (where nothing looks for them).  Three things give
\* them up: a rename that fails once the file has been removed; the next save after a
\* crash between the two, which truncates that copy; and a save that removed the file
\* and then failed, or died, when its entry was not built on what the file held: the
\* file could not be read, or was saved through another entry since.
SomeCopySurvives ==
  \/ file.kind = "object" /\ MigrateLegacyData(file) = durable
  \/ tmp.kind = "object" /\ tmp.root = durable
  \/ durable = Blank
  \/ givenUp

\* The places an older version stored a value in, the newest first.
Places(f, k) ==
  <<f.root[k], f.other[k], f.bucket["string"][k], f.bucket["int"][k], f.bucket["float"][k]>>
\* The value in the newest place that has one.
Newest(f) == [k \in Keys |->
  IF \A i \in 1..5 : Places(f, k)[i] = Absent THEN Absent
  ELSE Places(f, k)[CHOOSE i \in 1..5 : /\ Places(f, k)[i] # Absent
                                        /\ \A j \in 1..(i - 1) : Places(f, k)[j] = Absent]]

\* An entry read from the disk has, for each key not set since, the newest value the file
\* holds, wherever an older version put it: migration loses nothing.
MigrationKeepsNewest ==
  file.kind = "object" =>
    \A n \in current, k \in Keys :
      asked[n][k] = Absent => cache[n].data[k] = Newest(file)[k]

\* The script decides with Has* whether its file is complete and then reads it with
\* Get*: the two families must agree on every value, types included.
HasAgreesWithGet ==
  \A n \in Names, type \in Types, k \in Keys :
    Has(cache[n], type, k) <=> Get(cache[n], type, k) # Absent

\* "A missing/corrupt file must still be writable so WriteJson() can recreate it with
\* default/current values" (PrintscreenJson.cpp:244): a Save() that succeeds has
\* written every value set since the entry was read.
RecreatesFile ==
  step = "saved" => \A k \in Keys :
    asked[Fold[saver]][k] # Absent => file.root[k] = asked[Fold[saver]][k]
================================================================================

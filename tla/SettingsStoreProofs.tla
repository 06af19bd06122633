------------------------ MODULE SettingsStoreProofs ------------------------
(***************************************************************************)
(* What SettingsStore promises, for every set of names and keys and        *)
(* whatever an older version may have left on the disk.                    *)
(*                                                                         *)
(* The natives run under one mutex, and a save only hands over between its *)
(* own steps, so the argument is about the disk: while a save is past its  *)
(* write the temporary file is exactly the entry (Written); a file that    *)
(* can be read holds the settings that are to survive (FileIsDurable), one *)
(* that cannot never held any (TornIsBlank), and where there is no file    *)
(* the temporary one holds them or they are given up (MissingIsKept).      *)
(* What an entry holds is an invariant of each name (NameInv): a native    *)
(* changes one entry, and the ghosts of the same name.                     *)
(***************************************************************************)
EXTENDS SettingsStore, TLAPS

TheEntry == cache[CacheKey(saver)]

SaverLoaded == step # "idle" => TheEntry.loaded
Written ==
  /\ step \in {"remove", "rename"} => tmp = Flat(TheEntry.data)
  /\ step = "write" => tmp.kind = "torn"
FileIsDurable == file.kind = "object" => MigrateLegacyData(file) = durable
TornIsBlank == file.kind = "torn" => durable = Blank
MissingIsKept ==
  file.kind = "missing" => durable = Blank \/ givenUp \/ tmp = Flat(durable)

DiskInv ==
  TypeOK /\ SaverLoaded /\ Written /\ FileIsDurable /\ TornIsBlank /\ MissingIsKept

SolidKept(n) ==
  solid[n] # {} =>
    cache[n].good /\ \A k \in solid[n] : cache[n].data[k] = asked[n][k]
CurrentGood(n) == n \in current => cache[n].good
CurrentIsDisk(n) ==
  n \in current /\ file.kind = "object" =>
    \A k \in Keys : asked[n][k] = Absent => cache[n].data[k] = MigrateLegacyData(file)[k]

NameInv(n) == SolidKept(n) /\ CurrentGood(n) /\ CurrentIsDisk(n)
EntryInv == SavedWhatWasSet /\ \A n \in Names : NameInv(n)

-----------------------------------------------------------------------------
(* The operators                                                             *)

LEMMA BlankType == Blank \in Data
BY DEF Blank, Data, Slots

LEMMA UnreadType == \A kind \in {"missing", "torn", "object"} : Unread(kind) \in File
BY BlankType DEF Unread, File, NoBuckets

LEMMA FlatType == \A d \in Data : Flat(d) \in File
BY BlankType DEF Flat, File, NoBuckets

LEMMA KeyType == \A n \in Names : CacheKey(n) \in Names /\ Fold[n] \in Names
BY NamesAssumption DEF CacheKey

LEMMA HoistType ==
  ASSUME NEW d \in Data, NEW b \in Data
  PROVE  Hoist(d, b) \in Data
BY DEF Hoist, Data

LEMMA MigrateType == \A f \in File : MigrateLegacyData(f) \in Data
<1> SUFFICES ASSUME NEW f \in File PROVE MigrateLegacyData(f) \in Data
  OBVIOUS
<1>1. Collapse(f) \in Data
  BY DEF Collapse, File, Data
<1>2. /\ f.bucket["string"] \in Data
      /\ f.bucket["int"] \in Data
      /\ f.bucket["float"] \in Data
  BY DEF File, Types
<1>3. QED BY <1>1, <1>2, HoistType DEF MigrateLegacyData

\* Migrating what SaveEntry() wrote changes nothing.
LEMMA MigrateFlat ==
  ASSUME NEW d \in Data
  PROVE  MigrateLegacyData(Flat(d)) = d
<1>1. Collapse(Flat(d)) = d
  BY DEF Collapse, Flat, Data, Blank
<1>2. Hoist(d, Blank) = d
  BY DEF Hoist, Data, Blank
<1>3. /\ Flat(d).bucket["string"] = Blank
      /\ Flat(d).bucket["int"] = Blank
      /\ Flat(d).bucket["float"] = Blank
  BY DEF Flat, NoBuckets, Types
<1>4. QED BY <1>1, <1>2, <1>3 DEF MigrateLegacyData

LEMMA MigrateUnread == \A kind : MigrateLegacyData(Unread(kind)) = Blank
<1> SUFFICES ASSUME NEW kind PROVE MigrateLegacyData(Unread(kind)) = Blank
  OBVIOUS
<1>1. Collapse(Unread(kind)) = Blank
  BY DEF Collapse, Unread, Blank
<1>2. Hoist(Blank, Blank) = Blank
  BY DEF Hoist, Blank
<1>3. /\ Unread(kind).bucket["string"] = Blank
      /\ Unread(kind).bucket["int"] = Blank
      /\ Unread(kind).bucket["float"] = Blank
  BY DEF Unread, NoBuckets, Types
<1>4. QED BY <1>1, <1>2, <1>3 DEF MigrateLegacyData

LEMMA LoadsType == TypeOK => \A e \in Loads : e \in Entry /\ e.loaded
<1> SUFFICES ASSUME TypeOK, NEW e \in Loads PROVE e \in Entry /\ e.loaded
  OBVIOUS
<1>1. CASE e = [loaded |-> TRUE, good |-> FALSE, data |-> Blank]
  BY <1>1, BlankType DEF Entry
<1>2. CASE e = [loaded |-> TRUE, good |-> TRUE, data |-> MigrateLegacyData(file)]
  BY <1>2, MigrateType DEF Entry, TypeOK
<1>3. QED BY <1>1, <1>2 DEF Loads

LEMMA MutableType ==
  ASSUME TypeOK, NEW n \in Names, NEW e \in MutableEntry(n)
  PROVE  e \in Entry /\ e.loaded
<1>1. PICK l \in LoadEntry(n) : e = [l EXCEPT !.data = IF l.good THEN l.data ELSE Blank]
  BY DEF MutableEntry
<1>2. l \in Entry /\ l.loaded
  BY <1>1, LoadsType, KeyType DEF LoadEntry, TypeOK
<1>3. QED BY <1>1, <1>2, BlankType DEF Entry

\* A good entry that is mutable is the cached one, or has just been read.
LEMMA MutableGood ==
  ASSUME TypeOK, NEW n \in Names, NEW e \in MutableEntry(n), e.good
  PROVE  \/ e = cache[CacheKey(n)]
         \/ /\ ~cache[CacheKey(n)].loaded
            /\ file.kind = "object" /\ e.data = MigrateLegacyData(file)
<1>1. PICK l \in LoadEntry(n) : e = [l EXCEPT !.data = IF l.good THEN l.data ELSE Blank]
  BY DEF MutableEntry
<1>2. l \in Entry /\ l.loaded
  BY <1>1, LoadsType, KeyType DEF LoadEntry, TypeOK
<1>3. l.good /\ e = l
  BY <1>1, <1>2 DEF Entry
<1>4. CASE cache[CacheKey(n)].loaded
  BY <1>1, <1>3, <1>4 DEF LoadEntry
<1>5. CASE ~cache[CacheKey(n)].loaded
  <2>1. l \in Loads
    BY <1>5 DEF LoadEntry
  <2>2. file.kind = "object" /\ l.data = MigrateLegacyData(file)
    BY <2>1, <1>3 DEF Loads
  <2>3. QED BY <2>2, <1>3, <1>5
<1>6. QED BY <1>4, <1>5

LEMMA MutableKeeps ==
  ASSUME TypeOK, NEW n \in Names, NEW e \in MutableEntry(n), cache[CacheKey(n)].good
  PROVE  e = cache[CacheKey(n)]
<1>1. cache[CacheKey(n)] \in Entry
  BY KeyType DEF TypeOK
<1>2. cache[CacheKey(n)].loaded
  BY <1>1 DEF Entry
<1>3. QED BY <1>1, <1>2 DEF MutableEntry, LoadEntry, Entry

LEMMA StoreType ==
  ASSUME TypeOK, NEW n \in Names, NEW e \in Entry, Store(n, e)
  PROVE  cache' \in [Names -> Entry] /\ current' \subseteq Names
<1>1. cache' \in [Names -> Entry]
  BY DEF Store, TypeOK
<1>2. current' \subseteq Names
  BY KeyType DEF Store, TypeOK
<1>3. QED BY <1>1, <1>2

-----------------------------------------------------------------------------
(* Types, and what is on the disk                                            *)

LEMMA InitDisk == Init => DiskInv
<1> SUFFICES ASSUME Init PROVE DiskInv
  OBVIOUS
<1> USE DEF Init
<1>1. file \in File /\ tmp \in File
  BY LegacyAssumption, UnreadType
<1>2. TypeOK
  BY <1>1, BlankType, MigrateType, NamesAssumption DEF TypeOK, Entry, Fresh
<1>3. file.kind # "object" => durable = Blank
  BY MigrateUnread, LegacyAssumption
<1>4. SaverLoaded /\ Written
  BY DEF SaverLoaded, Written
<1>5. FileIsDurable
  BY DEF FileIsDurable
<1>6. TornIsBlank
  BY <1>3 DEF TornIsBlank
<1>7. MissingIsKept
  BY <1>3 DEF MissingIsKept
<1>8. QED BY <1>2, <1>4, <1>5, <1>6, <1>7 DEF DiskInv

\* Only a save touches the disk: the rest need only keep the types and the entry that
\* is being written.
LEMMA NextType == TypeOK /\ SaverLoaded /\ [Next]_vars => TypeOK'
<1> SUFFICES ASSUME TypeOK, SaverLoaded, [Next]_vars PROVE TypeOK'
  OBVIOUS
<1> USE DEF disk, saving, ghosts
<1>1. ASSUME NEW n \in Names, Read(n) PROVE TypeOK'
  <2>1. PICK e \in LoadEntry(n) : Store(n, e)
    BY <1>1 DEF Read
  <2>2. e \in Entry
    BY <2>1, LoadsType, KeyType DEF LoadEntry, TypeOK
  <2>3. cache' \in [Names -> Entry] /\ current' \subseteq Names
    BY <2>1, <2>2, StoreType
  <2>4. QED BY <1>1, <2>3 DEF Read, TypeOK
<1>2. ASSUME NEW n \in Names, Reload(n) PROVE TypeOK'
  <2>1. PICK e \in Loads :
          /\ cache' = [cache EXCEPT ![CacheKey(n)] = e]
          /\ current' = IF e.good THEN current \cup {Fold[n]} ELSE current \ {Fold[n]}
    BY <1>2 DEF Reload
  <2>2. cache' \in [Names -> Entry] /\ current' \subseteq Names
    BY <2>1, LoadsType, KeyType DEF TypeOK
  <2>3. asked' \in [Names -> Data] /\ solid' \in [Names -> SUBSET Keys]
    BY <1>2, BlankType DEF Reload, TypeOK
  <2>4. QED BY <1>2, <2>2, <2>3 DEF Reload, TypeOK
<1>3. ASSUME NEW n \in Names, NEW type \in Types, NEW k \in Keys, SetValue(n, type, k)
      PROVE  TypeOK'
  <2>1. PICK e \in MutableEntry(n) :
          /\ Store(n, [e EXCEPT !.data[k] = type])
          /\ solid' = [solid EXCEPT ![Fold[n]] = @ \cup IF e.good THEN {k} ELSE {}]
    BY <1>3 DEF SetValue
  <2>2. [e EXCEPT !.data[k] = type] \in Entry
    BY MutableType DEF Entry, Data, Slots
  <2>3. cache' \in [Names -> Entry] /\ current' \subseteq Names
    BY <2>1, <2>2, StoreType
  <2>4. asked' \in [Names -> Data]
    <3>1. asked[Fold[n]] \in Data
      BY KeyType DEF TypeOK
    <3>2. [asked[Fold[n]] EXCEPT ![k] = type] \in Data
      BY <3>1 DEF Data, Slots
    <3>3. asked' = [asked EXCEPT ![Fold[n]] = [asked[Fold[n]] EXCEPT ![k] = type]]
      BY <1>3 DEF SetValue
    <3>4. QED BY <3>2, <3>3 DEF TypeOK
  <2>6. solid' \in [Names -> SUBSET Keys]
    BY <2>1 DEF TypeOK
  <2>5. QED BY <2>6, <1>3, <2>3, <2>4 DEF SetValue, TypeOK
<1>4. ASSUME NEW n \in Names, Save(n) PROVE TypeOK'
  <2>1. PICK e \in MutableEntry(n) : Store(n, e)
    BY <1>4 DEF Save
  <2>2. cache' \in [Names -> Entry] /\ current' \subseteq Names
    BY <2>1, MutableType, StoreType
  <2>3. QED BY <1>4, <2>2 DEF Save, TypeOK
<1>5. ASSUME OpenTemp PROVE TypeOK'
  BY <1>5, UnreadType DEF OpenTemp, TypeOK
<1>6. ASSUME WriteTemp PROVE TypeOK'
  <2>1. Flat(TheEntry.data) \in File
    BY KeyType, FlatType DEF TheEntry, TypeOK, Entry
  <2>2. QED BY <1>6, <2>1 DEF WriteTemp, WriteFailed, TypeOK, TheEntry
<1>7. ASSUME RemoveOld PROVE TypeOK'
  <2>1. cache[CacheKey(saver)].data \in Data
    BY KeyType DEF TypeOK, Entry
  <2>2. file' \in File /\ durable' \in Data /\ givenUp' \in BOOLEAN
    BY <1>7, <2>1, UnreadType DEF RemoveOld, TypeOK
  <2>3. current' \subseteq Names
    BY <1>7, KeyType DEF RemoveOld, TypeOK
  <2>4. QED BY <1>7, <2>2, <2>3 DEF RemoveOld, TypeOK
<1>8. ASSUME RenameTemp PROVE TypeOK'
  <2>1. tmp.root \in Data /\ Unread("missing") \in File
    BY UnreadType DEF TypeOK, File
  <2>2. cache' \in [Names -> Entry]
    <3>1. TheEntry \in Entry /\ TheEntry.loaded
      BY <1>8, KeyType DEF RenameTemp, SaverLoaded, TheEntry, TypeOK
    <3>2. [TheEntry EXCEPT !.good = TRUE] \in Entry
      BY <3>1 DEF Entry
    <3>3. cache' = [cache EXCEPT ![CacheKey(saver)] = [TheEntry EXCEPT !.good = TRUE]]
      BY <1>8 DEF RenameTemp, TheEntry
    <3>4. QED BY <3>2, <3>3 DEF TypeOK
  <2>3. current' \subseteq Names
    BY <1>8, KeyType DEF RenameTemp, TypeOK
  <2>4. QED BY <1>8, <2>1, <2>2, <2>3 DEF RenameTemp, TypeOK
<1>9. ASSUME RenameFails PROVE TypeOK'
  BY <1>9, UnreadType DEF RenameFails, TypeOK
<1>10. ASSUME SaveReturns PROVE TypeOK'
  BY <1>10 DEF SaveReturns, TypeOK
<1>11. ASSUME Restart PROVE TypeOK'
  BY <1>11, BlankType DEF Restart, TypeOK, Fresh, Entry
<1>12. ASSUME UNCHANGED vars PROVE TypeOK'
  BY <1>12 DEF vars, TypeOK
<1>13. QED
  BY <1>1, <1>2, <1>3, <1>4, <1>5, <1>6, <1>7, <1>8, <1>9, <1>10, <1>11, <1>12
  DEF Next, SaveStep

\* While no save is under way nothing is promised of the entry, and nothing but a save
\* touches the disk.
LEMMA QuietDisk ==
  ASSUME DiskInv, UNCHANGED disk, UNCHANGED <<durable, givenUp>>, step' = "idle"
  PROVE  (SaverLoaded /\ Written /\ FileIsDurable /\ TornIsBlank /\ MissingIsKept)'
BY DEF DiskInv, disk, SaverLoaded, Written, FileIsDurable, TornIsBlank, MissingIsKept

LEMMA NextDisk == DiskInv /\ [Next]_vars => DiskInv'
<1> SUFFICES ASSUME DiskInv, [Next]_vars PROVE DiskInv'
  OBVIOUS
<1> DEFINE Rest == SaverLoaded /\ Written /\ FileIsDurable /\ TornIsBlank /\ MissingIsKept
<1>t. TypeOK'
  BY NextType DEF DiskInv
<1>1. ASSUME NEW n \in Names, Read(n) \/ Reload(n) PROVE Rest'
  BY <1>1, QuietDisk DEF Read, Reload, Unlocked, disk, saving
<1>2. ASSUME NEW n \in Names, NEW type \in Types, NEW k \in Keys, SetValue(n, type, k)
      PROVE  Rest'
  BY <1>2, QuietDisk DEF SetValue, Unlocked, disk, saving
<1>3. ASSUME NEW n \in Names, Save(n) PROVE Rest'
  <2>1. SaverLoaded'
    <3>1. PICK e \in MutableEntry(n) : Store(n, e)
      BY <1>3 DEF Save
    <3>2. e.loaded /\ CacheKey(n) \in Names /\ CacheKey(saver)' = CacheKey(n)
      BY <1>3, MutableType, KeyType DEF CacheKey, DiskInv, Save
    <3>3. QED BY <3>1, <3>2 DEF SaverLoaded, TheEntry, Store, TypeOK, DiskInv
  <2>2. (Written /\ FileIsDurable /\ TornIsBlank /\ MissingIsKept)'
    BY <1>3 DEF Save, disk, DiskInv, Written, FileIsDurable, TornIsBlank, MissingIsKept
  <2>3. QED BY <2>1, <2>2
<1>4. ASSUME OpenTemp PROVE Rest'
  <2>1. SaverLoaded'
    BY <1>4 DEF OpenTemp, OpenTarget, DiskInv, SaverLoaded, TheEntry, CacheKey, disk
  <2>2. Written'
    BY <1>4 DEF OpenTemp, OpenTarget, Written, Unread
  <2>3. (FileIsDurable /\ TornIsBlank)'
    BY <1>4 DEF OpenTemp, OpenTarget, DiskInv, FileIsDurable, TornIsBlank, disk
  <2>4. MissingIsKept'
    <3>1. CASE UNCHANGED <<disk, givenUp>>
      BY <1>4, <3>1 DEF OpenTemp, DiskInv, MissingIsKept, disk
    <3>2. CASE givenUp' = (givenUp \/ (file.kind = "missing" /\ tmp.kind = "object"))
      <4>1. UNCHANGED <<file, durable>>
        BY <1>4 DEF OpenTemp, OpenTarget, disk
      <4>2. tmp = Flat(durable) => tmp.kind = "object"
        BY DEF Flat
      <4>3. QED BY <3>2, <4>1, <4>2, Zenon DEF DiskInv, MissingIsKept
    <3>3. QED BY <1>4, <3>1, <3>2 DEF OpenTemp
  <2>5. QED BY <2>1, <2>2, <2>3, <2>4
<1>5. ASSUME WriteTemp PROVE Rest'
  <2>1. (SaverLoaded /\ Written)'
    BY <1>5 DEF WriteTemp, WriteFailed, DiskInv, SaverLoaded, Written, TheEntry, CacheKey
  <2>2. (FileIsDurable /\ TornIsBlank)'
    BY <1>5 DEF WriteTemp, DiskInv, FileIsDurable, TornIsBlank, ghosts
  <2>3. MissingIsKept'
    BY <1>5 DEF WriteTemp, DiskInv, Written, MissingIsKept, ghosts, Flat
  <2>4. QED BY <2>1, <2>2, <2>3
<1>6. ASSUME RemoveOld PROVE Rest'
  <2>1. (SaverLoaded /\ Written)'
    BY <1>6 DEF RemoveOld, DiskInv, SaverLoaded, Written, TheEntry, CacheKey
  <2>2. (FileIsDurable /\ TornIsBlank)'
    BY <1>6 DEF RemoveOld, DiskInv, FileIsDurable, TornIsBlank, Unread
  <2>3. tmp = Flat(cache[CacheKey(saver)].data)
    BY <1>6 DEF RemoveOld, DiskInv, Written, TheEntry
  <2>4. MissingIsKept'
    BY <1>6, <2>3 DEF RemoveOld, DiskInv, MissingIsKept
  <2>5. QED BY <2>1, <2>2, <2>4
<1>7. ASSUME RenameTemp PROVE Rest'
  <2>1. TheEntry.data \in Data
    BY KeyType DEF TheEntry, DiskInv, TypeOK, Entry
  <2>2. file' = Flat(TheEntry.data) /\ durable' = TheEntry.data
    BY <1>7 DEF RenameTemp, DiskInv, Written, Flat
  <2>3. MigrateLegacyData(file') = durable' /\ file'.kind = "object"
    BY <2>1, <2>2, MigrateFlat DEF Flat
  <2>4. (Written /\ FileIsDurable /\ TornIsBlank /\ MissingIsKept)'
    <3>1. MigrateLegacyData(file)' = MigrateLegacyData(file')
      BY DEF MigrateLegacyData, Hoist, Collapse
    <3>2. QED BY <1>7, <2>3, <3>1
         DEF RenameTemp, Written, FileIsDurable, TornIsBlank, MissingIsKept
  <2>5. SaverLoaded'
    BY <1>7, KeyType DEF RenameTemp, DiskInv, TypeOK, SaverLoaded, TheEntry, CacheKey
  <2>6. QED BY <2>4, <2>5
<1>8. ASSUME RenameFails PROVE Rest'
  <2>1. (SaverLoaded /\ Written /\ FileIsDurable /\ TornIsBlank)'
    BY <1>8 DEF RenameFails, DiskInv, SaverLoaded, Written, FileIsDurable, TornIsBlank
  <2>2. MissingIsKept'
    <3>1. UNCHANGED <<file, durable>> /\ (tmp' = tmp \/ tmp' = Unread("missing"))
      BY <1>8 DEF RenameFails
    <3>2. givenUp' = (givenUp \/ (file.kind = "missing" /\ tmp'.kind = "missing"))
      BY <1>8 DEF RenameFails
    <3>3. tmp' = Unread("missing") => tmp'.kind = "missing"
      BY DEF Unread
    <3>4. QED BY <3>1, <3>2, <3>3, Zenon DEF DiskInv, MissingIsKept
  <2>3. QED BY <2>1, <2>2
<1>9. ASSUME SaveReturns \/ Restart PROVE Rest'
  BY <1>9, QuietDisk DEF SaveReturns, Restart, disk, ghosts
<1>10. ASSUME UNCHANGED vars PROVE Rest'
  BY <1>10 DEF vars, disk, saving, ghosts, DiskInv, SaverLoaded, Written, TheEntry,
               CacheKey, FileIsDurable, TornIsBlank, MissingIsKept
<1>11. Rest'
  BY <1>1, <1>2, <1>3, <1>4, <1>5, <1>6, <1>7, <1>8, <1>9, <1>10 DEF Next, SaveStep
<1>12. QED BY <1>t, <1>11 DEF DiskInv

LEMMA DiskCopy == DiskInv => SomeCopySurvives
<1> SUFFICES ASSUME DiskInv PROVE SomeCopySurvives
  OBVIOUS
<1>1. file.kind \in {"missing", "torn", "object"}
  BY DEF DiskInv, TypeOK, File
<1>2. tmp = Flat(durable) => tmp.kind = "object" /\ tmp.root = durable
  BY DEF Flat
<1>3. QED BY <1>1, <1>2
     DEF DiskInv, FileIsDurable, TornIsBlank, MissingIsKept, SomeCopySurvives

-----------------------------------------------------------------------------
(* What the entries hold                                                     *)

LEMMA InitEntry == Init => EntryInv
<1> SUFFICES ASSUME Init PROVE EntryInv
  OBVIOUS
<1>1. SavedWhatWasSet
  BY DEF Init, SavedWhatWasSet
<1>2. ASSUME NEW n \in Names PROVE NameInv(n)
  BY DEF Init, NameInv, SolidKept, CurrentGood, CurrentIsDisk
<1>3. QED BY <1>1, <1>2 DEF EntryInv

\* A step that leaves alone the file, and the entry and the ghosts of a name, leaves
\* what is promised of that name.
LEMMA OtherName ==
  ASSUME NEW n \in Names, NameInv(n), UNCHANGED file, cache'[n] = cache[n],
         asked'[n] = asked[n], solid'[n] = solid[n], n \in current' => n \in current
  PROVE  NameInv(n)'
<1>1. MigrateLegacyData(file)' = MigrateLegacyData(file)
  BY DEF MigrateLegacyData, Hoist, Collapse
<1>2. (SolidKept(n) /\ CurrentGood(n))'
  BY DEF NameInv, SolidKept, CurrentGood
<1>3. CurrentIsDisk(n)'
  BY <1>1 DEF NameInv, CurrentIsDisk
<1>4. QED BY <1>2, <1>3 DEF NameInv

\* A native changes the entry of its own name only.
LEMMA OneEntry ==
  ASSUME TypeOK, EntryInv, NEW n \in Names, UNCHANGED file,
         \A m \in Names \ {Fold[n]} :
           /\ cache'[m] = cache[m] /\ asked'[m] = asked[m] /\ solid'[m] = solid[m]
           /\ m \in current' => m \in current,
         NameInv(Fold[n])'
  PROVE  \A m \in Names : NameInv(m)'
<1> SUFFICES ASSUME NEW m \in Names PROVE NameInv(m)'
  OBVIOUS
<1>1. CASE m = Fold[n]
  BY <1>1
<1>2. CASE m # Fold[n]
  <2>1. NameInv(m)
    BY DEF EntryInv
  <2>2. m \in Names \ {Fold[n]}
    BY <1>2
  <2>3. QED BY <2>1, <2>2, OtherName
<1>3. QED BY <1>1, <1>2

LEMMA ReadEntry ==
  ASSUME DiskInv, EntryInv, NEW n \in Names, Read(n)
  PROVE  EntryInv'
<1> DEFINE m == Fold[n]
<1>1. m \in Names /\ CacheKey(n) = m /\ cache[m] \in Entry
  BY KeyType DEF CacheKey, DiskInv, TypeOK
<1>2. PICK e \in LoadEntry(n) : Store(n, e)
  BY DEF Read
<1>3. ~cache[m].loaded /\ ~cache[m].good
  BY <1>1 DEF Read, Entry
<1>4. e \in Loads
  BY <1>1, <1>2, <1>3 DEF LoadEntry
<1>5. UNCHANGED <<file, asked, solid>>
  BY DEF Read, disk
<1>6. \A x \in Names \ {m} : cache'[x] = cache[x] /\ (x \in current' => x \in current)
  BY <1>1, <1>2 DEF Store, DiskInv, TypeOK
<1>7. NameInv(m)'
  <2>1. cache'[m] = e /\ current' = IF e.good THEN current \cup {m} ELSE current
    BY <1>1, <1>2, <1>3 DEF Store, DiskInv, TypeOK
  <2>2. NameInv(m)
    BY <1>1 DEF EntryInv
  <2>3. m \notin current /\ solid[m] = {}
    BY <1>3, <2>2 DEF NameInv, CurrentGood, SolidKept
  <2>4. m \in current' => e.good
    BY <2>1, <2>3
  <2>5. e.good => e.data = MigrateLegacyData(file)
    BY <1>4 DEF Loads
  <2>6. MigrateLegacyData(file)' = MigrateLegacyData(file)
    BY <1>5 DEF MigrateLegacyData, Hoist, Collapse
  <2>7. (SolidKept(m) /\ CurrentGood(m))'
    BY <1>5, <2>1, <2>3, <2>4 DEF SolidKept, CurrentGood
  <2>8. CurrentIsDisk(m)'
    BY <2>1, <2>4, <2>5, <2>6 DEF CurrentIsDisk
  <2>9. QED BY <2>7, <2>8 DEF NameInv
<1>8. SavedWhatWasSet'
  BY DEF Read, Unlocked, saving, SavedWhatWasSet
<1>9. \A x \in Names : NameInv(x)'
  BY <1>5, <1>6, <1>7, OneEntry DEF DiskInv
<1>10. QED BY <1>8, <1>9 DEF EntryInv

LEMMA ReloadEntry ==
  ASSUME DiskInv, EntryInv, NEW n \in Names, Reload(n)
  PROVE  EntryInv'
<1> DEFINE m == Fold[n]
<1>1. m \in Names /\ CacheKey(n) = m
  BY KeyType DEF CacheKey
<1>2. PICK e \in Loads :
        /\ cache' = [cache EXCEPT ![m] = e]
        /\ current' = IF e.good THEN current \cup {m} ELSE current \ {m}
  BY <1>1 DEF Reload
<1>3. /\ asked' = [asked EXCEPT ![m] = Blank]
      /\ solid' = [solid EXCEPT ![m] = {}]
      /\ UNCHANGED file
  BY DEF Reload, disk
<1>4. \A x \in Names \ {m} :
        /\ cache'[x] = cache[x] /\ asked'[x] = asked[x] /\ solid'[x] = solid[x]
        /\ x \in current' => x \in current
  BY <1>2, <1>3 DEF DiskInv, TypeOK
<1>5. NameInv(m)'
  <2>1. cache'[m] = e /\ solid'[m] = {}
    BY <1>1, <1>2, <1>3 DEF DiskInv, TypeOK
  <2>2. m \in current' => e.good
    BY <1>2
  <2>3. e.good => e.data = MigrateLegacyData(file)
    BY DEF Loads
  <2>4. MigrateLegacyData(file)' = MigrateLegacyData(file)
    BY <1>3 DEF MigrateLegacyData, Hoist, Collapse
  <2>5. (SolidKept(m) /\ CurrentGood(m))'
    BY <2>1, <2>2 DEF SolidKept, CurrentGood
  <2>6. CurrentIsDisk(m)'
    BY <2>1, <2>2, <2>3, <2>4 DEF CurrentIsDisk
  <2>7. QED BY <2>5, <2>6 DEF NameInv
<1>6. SavedWhatWasSet'
  BY DEF Reload, Unlocked, saving, SavedWhatWasSet
<1>7. \A x \in Names : NameInv(x)'
  BY <1>3, <1>4, <1>5, OneEntry DEF DiskInv
<1>8. QED BY <1>6, <1>7 DEF EntryInv

\* What MutableEntry() returns still has what is promised of the entry.
LEMMA MutableInv ==
  ASSUME DiskInv, EntryInv, NEW n \in Names, NEW e \in MutableEntry(n), Store(n, e),
         UNCHANGED <<file, asked, solid>>
  PROVE  \A m \in Names : NameInv(m)'
<1> DEFINE m == Fold[n]
<1>1. m \in Names /\ CacheKey(n) = m /\ cache[m] \in Entry
  BY KeyType DEF CacheKey, DiskInv, TypeOK
<1>2. \A x \in Names \ {m} : cache'[x] = cache[x] /\ (x \in current' => x \in current)
  BY <1>1 DEF Store, DiskInv, TypeOK
<1>3. NameInv(m)
  BY <1>1 DEF EntryInv
<1>4. NameInv(m)'
  <2>1. CASE cache[m].good
    <3>1. e = cache[m] /\ cache[m].loaded
      BY <1>1, <2>1, MutableKeeps DEF DiskInv, Entry
    <3>2. cache'[m] = cache[m] /\ current' = current
      BY <1>1, <3>1 DEF Store, DiskInv, TypeOK
    <3>3. QED BY <1>1, <1>3, <3>2, OtherName
  <2>2. CASE ~cache[m].good
    <3>1. m \notin current /\ solid[m] = {}
      BY <1>3, <2>2 DEF NameInv, CurrentGood, SolidKept
    <3>2. cache'[m] = e
      BY <1>1 DEF Store, DiskInv, TypeOK
    <3>3. m \in current' => e.good
      BY <1>1, <3>1 DEF Store
    <3>4. e.good => e.data = MigrateLegacyData(file)
      BY <1>1, <2>2, MutableGood DEF DiskInv
    <3>5. MigrateLegacyData(file)' = MigrateLegacyData(file)
      BY DEF MigrateLegacyData, Hoist, Collapse
    <3>6. (SolidKept(m) /\ CurrentGood(m))'
      BY <3>1, <3>2, <3>3 DEF SolidKept, CurrentGood
    <3>7. CurrentIsDisk(m)'
      BY <3>2, <3>3, <3>4, <3>5 DEF CurrentIsDisk
    <3>8. QED BY <3>6, <3>7 DEF NameInv
  <2>3. QED BY <2>1, <2>2
<1>5. QED BY <1>2, <1>4, OneEntry DEF DiskInv

LEMMA SetEntry ==
  ASSUME DiskInv, EntryInv, NEW n \in Names, NEW type \in Types, NEW k \in Keys,
         SetValue(n, type, k)
  PROVE  EntryInv'
<1> DEFINE m == Fold[n]
<1>1. m \in Names /\ CacheKey(n) = m /\ cache[m] \in Entry
  BY KeyType DEF CacheKey, DiskInv, TypeOK
<1>2. PICK e \in MutableEntry(n) :
        /\ Store(n, [e EXCEPT !.data[k] = type])
        /\ solid' = [solid EXCEPT ![m] = @ \cup IF e.good THEN {k} ELSE {}]
  BY DEF SetValue
<1>3. e \in Entry /\ e.loaded
  BY MutableType DEF DiskInv
<1> DEFINE e2 == [e EXCEPT !.data[k] = type]
<1>4. /\ e2.good = e.good /\ e2.data[k] = type
      /\ \A x \in Keys \ {k} : e2.data[x] = e.data[x]
  BY <1>3 DEF Entry, Data
<1>5. /\ cache' = [cache EXCEPT ![m] = e2]
      /\ current' = IF e.good /\ ~cache[m].loaded THEN current \cup {m} ELSE current
  BY <1>1, <1>2, <1>4 DEF Store
<1>6. asked' = [asked EXCEPT ![m] = [asked[m] EXCEPT ![k] = type]] /\ UNCHANGED file
  BY DEF SetValue, disk
<1>7. \A x \in Names \ {m} :
        /\ cache'[x] = cache[x] /\ asked'[x] = asked[x] /\ solid'[x] = solid[x]
        /\ x \in current' => x \in current
  BY <1>2, <1>5, <1>6 DEF DiskInv, TypeOK
<1>8. NameInv(m)
  BY <1>1 DEF EntryInv
<1>9. NameInv(m)'
  <2>1. asked[m] \in Data /\ type # Absent
    BY <1>1 DEF DiskInv, TypeOK, Types, Absent
  <2>2. /\ cache'[m] = e2 /\ asked'[m] = [asked[m] EXCEPT ![k] = type]
        /\ solid'[m] = solid[m] \cup IF e.good THEN {k} ELSE {}
    BY <1>1, <1>2, <1>5, <1>6 DEF DiskInv, TypeOK
  <2>3. /\ asked'[m][k] = type
        /\ \A x \in Keys \ {k} : asked'[m][x] = asked[m][x]
    BY <2>1, <2>2 DEF Data
  <2>4. cache[m].good => e = cache[m]
    BY <1>1, MutableKeeps DEF DiskInv
  <2>5. (m \in current \/ solid[m] # {}) => cache[m].good
    BY <1>8 DEF NameInv, CurrentGood, SolidKept
  <2>6. solid[m] \subseteq Keys
    BY <1>1 DEF DiskInv, TypeOK
  <2>7. SolidKept(m)'
    <3> SUFFICES ASSUME solid'[m] # {}
                 PROVE  cache'[m].good /\ \A x \in solid'[m] : cache'[m].data[x] = asked'[m][x]
      BY DEF SolidKept
    <3>1. e.good
      BY <2>2, <2>4, <2>5
    <3>2. ASSUME NEW x \in solid'[m], x # k PROVE e2.data[x] = asked'[m][x]
      <4>1. x \in solid[m] /\ x \in Keys \ {k}
        BY <2>2, <2>6, <3>2
      <4>2. cache[m].good /\ cache[m].data[x] = asked[m][x]
        BY <1>8, <4>1 DEF NameInv, SolidKept
      <4>3. QED BY <1>4, <2>3, <2>4, <4>1, <4>2
    <3>3. QED BY <1>4, <2>2, <2>3, <3>1, <3>2
  <2>8. CurrentGood(m)'
    BY <1>4, <1>5, <2>2, <2>4, <2>5 DEF CurrentGood
  <2>9. CurrentIsDisk(m)'
    <3> SUFFICES ASSUME m \in current', file'.kind = "object",
                        NEW x \in Keys, asked'[m][x] = Absent
                 PROVE  cache'[m].data[x] = MigrateLegacyData(file')[x]
      <4>1. MigrateLegacyData(file)' = MigrateLegacyData(file')
        BY DEF MigrateLegacyData, Hoist, Collapse
      <4>2. QED BY <4>1 DEF CurrentIsDisk
    <3>1. x # k /\ asked[m][x] = Absent
      BY <2>1, <2>3
    <3>2. cache'[m].data[x] = e.data[x]
      BY <1>4, <2>2, <3>1
    <3>3. CASE m \in current
      BY <1>6, <1>8, <2>4, <2>5, <3>1, <3>2, <3>3 DEF NameInv, CurrentIsDisk
    <3>4. CASE m \notin current
      <4>1. e.good /\ ~cache[m].loaded
        BY <1>5, <3>4
      <4>2. e.data = MigrateLegacyData(file)
        BY <1>1, <1>3, <4>1, MutableGood DEF DiskInv
      <4>3. QED BY <1>6, <3>2, <4>2
    <3>5. QED BY <3>3, <3>4
  <2>10. QED BY <2>7, <2>8, <2>9 DEF NameInv
<1>10. SavedWhatWasSet'
  BY DEF SetValue, Unlocked, saving, SavedWhatWasSet
<1>11. \A x \in Names : NameInv(x)'
  BY <1>6, <1>7, <1>9, OneEntry DEF DiskInv
<1>12. QED BY <1>10, <1>11 DEF EntryInv

LEMMA RenameEntry ==
  ASSUME DiskInv, EntryInv, RenameTemp
  PROVE  EntryInv'
<1> DEFINE m == Fold[saver]
<1>1. m \in Names /\ CacheKey(saver) = m /\ cache[m] \in Entry
  BY KeyType DEF CacheKey, DiskInv, TypeOK
<1>2. file' = Flat(cache[m].data)
  BY <1>1 DEF RenameTemp, DiskInv, Written, TheEntry
<1>3. /\ cache'[m].good /\ cache'[m].data = cache[m].data
      /\ \A x \in Names \ {m} : cache'[x] = cache[x]
  BY <1>1 DEF RenameTemp, DiskInv, TypeOK, Entry
<1>4. UNCHANGED <<saver, asked, solid>> /\ current' = {m} /\ step' = "saved"
  BY DEF RenameTemp
<1>5. ASSUME NEW x \in Names PROVE NameInv(x)'
  <2>1. NameInv(x) /\ NameInv(m)
    BY <1>1 DEF EntryInv
  <2>2. SolidKept(x)'
    <3>1. cache'[x].data = cache[x].data /\ (cache[x].good => cache'[x].good)
      BY <1>3
    <3>2. QED BY <1>4, <2>1, <3>1 DEF NameInv, SolidKept
  <2>3. CurrentGood(x)'
    BY <1>3, <1>4 DEF CurrentGood
  <2>4. CurrentIsDisk(x)'
    <3>1. cache[m].data \in Data
      BY <1>1 DEF Entry
    <3>2. MigrateLegacyData(file') = cache[m].data
      BY <1>2, <3>1, MigrateFlat
    <3>3. MigrateLegacyData(file)' = MigrateLegacyData(file')
      BY DEF MigrateLegacyData, Hoist, Collapse
    <3>4. x \in current' => x = m
      BY <1>4
    <3>5. QED BY <1>3, <3>2, <3>3, <3>4 DEF CurrentIsDisk
  <2>5. QED BY <2>2, <2>3, <2>4 DEF NameInv
<1>6. SavedWhatWasSet'
  <2>1. \A k \in solid[m] : cache[m].data[k] = asked[m][k]
    BY <1>1 DEF EntryInv, NameInv, SolidKept
  <2>2. file'.root = cache[m].data
    BY <1>2 DEF Flat
  <2>3. QED BY <1>4, <2>1, <2>2 DEF SavedWhatWasSet
<1>7. QED BY <1>5, <1>6 DEF EntryInv

\* Where no entry changes, what is promised of each name stays: the file is the same,
\* or gone.
LEMMA SameEntries ==
  ASSUME EntryInv, UNCHANGED <<cache, asked, solid>>, current' \subseteq current,
         file' = file \/ file' = Unread("missing")
  PROVE  \A n \in Names : NameInv(n)'
<1> SUFFICES ASSUME NEW n \in Names PROVE NameInv(n)'
  OBVIOUS
<1>1. NameInv(n)
  BY DEF EntryInv
<1>2. CASE file' = file
  BY <1>1, <1>2, OtherName
<1>3. CASE file' = Unread("missing")
  BY <1>1, <1>3 DEF NameInv, SolidKept, CurrentGood, CurrentIsDisk, Unread
<1>4. QED BY <1>2, <1>3

LEMMA NextEntry == DiskInv /\ EntryInv /\ [Next]_vars => EntryInv'
<1> SUFFICES ASSUME DiskInv, EntryInv, [Next]_vars PROVE EntryInv'
  OBVIOUS
<1>1. ASSUME NEW n \in Names, Read(n) \/ Reload(n) PROVE EntryInv'
  BY <1>1, ReadEntry, ReloadEntry
<1>2. ASSUME NEW n \in Names, NEW type \in Types, NEW k \in Keys, SetValue(n, type, k)
      PROVE  EntryInv'
  BY <1>2, SetEntry
<1>3. ASSUME NEW n \in Names, Save(n) PROVE EntryInv'
  <2>1. PICK e \in MutableEntry(n) : Store(n, e)
    BY <1>3 DEF Save
  <2>2. \A x \in Names : NameInv(x)'
    BY <1>3, <2>1, MutableInv DEF Save, disk
  <2>3. SavedWhatWasSet'
    BY <1>3 DEF Save, SavedWhatWasSet
  <2>4. QED BY <2>2, <2>3 DEF EntryInv
<1>4. ASSUME OpenTemp \/ WriteTemp \/ RemoveOld \/ RenameFails \/ SaveReturns
      PROVE  EntryInv'
  <2>1. /\ UNCHANGED <<cache, asked, solid>> /\ current' \subseteq current
        /\ file' = file \/ file' = Unread("missing")
    BY <1>4 DEF OpenTemp, OpenTarget, WriteTemp, RemoveOld, RenameFails, SaveReturns, disk,
                ghosts
  <2>2. step' # "saved"
    BY <1>4 DEF OpenTemp, WriteTemp, WriteFailed, RemoveOld, RenameFails, SaveReturns
  <2>3. QED BY <2>1, <2>2, SameEntries DEF EntryInv, SavedWhatWasSet
<1>5. ASSUME RenameTemp PROVE EntryInv'
  BY <1>5, RenameEntry
<1>6. ASSUME Restart PROVE EntryInv'
  <2>1. /\ step' = "idle" /\ current' = {}
        /\ \A n \in Names : solid'[n] = {}
    BY <1>6 DEF Restart
  <2>2. QED BY <2>1 DEF EntryInv, NameInv, SolidKept, CurrentGood, CurrentIsDisk,
                        SavedWhatWasSet
<1>7. ASSUME UNCHANGED vars PROVE EntryInv'
  <2>1. \A n \in Names : NameInv(n)'
    BY <1>7, SameEntries DEF vars, disk, ghosts
  <2>2. SavedWhatWasSet'
    BY <1>7 DEF vars, disk, saving, ghosts, EntryInv, SavedWhatWasSet
  <2>3. QED BY <2>1, <2>2 DEF EntryInv
<1>8. QED BY <1>1, <1>2, <1>3, <1>4, <1>5, <1>6, <1>7 DEF Next, SaveStep

-----------------------------------------------------------------------------
(* Theorems                                                                  *)

LEMMA SpecInv == Spec => [](DiskInv /\ EntryInv)
<1>1. Init => DiskInv /\ EntryInv
  BY InitDisk, InitEntry
<1>2. DiskInv /\ EntryInv /\ [Next]_vars => (DiskInv /\ EntryInv)'
  BY NextDisk, NextEntry
<1>3. QED BY <1>1, <1>2, PTL DEF Spec

\* The types of the file, the cache and the save under way (the whole module).
THEOREM StoreTypeOK == Spec => []TypeOK
<1>1. DiskInv => TypeOK
  BY DEF DiskInv
<1>2. QED BY <1>1, SpecInv, PTL

\* A save that succeeds has written every value set, under a name that differs in case
\* at most, while the file was readable (CacheKey(), MutableEntry(), SaveEntry()).
THEOREM StoreSavesWhatWasSet == Spec => []SavedWhatWasSet
<1>1. EntryInv => SavedWhatWasSet
  BY DEF EntryInv
<1>2. QED BY <1>1, SpecInv, PTL

\* The settings on the disk survive failures and crashes whole, up to the three losses
\* SomeCopySurvives names (SaveEntry(): remove, then rename).
THEOREM StoreKeepsACopy == Spec => []SomeCopySurvives
<1>1. DiskInv => SomeCopySurvives
  BY DiskCopy
<1>2. QED BY <1>1, SpecInv, PTL

\* No step of a save leaves a file that does not parse (SaveEntry(): only a complete
\* temporary file is renamed).
THEOREM StoreNeverTearsFile == Spec => FileNeverTorn
<1>1. DiskInv /\ [Next]_vars => [file'.kind = "torn" => file.kind = "torn"]_vars
  <2> SUFFICES ASSUME DiskInv, Next PROVE file'.kind = "torn" => file.kind = "torn"
    BY DEF vars
  <2>1. file' = file \/ file' = Unread("missing") \/ (step = "rename" /\ file' = tmp)
    BY DEF Next, SaveStep, Read, Reload, SetValue, Save, OpenTemp, OpenTarget, WriteTemp,
           RemoveOld, RenameTemp, RenameFails, SaveReturns, Restart, disk
  <2>2. QED BY <2>1 DEF DiskInv, Written, Flat, Unread
<1>2. QED BY <1>1, SpecInv, PTL DEF Spec, FileNeverTorn

\* The order of MigrateLegacyData() is newest first.
LEMMA MigrateTakesNewest ==
  ASSUME NEW f \in File
  PROVE  MigrateLegacyData(f) = Newest(f)
<1> SUFFICES ASSUME NEW k \in Keys PROVE MigrateLegacyData(f)[k] = Newest(f)[k]
  BY DEF MigrateLegacyData, Hoist, Newest
<1> DEFINE P == Places(f, k)
<1>1. MigrateLegacyData(f)[k] =
        IF P[1] # Absent THEN P[1] ELSE IF P[2] # Absent THEN P[2]
        ELSE IF P[3] # Absent THEN P[3] ELSE IF P[4] # Absent THEN P[4] ELSE P[5]
  BY DEF MigrateLegacyData, Hoist, Collapse, Places
<1>2. CASE \A i \in 1..5 : P[i] = Absent
  BY <1>1, <1>2 DEF Newest
<1>3. CASE \E i \in 1..5 : P[i] # Absent
  <2> DEFINE First(i) == P[i] # Absent /\ \A j \in 1..(i - 1) : P[j] = Absent
  <2>1. PICK i \in 1..5 : First(i)
    <3>1. \/ First(1) \/ First(2) \/ First(3) \/ First(4) \/ First(5)
      BY <1>3
    <3>2. QED BY <3>1
  <2>2. \A j \in 1..5 : First(j) => j = i
    BY <2>1
  <2>3. Newest(f)[k] = P[CHOOSE j \in 1..5 : First(j)]
    BY <1>3 DEF Newest
  <2>4. (CHOOSE j \in 1..5 : First(j)) = i
    BY <2>1, <2>2
  <2>5. MigrateLegacyData(f)[k] = P[i]
    BY <1>1, <2>1
  <2>6. QED BY <2>3, <2>4, <2>5
<1>4. QED BY <1>2, <1>3

\* An unmodified entry has the newest value of each key (MigrateLegacyData()).
THEOREM StoreMigratesNewest == Spec => []MigrationKeepsNewest
<1>1. DiskInv /\ EntryInv => MigrationKeepsNewest
  <2> SUFFICES ASSUME DiskInv, EntryInv, file.kind = "object",
                      NEW n \in current, NEW k \in Keys, asked[n][k] = Absent
               PROVE  cache[n].data[k] = Newest(file)[k]
    BY DEF MigrationKeepsNewest
  <2>1. n \in Names /\ file \in File
    BY DEF DiskInv, TypeOK
  <2>2. cache[n].data[k] = MigrateLegacyData(file)[k]
    BY <2>1 DEF EntryInv, NameInv, CurrentIsDisk
  <2>3. QED BY <2>1, <2>2, MigrateTakesNewest
<1>2. QED BY <1>1, SpecInv, PTL

\* Has* answers TRUE for exactly the values Get* returns.
THEOREM StoreHasAgreesWithGet == Spec => []HasAgreesWithGet
<1>1. TypeOK => HasAgreesWithGet
  BY DEF TypeOK, Entry, Data, Slots, HasAgreesWithGet, Has, Get, Types, Absent
<1>2. QED BY <1>1, StoreTypeOK, PTL
=============================================================================

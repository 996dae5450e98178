-------------------------------- MODULE EnumCaches --------------------------------
(***************************************************************************)
(* pkg/lens/encode.go: the caches behind enumValueForName, shared by every *)
(* goroutine that encodes.  Each is a sync.Map of which a load and a store *)
(* are atomic and nothing else is; what is stored for an enum depends on   *)
(* the enum only, so a cache is the set of enums it holds.                 *)
(***************************************************************************)
EXTENDS Coerce, TLAPS

CONSTANT Callers

VARIABLES
  enumEntriesCache, enumNamesCache, enumLabelCache,
  calls  \* per caller: where it is, the enum and text it looks up, what it found

cacheVars == <<enumEntriesCache, enumNamesCache, enumLabelCache, calls>>

Call(at, enum, text) == [at |-> at, enum |-> enum, text |-> text, found |-> {}]
CachesInit(start) ==
  /\ enumEntriesCache = {} /\ enumNamesCache = {} /\ enumLabelCache = {}
  /\ calls = start

At(c, place) == calls[c].at = place
Goto(c, place) == calls' = [calls EXCEPT ![c].at = place]
Return(c, found) == calls' = [calls EXCEPT ![c].at = "done", ![c].found = found]
EnumOf(c) == calls[c].enum
TextOfCall(c) == calls[c].text

\* enumEntriesFor: a hit, or a probe of every value and then two stores.
LoadEntries(c) ==
  /\ At(c, "entries")
  /\ Goto(c, IF EnumOf(c) \in enumEntriesCache THEN "names" ELSE "store names")
  /\ UNCHANGED <<enumEntriesCache, enumNamesCache, enumLabelCache>>
StoreEntriesFirst(c) ==
  /\ At(c, "store names")
  /\ enumEntriesCache' = enumEntriesCache \cup {EnumOf(c)}
  /\ Goto(c, "store entries")
  /\ UNCHANGED <<enumNamesCache, enumLabelCache>>
StoreNames(c) ==
  /\ At(c, "store names")
  /\ enumNamesCache' = enumNamesCache \cup {EnumOf(c)}
  /\ Goto(c, "store entries")
  /\ UNCHANGED <<enumEntriesCache, enumLabelCache>>
StoreEntries(c) ==
  /\ At(c, "store entries")
  /\ enumEntriesCache' = enumEntriesCache \cup {EnumOf(c)}
  /\ Goto(c, "names")
  /\ UNCHANGED <<enumNamesCache, enumLabelCache>>

\* The names cache may be found empty, which only skips the exact pass.
LookupName(c) ==
  LET exact == IF EnumOf(c) \in enumNamesCache THEN ByExactName(EnumOf(c), TextOfCall(c)) ELSE {}
      found == FirstFound(<<exact, ByLabel(EnumOf(c), TextOfCall(c).bytes)>>)
  IN  /\ At(c, "names")
      /\ IF found # {} THEN Return(c, found) ELSE Goto(c, "labels")
      /\ UNCHANGED <<enumEntriesCache, enumNamesCache, enumLabelCache>>

\* enumValueForEnrichedLabel, and the last pass when that finds nothing.
Enriched(c, labels) ==
  Return(c, FirstFound(<<ByEnrichedLabel(labels, TextOfCall(c).bytes), ByPartialSuffix(EnumOf(c), TextOfCall(c).bytes)>>))
LookupLabel(c) ==
  /\ At(c, "labels")
  /\ IF EnumOf(c) \in enumLabelCache THEN Enriched(c, LabelsOf(EnumOf(c))) ELSE Goto(c, "store labels")
  /\ UNCHANGED <<enumEntriesCache, enumNamesCache, enumLabelCache>>
StoreLabels(c) ==
  /\ At(c, "store labels")
  /\ enumLabelCache' = enumLabelCache \cup {EnumOf(c)}
  /\ Enriched(c, LabelsOf(EnumOf(c)))
  /\ UNCHANGED <<enumEntriesCache, enumNamesCache>>

CallerStep(c) == LoadEntries(c) \/ StoreNames(c) \/ StoreEntries(c) \/ LookupName(c) \/ LookupLabel(c) \/ StoreLabels(c)
LookupNext == \E c \in Callers : CallerStep(c)
LookupsInit(enums, texts) == CachesInit([c \in Callers |-> Call("entries", enums[c], texts[c])])

-----------------------------------------------------------------------------
\* encode.go 1077-1079: who finds the entries of an enum finds its names too.
NamesBeforeEntries == enumEntriesCache \subseteq enumNamesCache

\* However the steps of the callers interleave, each finds what it would find
\* alone.
EachAsIfAlone ==
  \A c \in Callers :
    At(c, "done") => calls[c].found = EnumValueForName(EnumOf(c), TextOfCall(c))

-----------------------------------------------------------------------------
(***************************************************************************)
(* Proofs, for any number of callers and any enums and texts.              *)
(***************************************************************************)
FoundByName(c)  == ByExactName(EnumOf(c), TextOfCall(c))
FoundByLabel(c) == ByLabel(EnumOf(c), TextOfCall(c).bytes)
LastPasses(c) ==
  <<ByEnrichedLabel(LabelsOf(EnumOf(c)), TextOfCall(c).bytes), ByPartialSuffix(EnumOf(c), TextOfCall(c).bytes)>>

\* What a caller has passed: the names of its enum are stored once it has the
\* entries, and the passes before the labels have found nothing.
MayBeAt(c, place) ==
  /\ place \in {"store entries", "names", "labels", "store labels"} => EnumOf(c) \in enumNamesCache
  /\ place \in {"labels", "store labels"} => FoundByName(c) = {} /\ FoundByLabel(c) = {}
CallerOK(c) ==
  /\ DOMAIN (calls[c]) = {"at", "enum", "text", "found"} /\ TextOfCall(c).sort = "text"
  /\ MayBeAt(c, calls[c].at)
  /\ At(c, "done") => calls[c].found = EnumValueForName(EnumOf(c), TextOfCall(c))

LookupInv ==
  NamesBeforeEntries /\ DOMAIN calls = Callers /\ \A c \in Callers : CallerOK(c)

\* The first pass that finds something, of two and of four.
LEMMA FirstOfTwo ==
  ASSUME NEW a, NEW b
  PROVE  FirstFound(<<a, b>>) = IF a # {} THEN a ELSE b
<1> DEFINE s == <<a, b>>
           found == {i \in DOMAIN s : s[i] # {}}
<1>1. DOMAIN s = {1, 2} /\ s[1] = a /\ s[2] = b
  OBVIOUS
<1>2. FirstFound(s) = IF found = {} THEN {} ELSE s[CHOOSE i \in found : \A j \in found : i <= j]
  BY DEF FirstFound
<1> HIDE DEF s
<1>3. CASE a # {}
  <2>1. 1 \in found /\ \A j \in found : 1 <= j
    BY <1>1, <1>3
  <2>2. \A i \in found : (\A j \in found : i <= j) => i = 1
    BY <1>1, <2>1
  <2>3. (CHOOSE i \in found : \A j \in found : i <= j) = 1
    BY <2>1, <2>2
  <2> QED
    BY <1>1, <1>2, <1>3, <2>1, <2>3 DEF s
<1>4. CASE a = {} /\ b # {}
  <2>1. found = {2}
    BY <1>1, <1>4
  <2>2. (CHOOSE i \in found : \A j \in found : i <= j) = 2
    BY <2>1
  <2> QED
    BY <1>1, <1>2, <1>4, <2>1, <2>2 DEF s
<1>5. CASE a = {} /\ b = {}
  <2>1. found = {}
    BY <1>1, <1>5
  <2> QED
    BY <1>2, <1>5, <2>1 DEF s
<1> QED
  BY <1>3, <1>4, <1>5

\* The one of four at which the first that finds something stands.
LEMMA FirstAt ==
  ASSUME NEW s, DOMAIN s = 1 .. 4, NEW n \in 1 .. 4, s[n] # {},
         \A m \in 1 .. 4 : m < n => s[m] = {}
  PROVE  FirstFound(s) = s[n]
<1> DEFINE found == {i \in DOMAIN s : s[i] # {}}
<1>1. n \in found /\ \A j \in found : n <= j
  OBVIOUS
<1>2. \A i \in found : (\A j \in found : i <= j) => i = n
  BY <1>1
<1>3. (CHOOSE i \in found : \A j \in found : i <= j) = n
  BY <1>1, <1>2
<1>4. FirstFound(s) = IF found = {} THEN {} ELSE s[CHOOSE i \in found : \A j \in found : i <= j]
  BY DEF FirstFound
<1> QED
  BY <1>1, <1>3, <1>4

\* Four passes are two and then two.
LEMMA FirstOfFour ==
  ASSUME NEW a, NEW b, NEW c, NEW d
  PROVE  FirstFound(<<a, b, c, d>>) =
           IF a # {} THEN a ELSE IF b # {} THEN b ELSE FirstFound(<<c, d>>)
<1> DEFINE s == <<a, b, c, d>>
<1>1. DOMAIN s = 1 .. 4 /\ s[1] = a /\ s[2] = b /\ s[3] = c /\ s[4] = d
  OBVIOUS
<1>2. FirstFound(<<c, d>>) = IF c # {} THEN c ELSE d
  BY FirstOfTwo
<1> HIDE DEF s
<1>3. CASE a # {}
  <2>1. \A m \in 1 .. 4 : m < 1 => s[m] = {}
    OBVIOUS
  <2> QED
    BY <1>1, <1>3, <2>1, FirstAt DEF s
<1>4. CASE a = {} /\ b # {}
  <2>1. \A m \in 1 .. 4 : m < 2 => s[m] = {}
    BY <1>1, <1>4
  <2> QED
    BY <1>1, <1>4, <2>1, FirstAt DEF s
<1>5. CASE a = {} /\ b = {} /\ c # {}
  <2>1. \A m \in 1 .. 4 : m < 3 => s[m] = {}
    BY <1>1, <1>5
  <2> QED
    BY <1>1, <1>2, <1>5, <2>1, FirstAt DEF s
<1>6. CASE a = {} /\ b = {} /\ c = {} /\ d # {}
  <2>1. \A m \in 1 .. 4 : m < 4 => s[m] = {}
    BY <1>1, <1>6
  <2> QED
    BY <1>1, <1>2, <1>6, <2>1, FirstAt DEF s
<1>7. CASE a = {} /\ b = {} /\ c = {} /\ d = {}
  <2>1. {i \in DOMAIN s : s[i] # {}} = {}
    BY <1>1, <1>7
  <2> QED
    BY <1>2, <1>7, <2>1 DEF FirstFound, s
<1> QED
  BY <1>3, <1>4, <1>5, <1>6, <1>7

\* A step that moves one caller and stores for no enum but its own keeps the
\* invariant when it keeps that caller's.
LEMMA CallerMoves ==
  ASSUME LookupInv, NEW c \in Callers, NEW r,
         calls' = [calls EXCEPT ![c] = r], enumNamesCache \subseteq enumNamesCache',
         NamesBeforeEntries', CallerOK(c)'
  PROVE  LookupInv'
<1>1. DOMAIN calls' = Callers /\ \A d \in Callers : d # c => calls'[d] = calls[d]
  BY DEF LookupInv
<1>2. ASSUME NEW d \in Callers, d # c
      PROVE  CallerOK(d)'
  <2>1. calls'[d] = calls[d] /\ CallerOK(d)
    BY <1>1, <1>2 DEF LookupInv
  <2> QED
    BY <2>1 DEF CallerOK, At, EnumOf, TextOfCall, MayBeAt, FoundByName, FoundByLabel
<1> QED
  BY <1>1, <1>2 DEF LookupInv

\* What the caller of an enum and a text finds when the passes by name and by
\* label find nothing, and when one of them does.
LEMMA WhatIsFound ==
  ASSUME NEW c, TextOfCall(c).sort = "text"
  PROVE  EnumValueForName(EnumOf(c), TextOfCall(c)) =
           IF FoundByName(c) # {} THEN FoundByName(c)
           ELSE IF FoundByLabel(c) # {} THEN FoundByLabel(c) ELSE FirstFound(LastPasses(c))
  BY FirstOfFour DEF EnumValueForName, FoundByName, FoundByLabel, LastPasses

\* A caller that only moves on keeps its enum, its text and what it found.
LEMMA GoneTo ==
  ASSUME LookupInv, NEW c \in Callers, NEW place, Goto(c, place)
  PROVE  /\ calls' = [calls EXCEPT ![c] = [calls[c] EXCEPT !.at = place]]
         /\ calls'[c].at = place /\ calls'[c].enum = EnumOf(c) /\ calls'[c].text = TextOfCall(c)
         /\ DOMAIN (calls'[c]) = {"at", "enum", "text", "found"}
<1>1. DOMAIN calls = Callers /\ DOMAIN (calls[c]) = {"at", "enum", "text", "found"}
  BY DEF LookupInv, CallerOK
<1> QED
  BY <1>1 DEF Goto, EnumOf, TextOfCall

\* A caller that returns keeps its enum and its text.
LEMMA Returned ==
  ASSUME LookupInv, NEW c \in Callers, NEW found, Return(c, found)
  PROVE  /\ calls' = [calls EXCEPT ![c] = [calls[c] EXCEPT !.at = "done", !.found = found]]
         /\ calls'[c].at = "done" /\ calls'[c].enum = EnumOf(c) /\ calls'[c].text = TextOfCall(c)
         /\ calls'[c].found = found
         /\ DOMAIN (calls'[c]) = {"at", "enum", "text", "found"}
<1>1. DOMAIN calls = Callers /\ DOMAIN (calls[c]) = {"at", "enum", "text", "found"}
  BY DEF LookupInv, CallerOK
<1> QED
  BY <1>1 DEF Return, EnumOf, TextOfCall

\* Where a caller may go: not back with a result, and only where MayBeAt.
GoesFreely(c, place) ==
  /\ place # "done"
  /\ place \in {"store entries", "names", "labels", "store labels"} => EnumOf(c) \in enumNamesCache'
  /\ place \in {"labels", "store labels"} => FoundByName(c) = {} /\ FoundByLabel(c) = {}

\* A caller that moves on keeps the invariant when its names are stored where
\* they must be, and when the passes behind it have found nothing.
LEMMA GoKeeps ==
  ASSUME LookupInv, NEW c \in Callers, NEW place, Goto(c, place),
         enumNamesCache \subseteq enumNamesCache', NamesBeforeEntries', GoesFreely(c, place)
  PROVE  LookupInv'
<1>1. EnumOf(c)' = EnumOf(c) /\ TextOfCall(c)' = TextOfCall(c)
  BY GoneTo DEF EnumOf, TextOfCall
<1>2. FoundByName(c)' = FoundByName(c) /\ FoundByLabel(c)' = FoundByLabel(c)
  BY <1>1 DEF FoundByName, FoundByLabel
<1>3. MayBeAt(c, place)' /\ place # "done"
  BY <1>1, <1>2 DEF MayBeAt, GoesFreely
<1>4. TextOfCall(c).sort = "text"
  BY DEF LookupInv, CallerOK
<1>5. CallerOK(c)'
  BY <1>1, <1>3, <1>4, GoneTo DEF CallerOK, At
<1> QED
  BY <1>5, GoneTo, CallerMoves

\* A caller that returns what it would find alone keeps the invariant.
LEMMA ReturnKeeps ==
  ASSUME LookupInv, NEW c \in Callers, NEW found, Return(c, found),
         enumNamesCache \subseteq enumNamesCache', NamesBeforeEntries',
         found = EnumValueForName(EnumOf(c), TextOfCall(c))
  PROVE  LookupInv'
<1>1. EnumOf(c)' = EnumOf(c) /\ TextOfCall(c)' = TextOfCall(c)
  BY Returned DEF EnumOf, TextOfCall
<1>2. calls'[c].found = EnumValueForName(EnumOf(c), TextOfCall(c))'
  BY <1>1, Returned
<1>3. MayBeAt(c, "done")'
  BY DEF MayBeAt
<1>4. TextOfCall(c).sort = "text"
  BY DEF LookupInv, CallerOK
<1>5. CallerOK(c)'
  BY <1>1, <1>2, <1>3, <1>4, Returned DEF CallerOK, At
<1> QED
  BY <1>5, Returned, CallerMoves

\* One step of one caller, in the order of the search.
LEMMA StepKeepsLookupInv ==
  ASSUME LookupInv, NEW c \in Callers, CallerStep(c)
  PROVE  LookupInv'
<1>1. CallerOK(c) /\ NamesBeforeEntries
  BY DEF LookupInv
<1>2. CASE LoadEntries(c)
  <2>1. NamesBeforeEntries' /\ enumNamesCache' = enumNamesCache
    BY <1>1, <1>2 DEF LoadEntries, NamesBeforeEntries
  <2>2. EnumOf(c) \in enumEntriesCache => EnumOf(c) \in enumNamesCache
    BY <1>1 DEF NamesBeforeEntries
  <2> DEFINE place == IF EnumOf(c) \in enumEntriesCache THEN "names" ELSE "store names"
  <2>3. Goto(c, place)
    BY <1>2 DEF LoadEntries
  <2>4. place \in {"names", "store names"} /\ (place = "names" => EnumOf(c) \in enumNamesCache)
    BY <2>2
  <2> QED
    BY <2>1, <2>3, <2>4, GoKeeps DEF GoesFreely
<1>3. CASE StoreNames(c)
  <2>1. NamesBeforeEntries' /\ enumNamesCache \subseteq enumNamesCache' /\ EnumOf(c) \in enumNamesCache'
    BY <1>1, <1>3 DEF StoreNames, NamesBeforeEntries
  <2> QED
    BY <1>3, <2>1, GoKeeps DEF StoreNames, GoesFreely
<1>4. CASE StoreEntries(c)
  <2>1. EnumOf(c) \in enumNamesCache
    BY <1>1, <1>4 DEF StoreEntries, CallerOK, MayBeAt, At
  <2>2. NamesBeforeEntries' /\ enumNamesCache' = enumNamesCache
    BY <1>1, <1>4, <2>1 DEF StoreEntries, NamesBeforeEntries
  <2> QED
    BY <1>4, <2>1, <2>2, GoKeeps DEF StoreEntries, GoesFreely
<1>5. CASE LookupName(c)
  <2>1. EnumOf(c) \in enumNamesCache /\ TextOfCall(c).sort = "text"
    BY <1>1, <1>5 DEF LookupName, CallerOK, MayBeAt, At
  <2>2. NamesBeforeEntries' /\ enumNamesCache' = enumNamesCache
    BY <1>1, <1>5 DEF LookupName, NamesBeforeEntries
  <2> DEFINE found == FirstFound(<<FoundByName(c), FoundByLabel(c)>>)
  <2>3. found = IF FoundByName(c) # {} THEN FoundByName(c) ELSE FoundByLabel(c)
    BY FirstOfTwo
  <2>4. IF found # {} THEN Return(c, found) ELSE Goto(c, "labels")
    BY <1>5, <2>1 DEF LookupName, FoundByName, FoundByLabel
  <2>5. CASE found # {}
    <3>1. found = EnumValueForName(EnumOf(c), TextOfCall(c))
      BY <2>1, <2>3, <2>5, WhatIsFound
    <3> QED
      BY <2>2, <2>4, <2>5, <3>1, ReturnKeeps
  <2>6. CASE found = {}
    <3>1. FoundByName(c) = {} /\ FoundByLabel(c) = {}
      BY <2>3, <2>6
    <3> QED
      BY <2>1, <2>2, <2>4, <2>6, <3>1, GoKeeps DEF GoesFreely
  <2> QED
    BY <2>5, <2>6
<1>6. ASSUME At(c, "labels") \/ At(c, "store labels")
      PROVE  FirstFound(LastPasses(c)) = EnumValueForName(EnumOf(c), TextOfCall(c))
  <2>1. FoundByName(c) = {} /\ FoundByLabel(c) = {} /\ TextOfCall(c).sort = "text"
    BY <1>1, <1>6 DEF CallerOK, MayBeAt, At
  <2> QED
    BY <2>1, WhatIsFound
<1>7. CASE LookupLabel(c)
  <2>1. NamesBeforeEntries' /\ enumNamesCache' = enumNamesCache /\ At(c, "labels")
    BY <1>1, <1>7 DEF LookupLabel, NamesBeforeEntries
  <2>2. CASE EnumOf(c) \in enumLabelCache
    <3>1. Return(c, FirstFound(LastPasses(c)))
      BY <1>7, <2>2 DEF LookupLabel, Enriched, LastPasses
    <3> QED
      BY <1>6, <2>1, <3>1, ReturnKeeps
  <2>3. CASE EnumOf(c) \notin enumLabelCache
    <3>1. Goto(c, "store labels")
      BY <1>7, <2>3 DEF LookupLabel
    <3>2. EnumOf(c) \in enumNamesCache /\ FoundByName(c) = {} /\ FoundByLabel(c) = {}
      BY <1>1, <2>1 DEF CallerOK, MayBeAt, At
    <3> QED
      BY <2>1, <3>1, <3>2, GoKeeps DEF GoesFreely
  <2> QED
    BY <2>2, <2>3
<1>8. CASE StoreLabels(c)
  <2>1. NamesBeforeEntries' /\ enumNamesCache' = enumNamesCache /\ At(c, "store labels")
    BY <1>1, <1>8 DEF StoreLabels, NamesBeforeEntries
  <2>2. Return(c, FirstFound(LastPasses(c)))
    BY <1>8 DEF StoreLabels, Enriched, LastPasses
  <2> QED
    BY <1>6, <2>1, <2>2, ReturnKeeps
<1> QED
  BY <1>2, <1>3, <1>4, <1>5, <1>7, <1>8 DEF CallerStep

\* encode.go 1048-1190: however the loads and stores of any number of callers
\* interleave, an enum whose entries are cached has its names cached too, and
\* every caller finds the constant it would find with the caches to itself.
THEOREM CallersFindTheirOwn ==
  ASSUME NEW enums, NEW texts, \A c \in Callers : texts[c].sort = "text"
  PROVE  LookupsInit(enums, texts) /\ [][LookupNext]_cacheVars => [](NamesBeforeEntries /\ EachAsIfAlone)
<1>1. LookupsInit(enums, texts) => LookupInv
  <2> SUFFICES ASSUME LookupsInit(enums, texts) PROVE LookupInv
    OBVIOUS
  <2>1. NamesBeforeEntries /\ calls = [c \in Callers |-> Call("entries", enums[c], texts[c])]
    BY DEF LookupsInit, CachesInit, NamesBeforeEntries
  <2>2. ASSUME NEW c \in Callers
        PROVE  CallerOK(c)
    <3>1. calls[c] = [at |-> "entries", enum |-> enums[c], text |-> texts[c], found |-> {}]
      BY <2>1 DEF Call
    <3>2. calls[c].at = "entries" /\ calls[c].text = texts[c] /\ DOMAIN (calls[c]) = {"at", "enum", "text", "found"}
      BY <3>1
    <3>3. MayBeAt(c, "entries")
      BY DEF MayBeAt
    <3> QED
      BY <3>2, <3>3 DEF CallerOK, At, TextOfCall
  <2> QED
    BY <2>1, <2>2 DEF LookupInv
<1>2. LookupInv /\ [LookupNext]_cacheVars => LookupInv'
  <2>1. ASSUME LookupInv, LookupNext
        PROVE  LookupInv'
    BY <2>1, StepKeepsLookupInv DEF LookupNext
  <2>2. ASSUME LookupInv, UNCHANGED cacheVars
        PROVE  LookupInv'
    BY <2>2 DEF cacheVars, LookupInv, NamesBeforeEntries, CallerOK, MayBeAt, At, EnumOf, TextOfCall, FoundByName, FoundByLabel
  <2> QED
    BY <2>1, <2>2
<1>3. LookupInv => NamesBeforeEntries /\ EachAsIfAlone
  BY DEF LookupInv, CallerOK, EachAsIfAlone
<1> QED
  BY <1>1, <1>2, <1>3, PTL
=============================================================================

-------------------------- MODULE RuleStoreProofs --------------------------
(***************************************************************************)
(* Proofs about module RuleStore, for every set of objects, groups, zones  *)
(* and codes, any rules the tables may hold at first, any finite number of *)
(* calls in flight and any number of edits.                                *)
(***************************************************************************)
EXTENDS RuleStore, FiniteSetTheorems, TLAPS

Fields == {"enabled", "objects", "groups", "codes", "objCodes", "zones", "parts"}

CallTypes ==
  /\ calls \in [Calls -> [op : {"none", "load", "save", "start"}, at : 0 .. 9,
                        copy : Copies, clean : BOOLEAN, whole : BOOLEAN]]
  /\ \A c \in Calls :
       /\ calls[c].op = "none" <=> calls[c].at = 0
       /\ calls[c].op = "save" => calls[c].at \in {1, 8, 9}
       /\ calls[c].op = "load" => calls[c].at <= 8

WindowTypes ==
  /\ window \in [open : BOOLEAN, rows : SUBSET Objects, ticked : SUBSET Objects,
                 scope : SUBSET Objects, marked : SUBSET Codes]
  /\ ui = "windows" => window.scope = window.ticked

RuleTypes == TypeOK /\ CallTypes /\ WindowTypes /\ fresh \in BOOLEAN /\ whole \in BOOLEAN

(* What c has read of the tables is what they hold, or a part of it.       *)
ReadSoFar(c) ==
  \A i \in 1 .. 7 :
    i < calls[c].at => calls[c].copy.rule[Tables[i]] = tables[Tables[i]]
ReadInPart(c) ==
  /\ 1 < calls[c].at => calls[c].copy.rule.enabled = tables.enabled
  /\ \A i \in 2 .. 7 :
       i < calls[c].at => calls[c].copy.rule[Tables[i]] \subseteq tables[Tables[i]]

(* The tables hold what they could keep of a rule when they knew at least  *)
(* the devices they know now, and filed nothing of it under another owner. *)
Unrenamed(rule) == \A t \in rule.zones \cup rule.parts : Rename(t[1]) = t[1]
Lossy(rule) ==
  /\ Unrenamed(rule)
  /\ \E old \in SUBSET Objects : known \subseteq old /\ tables = Kept(rule, old)

(* How the running rule relates to the stored one, by what has happened.   *)
Orderly == causes \subseteq {"appeared", "unread"} \/ causes \subseteq {"unknown"}
Holds(rule) ==
  /\ causes \subseteq {"appeared"} => rule = tables
  /\ causes \subseteq {"appeared", "unread"} => rule = NoRule \/ PartOf(rule, tables)
  /\ causes \subseteq {"unknown"} => Lossy(rule)

(* One writer at a time; what it hands over, it has stored or read.        *)
Saving(at) == \E c \in Calls : calls[c].op = "save" /\ calls[c].at \in at
Handing == \E c \in Calls : calls[c].op \in {"save", "start"} /\ calls[c].at = 9
Reads(c) == ReadInPart(c) /\ ("unread" \notin causes => ReadSoFar(c))
RunningInv ==
  Orderly =>
    /\ \A c, d \in Writers : c = d
    /\ \A c \in Active("start") : Reads(c)
    /\ \A c \in Writers : calls[c].at > 7 => Holds(calls[c].copy.rule)
    /\ \A c \in Writers : calls[c].at = 9 => server.rule = calls[c].copy.rule
    /\ ~ Handing => client.rule = server.rule
    /\ ~ Saving({8}) => Holds(server.rule)
    /\ ~ Saving({8, 9}) => Holds(client.rule)

(* What is shown as loaded, and what was sent unchanged.                   *)
Unedited == IF ui = "terminal" THEN [tables EXCEPT !.zones = {}, !.parts = {}]
            ELSE tables
CleanInv ==
  /\ fresh =>
       /\ PartOf(editor.rule, tables) /\ (whole => editor.rule = tables)
       /\ ui # "terminal" /\ window.open => window.ticked = editor.rule.objects
  /\ \A c \in Calls : calls[c].clean =>
       /\ calls[c].op = "load" => ReadInPart(c) /\ (calls[c].whole => ReadSoFar(c))
       /\ calls[c].op = "save" /\ calls[c].at = 1 =>
            /\ PartOf(calls[c].copy.rule, Unedited)
            /\ calls[c].whole => calls[c].copy.rule = Unedited

-----------------------------------------------------------------------------
(* Rules are records of these fields.                                      *)
LEMMA RuleParts ==
  ASSUME NEW r \in Rules
  PROVE  /\ r.enabled \in BOOLEAN /\ r.groups \subseteq Groups
         /\ r.objects \subseteq Objects /\ r.codes \subseteq RuleCodes
         /\ r.objCodes \subseteq Objects \X RuleCodes
         /\ r.zones \subseteq Owners \X RuleCodes \X Zones
         /\ r.parts \subseteq Owners \X RuleCodes \X Groups
BY DEF Rules

LEMMA FieldCopied ==
  ASSUME NEW r \in Rules, NEW s \in Rules, NEW t \in Fields
  PROVE  /\ [r EXCEPT ![t] = s[t]] \in Rules
         /\ [r EXCEPT ![t] = s[t]][t] = s[t]
         /\ \A u \in Fields \ {t} : [r EXCEPT ![t] = s[t]][u] = r[u]
BY DEF Fields, Rules

LEMMA SameParts ==
  ASSUME NEW r \in Rules, NEW s \in Rules,
         r.enabled = s.enabled, r.groups = s.groups, r.objects = s.objects,
         r.codes = s.codes, r.objCodes = s.objCodes, r.zones = s.zones,
         r.parts = s.parts
  PROVE  r = s
BY DEF Rules

LEMMA SameRule ==
  ASSUME NEW r \in Rules, NEW s \in Rules, \A t \in Fields : r[t] = s[t]
  PROVE  r = s
BY SameParts DEF Fields

-----------------------------------------------------------------------------
(* What the tables keep of a rule.                                         *)
KeptRows(relation, devices) ==
  {<<Rename(t[1]), t[2], t[3]>> : t \in {r \in relation : RowOwner(r[1]) \in devices}}

LEMMA OwnersRenamed ==
  \A o : /\ Rename(Rename(o)) = Rename(o) /\ RowOwner(Rename(o)) = RowOwner(o)
         /\ o \in Owners => Rename(o) \in Owners
BY DEF Rename, RowOwner, Owners

LEMMA KeptRowsType ==
  ASSUME NEW S, NEW R \in SUBSET (Owners \X RuleCodes \X S), NEW D
  PROVE  KeptRows(R, D) \subseteq Owners \X RuleCodes \X S
BY OwnersRenamed DEF KeptRows

LEMMA KeptRowsAgain ==
  ASSUME NEW S, NEW R \in SUBSET (Owners \X RuleCodes \X S),
         NEW D, NEW E, D \subseteq E
  PROVE  KeptRows(KeptRows(R, D), E) = KeptRows(R, D)
<1>1. ASSUME NEW u \in KeptRows(R, D)
      PROVE  RowOwner(u[1]) \in E /\ u = <<Rename(u[1]), u[2], u[3]>>
  <2>1. PICK t \in R : RowOwner(t[1]) \in D /\ u = <<Rename(t[1]), t[2], t[3]>>
    BY <1>1 DEF KeptRows
  <2> QED BY <2>1, OwnersRenamed
<1> QED BY <1>1 DEF KeptRows

LEMMA KeptParts ==
  ASSUME NEW r \in Rules, NEW D
  PROVE  /\ Kept(r, D) \in Rules
         /\ Kept(r, D).enabled = r.enabled
         /\ Kept(r, D).groups = r.groups
         /\ Kept(r, D).codes = r.codes
         /\ Kept(r, D).objects = r.objects \cap D
         /\ Kept(r, D).objCodes = {t \in r.objCodes : t[1] \in D}
         /\ Kept(r, D).zones = KeptRows(r.zones, D)
         /\ Kept(r, D).parts = KeptRows(r.parts, D)
<1>1. /\ KeptRows(r.zones, D) \subseteq Owners \X RuleCodes \X Zones
      /\ KeptRows(r.parts, D) \subseteq Owners \X RuleCodes \X Groups
  BY RuleParts, KeptRowsType
<1>2. Kept(r, D) = [r EXCEPT !.objects = r.objects \cap D,
                             !.objCodes = {t \in r.objCodes : t[1] \in D},
                             !.zones = KeptRows(r.zones, D),
                             !.parts = KeptRows(r.parts, D)]
  BY DEF Kept, KeptRows, Rules
<1>3. /\ r.objects \cap D \in SUBSET Objects
      /\ {t \in r.objCodes : t[1] \in D} \in SUBSET (Objects \X RuleCodes)
  BY RuleParts
<1> DEFINE o == r.objects \cap D
           c == {t \in r.objCodes : t[1] \in D}
           z == KeptRows(r.zones, D)
           p == KeptRows(r.parts, D)
           s == [r EXCEPT !.objects = o, !.objCodes = c, !.zones = z, !.parts = p]
<1>4. /\ o \in SUBSET Objects /\ c \in SUBSET (Objects \X RuleCodes)
      /\ z \in SUBSET (Owners \X RuleCodes \X Zones)
      /\ p \in SUBSET (Owners \X RuleCodes \X Groups)
  BY <1>1, <1>3
<1> HIDE DEF o, c, z, p
<1>5. /\ s \in Rules /\ s.enabled = r.enabled /\ s.groups = r.groups
      /\ s.codes = r.codes /\ s.objects = o /\ s.objCodes = c
      /\ s.zones = z /\ s.parts = p
  BY <1>4 DEF s, Rules
<1> HIDE DEF s
<1>6. Kept(r, D) = s
  BY <1>2 DEF s, o, c, z, p
<1> QED BY <1>5, <1>6 DEF o, c, z, p

(* What has been kept is kept again, as long as no device is missing.      *)
LEMMA KeptAgain ==
  ASSUME NEW r \in Rules, NEW D, NEW E, D \subseteq E
  PROVE  Kept(Kept(r, D), E) = Kept(r, D)
<1> DEFINE k == Kept(r, D)
           l == Kept(k, E)
<1>1. k \in Rules /\ l \in Rules
  BY KeptParts
<1>2. /\ k.objects = r.objects \cap D
      /\ k.objCodes = {t \in r.objCodes : t[1] \in D}
      /\ k.zones = KeptRows(r.zones, D) /\ k.parts = KeptRows(r.parts, D)
  BY KeptParts
<1>3. /\ l.enabled = k.enabled /\ l.groups = k.groups /\ l.codes = k.codes
      /\ l.objects = k.objects \cap E
      /\ l.objCodes = {t \in k.objCodes : t[1] \in E}
      /\ l.zones = KeptRows(k.zones, E) /\ l.parts = KeptRows(k.parts, E)
  BY <1>1, KeptParts
<1>4. l.zones = k.zones /\ l.parts = k.parts
  <2>1. /\ r.zones \in SUBSET (Owners \X RuleCodes \X Zones)
        /\ r.parts \in SUBSET (Owners \X RuleCodes \X Groups)
    BY RuleParts
  <2>2. /\ KeptRows(KeptRows(r.zones, D), E) = KeptRows(r.zones, D)
        /\ KeptRows(KeptRows(r.parts, D), E) = KeptRows(r.parts, D)
    BY <2>1, KeptRowsAgain
  <2> QED BY <1>2, <1>3, <2>2
<1>5. l.objects = k.objects /\ l.objCodes = k.objCodes
  BY <1>2, <1>3
<1> HIDE DEF k, l
<1>6. l = k
  BY <1>1, <1>3, <1>4, <1>5, SameParts
<1> QED BY <1>6 DEF k, l

(* What is stored for no device that is not known is kept entirely.        *)
LEMMA KeptMeansKnown ==
  ASSUME NEW r \in Rules, NEW D, r = Kept(r, D)
  PROVE  r.objects \subseteq D /\ Unrenamed(r)
<1>1. /\ r.objects = r.objects \cap D
      /\ r.zones = KeptRows(r.zones, D) /\ r.parts = KeptRows(r.parts, D)
  BY KeptParts
<1>2. \A R : \A t \in KeptRows(R, D) : Rename(t[1]) = t[1]
  BY OwnersRenamed DEF KeptRows
<1> QED BY <1>1, <1>2 DEF Unrenamed

(* A rule without its details is kept like the rule.                       *)
Bare(rule) == [rule EXCEPT !.zones = {}, !.parts = {}]

LEMMA KeptBare ==
  ASSUME NEW r \in Rules, NEW D, r = Kept(r, D)
  PROVE  Bare(r) \in Rules /\ Kept(Bare(r), D) = Bare(r)
<1> DEFINE b == Bare(r)
           k == Kept(b, D)
<1>1. /\ b \in Rules /\ b.enabled = r.enabled /\ b.groups = r.groups
      /\ b.codes = r.codes /\ b.objects = r.objects
      /\ b.objCodes = r.objCodes /\ b.zones = {} /\ b.parts = {}
  BY DEF Bare, Rules
<1>2. /\ r.objects = r.objects \cap D
      /\ r.objCodes = {t \in r.objCodes : t[1] \in D}
  BY KeptParts
<1>3. KeptRows({}, D) = {}
  BY DEF KeptRows
<1> HIDE DEF b
<1>4. /\ k \in Rules /\ k.enabled = b.enabled /\ k.groups = b.groups
      /\ k.codes = b.codes /\ k.objects = b.objects \cap D
      /\ k.objCodes = {t \in b.objCodes : t[1] \in D}
      /\ k.zones = KeptRows(b.zones, D) /\ k.parts = KeptRows(b.parts, D)
  BY <1>1, KeptParts
<1> HIDE DEF k
<1>5. /\ k.objects = b.objects /\ k.objCodes = b.objCodes
      /\ k.zones = b.zones /\ k.parts = b.parts
  BY <1>1, <1>2, <1>3, <1>4
<1>6. k = b
  BY <1>1, <1>4, <1>5, SameParts
<1> QED BY <1>1, <1>6 DEF k, b

-----------------------------------------------------------------------------
(* There is always room for another copy of the maps.                      *)
LEMMA OneMore ==
  ASSUME NEW S, IsFiniteSet(S), NEW n \in Nat, Cardinality(S) <= n, NEW x
  PROVE  IsFiniteSet(S \cup {x}) /\ Cardinality(S \cup {x}) <= n + 1
<1>1. /\ IsFiniteSet(S \cup {x})
      /\ Cardinality(S \cup {x}) \in {Cardinality(S), Cardinality(S) + 1}
  BY FS_AddElement, Zenon
<1>2. Cardinality(S) \in Nat
  BY FS_CardinalityType
<1> QED BY <1>1, <1>2

LEMMA ThreeAtMost ==
  ASSUME NEW a, NEW b, NEW c
  PROVE  IsFiniteSet({a, b, c}) /\ Cardinality({a, b, c}) <= 3
<1> DEFINE two == {a} \cup {b}
           three == two \cup {c}
<1>1. IsFiniteSet({a}) /\ Cardinality({a}) = 1
  BY FS_Singleton, Zenon
<1>2. IsFiniteSet(two) /\ Cardinality(two) <= 2
  BY <1>1, OneMore, SMTT(30)
<1> HIDE DEF two
<1>3. IsFiniteSet(three) /\ Cardinality(three) <= 3
  <2>1. IsFiniteSet(three) /\ Cardinality(three) <= 2 + 1
    BY <1>2, 2 \in Nat, OneMore, Zenon
  <2> QED BY <2>1
<1>4. three = {a, b, c}
  BY DEF two
<1> HIDE DEF three
<1> QED BY <1>3, <1>4

LEMMA FreshMapsExist ==
  FreshMaps \in 1 .. Cardinality(Calls) + 4
<1> DEFINE N == Cardinality(Calls)
           f == [c \in Calls |-> calls[c].copy.maps]
           T == {f[c] : c \in Calls}
           H == {server.maps, client.maps, editor.maps}
<1>1. IsFiniteSet(Calls) /\ N \in Nat
  BY CallsAssumption, FS_CardinalityType
<1>2. IsFiniteSet(T) /\ Cardinality(T) <= N
  <2>1. f \in Surjection(Calls, T)
    BY DEF Surjection
  <2> HIDE DEF f, T
  <2> QED BY <1>1, <2>1, FS_Surjection
<1>3. IsFiniteSet(H) /\ Cardinality(H) <= 3
  BY ThreeAtMost
<1>4. UsedMaps = H \cup T
  BY DEF UsedMaps
<1> HIDE DEF T, H, N
<1>5. IsFiniteSet(UsedMaps) /\ Cardinality(UsedMaps) <= N + 3
  <2>1. Cardinality(H) \in Nat /\ Cardinality(T) \in Nat
    BY <1>2, <1>3, FS_CardinalityType
  <2>2. /\ IsFiniteSet(H \cup T) /\ IsFiniteSet(H \cap T)
        /\ Cardinality(H \cup T)
             = Cardinality(H) + Cardinality(T) - Cardinality(H \cap T)
    <3>1. H \cap T \in SUBSET H
      OBVIOUS
    <3> QED BY <1>2, <1>3, <3>1, FS_Union, FS_Subset
  <2>3. Cardinality(H \cap T) \in Nat /\ Cardinality(H \cup T) \in Nat
    BY <2>2, FS_CardinalityType
  <2> QED BY <1>1, <1>2, <1>3, <1>4, <2>1, <2>2, <2>3
<1>6. \E i \in 1 .. N + 4 : i \notin UsedMaps
  <2> SUFFICES ASSUME 1 .. N + 4 \subseteq UsedMaps PROVE FALSE
    OBVIOUS
  <2>1. Cardinality(1 .. N + 4) = N + 4
    BY <1>1, FS_Interval
  <2>2. Cardinality(1 .. N + 4) <= Cardinality(UsedMaps)
    BY <1>5, FS_Subset
  <2>3. Cardinality(UsedMaps) \in Nat
    BY <1>5, FS_CardinalityType
  <2> QED BY <1>1, <1>5, <2>1, <2>2, <2>3
<1> QED BY <1>6 DEF FreshMaps, N
-----------------------------------------------------------------------------
(* The types, part by part.                                                *)
CallRecords == [op : {"none", "load", "save", "start"}, at : 0 .. 9,
                copy : Copies, clean : BOOLEAN, whole : BOOLEAN]
WellFormed(call) ==
  /\ call.op = "none" <=> call.at = 0
  /\ call.op = "save" => call.at \in {1, 8, 9}
  /\ call.op = "load" => call.at <= 8
Windows == [open : BOOLEAN, rows : SUBSET Objects, ticked : SUBSET Objects,
            scope : SUBSET Objects, marked : SUBSET Codes]
GoodWindow(w) ==
  /\ w \in Windows
  /\ w.scope \subseteq w.ticked /\ w.ticked \subseteq w.rows
  /\ ui = "windows" => w.scope = w.ticked

TypeParts ==
  /\ ui \in Editors /\ known \subseteq Objects
  /\ tables \in Rules /\ tables = Kept(tables, known)
  /\ server \in Copies /\ client \in Copies /\ editor \in Copies
  /\ calls \in [Calls -> CallRecords] /\ \A c \in Calls : WellFormed(calls[c])
  /\ GoodWindow(window) /\ fresh \in BOOLEAN /\ whole \in BOOLEAN

LEMMA TypesByParts == RuleTypes <=> TypeParts
BY DEF RuleTypes, TypeOK, CallTypes, WindowTypes, TypeParts, CallRecords, WellFormed,
       Windows, GoodWindow

LEMMA CopyParts ==
  ASSUME NEW r \in Rules, NEW m \in 1 .. Cardinality(Calls) + 4
  PROVE  Copy(r, m) \in Copies /\ Copy(r, m).rule = r /\ Copy(r, m).maps = m
BY DEF Copy, Copies

LEMMA SmallMaps == {1, 2} \subseteq 1 .. Cardinality(Calls) + 4
BY CallsAssumption, FS_CardinalityType

LEMMA EmptyRule == NoRule \in Rules
BY DEF NoRule, Rules

LEMMA IdleCall == Idle \in CallRecords /\ WellFormed(Idle) /\ Idle.op = "none"
<1>1. Copy(NoRule, 1) \in Copies
  BY EmptyRule, SmallMaps, CopyParts
<1> QED BY <1>1 DEF Idle, CallRecords, WellFormed

LEMMA FirstTable == Tables[1] = "enabled"
BY DEF Tables

LEMMA SevenTables ==
  /\ Len(Tables) = 7
  /\ \A i \in 1 .. 7 : Tables[i] \in Fields
  /\ \A t \in Fields : \E i \in 1 .. 7 : Tables[i] = t
  /\ \A i, j \in 1 .. 7 : i # j => Tables[i] # Tables[j]
BY DEF Tables, Fields

(* Parts of a rule.                                                        *)
LEMMA PartByFields ==
  ASSUME NEW r, NEW s
  PROVE  PartOf(r, s) <=>
           /\ r.enabled = s.enabled /\ r.groups \subseteq s.groups
           /\ r.objects \subseteq s.objects /\ r.codes \subseteq s.codes
           /\ r.objCodes \subseteq s.objCodes
           /\ r.zones \subseteq s.zones /\ r.parts \subseteq s.parts
<1>1. Len(Tables) = 7 /\ 2 .. 7 = {2, 3, 4, 5, 6, 7}
  BY SevenTables
<1>2. /\ Tables[2] = "objects" /\ Tables[3] = "groups" /\ Tables[4] = "codes"
      /\ Tables[5] = "objCodes" /\ Tables[6] = "zones" /\ Tables[7] = "parts"
  BY DEF Tables
<1> QED BY <1>1, <1>2 DEF PartOf

LEMMA PartOfItself == \A r : PartOf(r, r)
BY PartByFields

(* What the tables keep of a part of what they hold.                       *)
LEMMA PartKept ==
  ASSUME NEW r \in Rules, NEW s \in Rules, NEW D, PartOf(r, s), Kept(s, D) = s
  PROVE  PartOf(Kept(r, D), s)
<1> DEFINE k == Kept(r, D)
           l == Kept(s, D)
<1>1. /\ k.enabled = r.enabled /\ k.groups = r.groups /\ k.codes = r.codes
      /\ k.objects = r.objects \cap D /\ k.objCodes = {t \in r.objCodes : t[1] \in D}
      /\ k.zones = KeptRows(r.zones, D) /\ k.parts = KeptRows(r.parts, D)
  BY KeptParts
<1>2. l.zones = KeptRows(s.zones, D) /\ l.parts = KeptRows(s.parts, D)
  BY KeptParts
<1>3. l = s
  OBVIOUS
<1> HIDE DEF k, l
<1>4. /\ r.enabled = s.enabled /\ r.groups \subseteq s.groups
      /\ r.objects \subseteq s.objects /\ r.codes \subseteq s.codes
      /\ r.objCodes \subseteq s.objCodes
      /\ r.zones \subseteq s.zones /\ r.parts \subseteq s.parts
  BY PartByFields
<1>5. k.zones \subseteq s.zones /\ k.parts \subseteq s.parts
  BY <1>1, <1>2, <1>3, <1>4 DEF KeptRows
<1>6. PartOf(k, s)
  BY <1>1, <1>4, <1>5, PartByFields
<1> QED BY <1>6 DEF k

(* The rule that is written into shared maps.                              *)
Seen(copy, rule) ==
  IF copy.maps # editor.maps THEN copy
  ELSE [copy EXCEPT !.rule.objCodes = rule.objCodes,
                    !.rule.zones = rule.zones, !.rule.parts = rule.parts]
Passed(c, rule) ==
  IF calls[c].at = 1 /\ ui = "windows" /\ Own(c)
  THEN [Seen(calls[c].copy, rule) EXCEPT !.rule.codes = rule.codes]
  ELSE Seen(calls[c].copy, rule)

LEMMA SeenType ==
  ASSUME NEW copy \in Copies, NEW rule \in Rules
  PROVE  Seen(copy, rule) \in Copies
BY DEF Seen, Copies, Rules

LEMMA CodesPassed ==
  ASSUME NEW copy \in Copies, NEW rule \in Rules
  PROVE  [copy EXCEPT !.rule.codes = rule.codes] \in Copies
BY DEF Copies, Rules

LEMMA PassedType ==
  ASSUME NEW c \in Calls, NEW rule \in Rules, calls[c].copy \in Copies
  PROVE  Passed(c, rule) \in Copies
BY SeenType, CodesPassed DEF Passed

LEMMA WriteDoes ==
  ASSUME NEW rule \in Rules, Write(rule)
  PROVE  /\ editor' = Copy(rule, editor.maps)
         /\ server' = Seen(server, rule) /\ client' = Seen(client, rule)
         /\ calls' = [c \in Calls |-> [calls[c] EXCEPT
               !.copy = Passed(c, rule), !.clean = @ /\ Passed(c, rule) = calls[c].copy]]
         /\ causes' = causes \cup
              (IF running' # running \/ \E c \in Writers : calls[c].at > 1 /\ calls'[c] # calls[c]
               THEN {"shared"} ELSE {})
         /\ fresh' = FALSE /\ edits' = edits + 1
         /\ UNCHANGED <<ui, known, tables, whole>>
BY DEF Write, Seen, Passed

(* What the edits come down to.                                            *)
LEMMA EditMoves ==
  ASSUME TypeParts, Edit
  PROVE  \/ \E r \in Rules : Write(r) /\ UNCHANGED window
         \/ \E marked \in SUBSET Codes : MarkCodes(marked)
         \/ \E ticked \in SUBSET window.rows : TickObjects(ticked)
         \/ CloseWindow
<1>1. /\ editor.rule \in Rules /\ window.rows \subseteq Objects
      /\ window.ticked \subseteq window.rows
      /\ window.scope \subseteq Objects /\ window.marked \subseteq Codes
  BY DEF TypeParts, Copies, GoodWindow, Windows
<1>2. CASE EditField
  <2>1. /\ [editor.rule EXCEPT !.enabled = ~ @] \in Rules
        /\ \A g \in Groups : [editor.rule EXCEPT !.groups = Flip(@, g)] \in Rules
    BY <1>1 DEF Rules, Flip
  <2>2. /\ \A o \in Objects : [editor.rule EXCEPT !.objects = Flip(@, o)] \in Rules
        /\ \A k \in RuleCodes : [editor.rule EXCEPT !.codes = Flip(@, k)] \in Rules
    BY <1>1 DEF Rules, Flip
  <2> QED BY <1>2, <2>1, <2>2 DEF EditField
<1>3. CASE EditObjectCodes
  <2>1. \A o \in Objects, ks \in SUBSET RuleCodes :
          [editor.rule EXCEPT !.objCodes = {o} \X ks] \in Rules
    BY <1>1 DEF Rules
  <2> QED BY <1>3, <2>1 DEF EditObjectCodes
<1>4. CASE EditDetails
  <2> DEFINE owner == IF Cardinality(window.scope) = 1
                      THEN Rename(CHOOSE o \in window.scope : TRUE) ELSE Everyone
             others(relation, k) == {t \in relation : t[1] # owner \/ t[2] # k}
             new(k, zs, ps) == [editor.rule EXCEPT
                       !.zones = others(@, k) \cup ({owner} \X {k} \X zs),
                       !.parts = others(@, k) \cup ({owner} \X {k} \X ps)]
  <2>1. PICK k \in Codes, zs \in SUBSET Zones, ps \in SUBSET Groups :
          Write(new(k, zs, ps)) /\ UNCHANGED window
    BY <1>4 DEF EditDetails
  <2>2. owner \in Owners
    <3>1. Cardinality(window.scope) = 1 => window.scope # {}
      BY FS_EmptySet
    <3> QED BY <1>1, <3>1, OwnersRenamed DEF Owners
  <2> HIDE DEF owner
  <2>3. k \in RuleCodes
    BY DEF RuleCodes
  <2>4. /\ {owner} \X {k} \X zs \subseteq Owners \X RuleCodes \X Zones
        /\ {owner} \X {k} \X ps \subseteq Owners \X RuleCodes \X Groups
    BY <2>2, <2>3
  <2>5. new(k, zs, ps) \in Rules
    <3>1. /\ others(editor.rule.zones, k) \subseteq Owners \X RuleCodes \X Zones
          /\ others(editor.rule.parts, k) \subseteq Owners \X RuleCodes \X Groups
      BY <1>1, RuleParts
    <3> DEFINE z == others(editor.rule.zones, k) \cup ({owner} \X {k} \X zs)
               p == others(editor.rule.parts, k) \cup ({owner} \X {k} \X ps)
    <3>2. /\ z \in SUBSET (Owners \X RuleCodes \X Zones)
          /\ p \in SUBSET (Owners \X RuleCodes \X Groups)
      BY <2>4, <3>1
    <3>3. new(k, zs, ps) = [editor.rule EXCEPT !.zones = z, !.parts = p]
      BY <1>1 DEF Rules
    <3> HIDE DEF z, p, new
    <3> QED BY <1>1, <3>2, <3>3 DEF Rules
  <2> QED BY <2>1, <2>5
<1>5. CASE clickObject
  BY <1>1, <1>5 DEF clickObject, Flip
<1>6. CASE selectAllObjs
  BY <1>1, <1>6 DEF selectAllObjs, Sought
<1>7. CASE clickCode
  BY <1>1, <1>7 DEF clickCode, Flip
<1>8. CASE selectAllCodes
  BY <1>1, <1>8 DEF selectAllCodes, Sought
<1> QED BY <1>2, <1>3, <1>4, <1>5, <1>6, <1>7, <1>8 DEF Edit

LEMMA MarkWrites ==
  ASSUME TypeParts, NEW marked \in SUBSET Codes, MarkCodes(marked)
  PROVE  \E r \in Rules : Write(r) /\ window' = [window EXCEPT !.marked = marked]
<1> DEFINE others == {t \in editor.rule.objCodes : t[1] \notin window.scope}
           r == IF window.scope = {} THEN [editor.rule EXCEPT !.codes = marked]
                ELSE [editor.rule EXCEPT !.objCodes = others \cup (window.scope \X marked)]
<1>1. /\ editor.rule \in Rules /\ window.scope \subseteq Objects
      /\ marked \subseteq RuleCodes
  BY DEF TypeParts, Copies, GoodWindow, Windows, RuleCodes
<1>2. others \cup (window.scope \X marked) \subseteq Objects \X RuleCodes
  BY <1>1, RuleParts
<1>3. r \in Rules
  BY <1>1, <1>2 DEF Rules
<1>4. Write(r) /\ window' = [window EXCEPT !.marked = marked]
  BY DEF MarkCodes
<1> HIDE DEF r
<1> QED BY <1>3, <1>4

-----------------------------------------------------------------------------
(* What a step does to the calls.                                          *)
CallParts == calls \in [Calls -> CallRecords] /\ \A c \in Calls : WellFormed(calls[c])

LEMMA OneCall ==
  ASSUME CallParts, NEW c \in Calls, NEW v \in CallRecords, WellFormed(v),
         calls' = [calls EXCEPT ![c] = v]
  PROVE  /\ CallParts' /\ calls'[c] = v
         /\ \A d \in Calls \ {c} : calls'[d] = calls[d]
<1>1. /\ calls' \in [Calls -> CallRecords] /\ calls'[c] = v
      /\ \A d \in Calls \ {c} : calls'[d] = calls[d]
  BY DEF CallParts
<1>2. \A d \in Calls : WellFormed(calls'[d])
  BY <1>1 DEF CallParts
<1> QED BY <1>1, <1>2 DEF CallParts, WellFormed

LEMMA BeginDoes ==
  ASSUME CallParts, NEW c \in Calls, NEW op \in {"load", "save", "start"},
         NEW copy \in Copies, NEW clean \in BOOLEAN, Begin(c, op, copy, clean)
  PROVE  /\ CallParts' /\ calls[c].op = "none"
         /\ calls'[c].op = op /\ calls'[c].at = 1
         /\ calls'[c].copy = copy /\ calls'[c].clean = clean
         /\ calls'[c].whole = (op = "save" => whole)
         /\ \A d \in Calls \ {c} : calls'[d] = calls[d]
         /\ causes' = causes \cup (IF op # "load" /\ Writers # {} THEN {"overlap"} ELSE {})
<1> DEFINE v == [op |-> op, at |-> 1, copy |-> copy, clean |-> clean,
                 whole |-> op = "save" => whole]
<1>1. v \in CallRecords /\ WellFormed(v)
  BY DEF CallRecords, WellFormed
<1>2. /\ calls' = [calls EXCEPT ![c] = v] /\ calls[c].op = "none"
      /\ causes' = causes \cup (IF op # "load" /\ Writers # {} THEN {"overlap"} ELSE {})
  BY DEF Begin
<1>3. /\ v.op = op /\ v.at = 1 /\ v.copy = copy /\ v.clean = clean
      /\ v.whole = (op = "save" => whole)
  OBVIOUS
<1> HIDE DEF v
<1>4. /\ CallParts' /\ calls'[c] = v /\ \A d \in Calls \ {c} : calls'[d] = calls[d]
  BY <1>1, <1>2, OneCall
<1> QED BY <1>2, <1>3, <1>4

LEMMA ReturnDoes ==
  ASSUME CallParts, NEW c \in Calls, Return(c)
  PROVE  /\ CallParts' /\ calls'[c] = Idle
         /\ \A d \in Calls \ {c} : calls'[d] = calls[d]
<1>1. calls' = [calls EXCEPT ![c] = Idle]
  BY DEF Return
<1> QED BY <1>1, IdleCall, OneCall

LEMMA HandDoes ==
  ASSUME CallParts, NEW c \in Calls, calls[c].op \in {"save", "start"},
         calls[c].at = Len(Tables) + 1, calls' = [calls EXCEPT ![c].at = @ + 1]
  PROVE  /\ CallParts' /\ calls[c].at = 8
         /\ calls'[c].op = calls[c].op /\ calls'[c].at = 9
         /\ calls'[c].copy = calls[c].copy /\ calls'[c].clean = calls[c].clean
         /\ calls'[c].whole = calls[c].whole
         /\ \A d \in Calls \ {c} : calls'[d] = calls[d]
<1> DEFINE v == [calls[c] EXCEPT !.at = @ + 1]
<1>1. calls[c] \in CallRecords /\ WellFormed(calls[c]) /\ calls[c].at = 8
  BY SevenTables DEF CallParts
<1>2. /\ v \in CallRecords /\ v.op = calls[c].op /\ v.at = 9
      /\ v.copy = calls[c].copy /\ v.clean = calls[c].clean /\ v.whole = calls[c].whole
  BY <1>1 DEF CallRecords
<1>3. calls' = [calls EXCEPT ![c] = v]
  OBVIOUS
<1> HIDE DEF v
<1>4. WellFormed(v)
  BY <1>1, <1>2 DEF WellFormed
<1>5. /\ CallParts' /\ calls'[c] = v /\ \A d \in Calls \ {c} : calls'[d] = calls[d]
  BY <1>2, <1>3, <1>4, OneCall
<1> QED BY <1>1, <1>2, <1>5

(* A query that gives its rows, all of them or a part.                     *)
LEMMA QueryDoes ==
  ASSUME CallParts, tables \in Rules, NEW c \in Calls, NEW read, NEW all \in BOOLEAN,
         calls[c].op \in {"load", "start"}, calls[c].at \in 1 .. 7,
         \/ read = tables[Tables[calls[c].at]]
         \/ calls[c].at # 1 /\ read \in SUBSET tables[Tables[calls[c].at]],
         calls' = [calls EXCEPT ![c].at = @ + 1, ![c].copy.rule[Tables[calls[c].at]] = read,
                                ![c].whole = all]
  PROVE  /\ CallParts'
         /\ calls'[c].op = calls[c].op /\ calls'[c].at = calls[c].at + 1
         /\ calls'[c].clean = calls[c].clean /\ calls'[c].whole = all
         /\ calls'[c].copy.rule[Tables[calls[c].at]] = read
         /\ \A i \in 1 .. 7 : i # calls[c].at =>
              calls'[c].copy.rule[Tables[i]] = calls[c].copy.rule[Tables[i]]
         /\ \A d \in Calls \ {c} : calls'[d] = calls[d]
<1> DEFINE call == calls[c]
           t == Tables[call.at]
           rule == [call.copy.rule EXCEPT ![t] = read]
           copy == [call.copy EXCEPT !.rule = rule]
           v == [call EXCEPT !.at = call.at + 1, !.copy = copy, !.whole = all]
<1>1. call \in CallRecords /\ WellFormed(call) /\ call.op \in {"load", "start"}
  BY DEF CallParts
<1>2. call.at \in 1 .. 7
  OBVIOUS
<1>3. call.copy \in Copies /\ call.copy.rule \in Rules /\ t \in Fields
  BY <1>1, <1>2, SevenTables DEF CallRecords, Copies
<1>4. calls' = [calls EXCEPT ![c] = v]
  <2>1. calls' = [calls EXCEPT ![c].at = @ + 1, ![c].copy.rule[t] = read, ![c].whole = all]
    OBVIOUS
  <2>2. calls \in [Calls -> CallRecords]
    BY DEF CallParts
  <2> HIDE DEF t
  <2> QED BY <1>1, <1>3, <2>1, <2>2 DEF CallRecords, Copies
<1>5. /\ rule \in Rules /\ rule[t] = read
      /\ \A u \in Fields \ {t} : rule[u] = call.copy.rule[u]
  <2>1. read = tables[t] \/ (t # "enabled" /\ read \in SUBSET tables[t])
    <3>1. call.at # 1 => t # "enabled"
      BY <1>2, SevenTables, FirstTable
    <3> QED BY <3>1
  <2> DEFINE old == call.copy.rule
  <2>2. old \in Rules /\ t \in Fields
    BY <1>3
  <2> HIDE DEF t, old, call
  <2>3. /\ [old EXCEPT ![t] = read] \in Rules
        /\ [old EXCEPT ![t] = read][t] = read
        /\ \A u \in Fields \ {t} : [old EXCEPT ![t] = read][u] = old[u]
    <3>1. CASE read = tables[t]
      BY <2>2, <3>1, FieldCopied, SMTT(30)
    <3>2. CASE t # "enabled" /\ read \in SUBSET tables[t]
      BY <2>2, <3>2 DEF Fields, Rules
    <3> QED BY <2>1, <3>1, <3>2
  <2> QED BY <2>3 DEF old
<1> HIDE DEF t, rule
<1>6. copy \in Copies /\ copy.rule = rule
  BY <1>3, <1>5 DEF Copies
<1> HIDE DEF copy
<1>7. /\ v \in CallRecords /\ v.op = call.op /\ v.at = call.at + 1
      /\ v.copy = copy /\ v.clean = call.clean /\ v.whole = all
  <2>1. call.at + 1 \in 0 .. 9
    BY <1>2
  <2> HIDE DEF v
  <2>2. v = [call EXCEPT !.at = call.at + 1, !.copy = copy, !.whole = all]
    BY DEF v
  <2> HIDE DEF call
  <2>3. call \in CallRecords /\ copy \in Copies
    BY <1>1, <1>6
  <2> QED BY <2>1, <2>2, <2>3 DEF CallRecords
<1> HIDE DEF v
<1>8. WellFormed(v)
  BY <1>1, <1>2, <1>7 DEF WellFormed
<1>9. CallParts' /\ calls'[c] = v /\ \A d \in Calls \ {c} : calls'[d] = calls[d]
  <2>1. CallParts
    OBVIOUS
  <2> HIDE DEF call
  <2> QED BY <1>4, <1>7, <1>8, <2>1, OneCall
<1>10. \A i \in 1 .. 7 : i # call.at => Tables[i] \in Fields \ {t}
  BY <1>2, SevenTables DEF t
<1> QED BY <1>1, <1>2, <1>5, <1>6, <1>7, <1>9, <1>10 DEF t

LEMMA ReadDoes ==
  ASSUME CallParts, tables \in Rules, NEW c \in Calls, GetRelayFilterRule(c)
  PROVE  /\ CallParts' /\ calls[c].op \in {"load", "start"} /\ calls[c].at \in 1 .. 7
         /\ calls'[c].op = calls[c].op /\ calls'[c].at = calls[c].at + 1
         /\ calls'[c].clean = calls[c].clean /\ calls'[c].whole = calls[c].whole
         /\ calls'[c].copy.rule[Tables[calls[c].at]] = tables[Tables[calls[c].at]]
         /\ \A i \in 1 .. 7 : i # calls[c].at =>
              calls'[c].copy.rule[Tables[i]] = calls[c].copy.rule[Tables[i]]
         /\ \A d \in Calls \ {c} : calls'[d] = calls[d]
<1> DEFINE t == Tables[calls[c].at]
<1>1. /\ calls[c] \in CallRecords /\ WellFormed(calls[c])
      /\ calls \in [Calls -> CallRecords]
  BY DEF CallParts
<1>2. calls[c].op \in {"load", "start"} /\ calls[c].at \in 1 .. 7
  BY <1>1, SevenTables DEF GetRelayFilterRule, CallRecords, WellFormed
<1>3. calls' = [calls EXCEPT ![c].at = @ + 1, ![c].copy.rule[t] = tables[t]]
  BY DEF GetRelayFilterRule
<1>4. calls[c].whole \in BOOLEAN
  BY <1>1 DEF CallRecords
<1>5. calls' = [calls EXCEPT ![c].at = @ + 1, ![c].copy.rule[t] = tables[t],
                             ![c].whole = calls[c].whole]
  <2> HIDE DEF t
  <2> QED BY <1>1, <1>3 DEF CallRecords
<1> QED BY <1>2, <1>4, <1>5, QueryDoes

LEMMA ShortDoes ==
  ASSUME CallParts, tables \in Rules, NEW c \in Calls, ReadShort(c)
  PROVE  /\ CallParts' /\ calls[c].op \in {"load", "start"}
         /\ calls[c].at \in 1 .. 7 /\ calls[c].at # 1
         /\ calls'[c].op = calls[c].op /\ calls'[c].at = calls[c].at + 1
         /\ calls'[c].clean = calls[c].clean /\ calls'[c].whole = FALSE
         /\ calls'[c].copy.rule[Tables[calls[c].at]] \subseteq tables[Tables[calls[c].at]]
         /\ \A i \in 1 .. 7 : i # calls[c].at =>
              calls'[c].copy.rule[Tables[i]] = calls[c].copy.rule[Tables[i]]
         /\ \A d \in Calls \ {c} : calls'[d] = calls[d]
<1> DEFINE t == Tables[calls[c].at]
<1>1. calls[c].op \in {"load", "start"} /\ calls[c].at \in 2 .. 7
  BY SevenTables DEF ReadShort
<1>2. PICK some \in SUBSET tables[t] :
        calls' = [calls EXCEPT ![c].at = @ + 1, ![c].copy.rule[t] = some, ![c].whole = FALSE]
  BY DEF ReadShort
<1>3. calls[c].at \in 1 .. 7 /\ calls[c].at # 1
  BY <1>1
<1>4. /\ CallParts'
      /\ calls'[c].op = calls[c].op /\ calls'[c].at = calls[c].at + 1
      /\ calls'[c].clean = calls[c].clean /\ calls'[c].whole = FALSE
      /\ calls'[c].copy.rule[t] = some
      /\ \A i \in 1 .. 7 : i # calls[c].at =>
           calls'[c].copy.rule[Tables[i]] = calls[c].copy.rule[Tables[i]]
      /\ \A d \in Calls \ {c} : calls'[d] = calls[d]
  BY <1>1, <1>2, <1>3, QueryDoes, Zenon
<1> QED BY <1>1, <1>2, <1>3, <1>4

LEMMA SaveDoes ==
  ASSUME CallParts, NEW c \in Calls, SaveRelayFilterRule(c)
  PROVE  /\ CallParts' /\ tables' = Kept(calls[c].copy.rule, known)
         /\ calls[c].op = "save" /\ calls[c].at = 1 /\ calls'[c].at = 8
         /\ \A d \in Calls : /\ calls'[d].op = calls[d].op
                             /\ calls'[d].copy = calls[d].copy
                             /\ calls'[d].whole = calls[d].whole
                             /\ d # c => calls'[d].at = calls[d].at
                             /\ calls'[d].clean => calls[d].clean /\ tables' = tables
<1> DEFINE kept == Kept(calls[c].copy.rule, known)
           v(d) == [calls[d] EXCEPT !.clean = @ /\ kept = tables]
<1>1. /\ calls' = [[d \in Calls |-> v(d)] EXCEPT ![c].at = 8]
      /\ tables' = kept /\ calls[c].op = "save" /\ calls[c].at = 1
  BY SevenTables DEF SaveRelayFilterRule, Stale, TablesBecome
<1>2. \A d \in Calls : calls[d] \in CallRecords /\ WellFormed(calls[d])
  BY DEF CallParts
<1> HIDE DEF kept
<1>3. \A d \in Calls :
        /\ v(d) \in CallRecords /\ v(d).op = calls[d].op /\ v(d).at = calls[d].at
        /\ v(d).copy = calls[d].copy /\ v(d).clean = (calls[d].clean /\ kept = tables)
        /\ v(d).whole = calls[d].whole
  BY <1>2 DEF CallRecords
<1>4. \A d \in Calls : calls'[d] = IF d = c THEN [v(d) EXCEPT !.at = 8] ELSE v(d)
  BY <1>1
<1>5. calls' \in [Calls -> CallRecords]
  <2>1. ASSUME NEW d \in Calls PROVE [v(d) EXCEPT !.at = 8] \in CallRecords
    <3> DEFINE w == v(d)
    <3>1. w \in CallRecords
      BY <1>3
    <3> HIDE DEF w
    <3>2. [w EXCEPT !.at = 8] \in CallRecords
      BY <3>1 DEF CallRecords
    <3> QED BY <3>2 DEF w
  <2> HIDE DEF v
  <2>2. calls' = [d \in Calls |-> IF d = c THEN [v(d) EXCEPT !.at = 8] ELSE v(d)]
    BY <1>1
  <2> QED BY <1>3, <2>1, <2>2
<1> HIDE DEF v
<1>6. \A d \in Calls :
        /\ calls'[d].op = calls[d].op /\ calls'[d].copy = calls[d].copy
        /\ calls'[d].at = IF d = c THEN 8 ELSE calls[d].at
        /\ calls'[d].clean = (calls[d].clean /\ kept = tables)
        /\ calls'[d].whole = calls[d].whole
  BY <1>3, <1>4, ZenonT(60) DEF CallRecords
<1>7. \A d \in Calls : WellFormed(calls'[d])
  BY <1>1, <1>2, <1>6 DEF WellFormed
<1>8. CallParts'
  BY <1>5, <1>7 DEF CallParts, WellFormed
<1>9. /\ tables' = Kept(calls[c].copy.rule, known)
      /\ calls[c].op = "save" /\ calls[c].at = 1 /\ calls'[c].at = 8
  BY <1>1, <1>6 DEF kept
<1>10. \A d \in Calls : /\ calls'[d].op = calls[d].op
                        /\ calls'[d].copy = calls[d].copy
                        /\ calls'[d].whole = calls[d].whole
                        /\ d # c => calls'[d].at = calls[d].at
  BY <1>6
<1>11. \A d \in Calls : calls'[d].clean => calls[d].clean /\ tables' = tables
  BY <1>1, <1>6
<1> QED BY <1>8, <1>9, <1>10, <1>11

LEMMA StaleDoes ==
  ASSUME CallParts, NEW new, calls' = Stale(new)
  PROVE  /\ CallParts'
         /\ \A d \in Calls : /\ calls'[d].op = calls[d].op
                             /\ calls'[d].at = calls[d].at
                             /\ calls'[d].copy = calls[d].copy
                             /\ calls'[d].whole = calls[d].whole
                             /\ calls'[d].clean = (calls[d].clean /\ new = tables)
<1> DEFINE v(d) == [calls[d] EXCEPT !.clean = @ /\ new = tables]
<1>1. calls' = [d \in Calls |-> v(d)]
  BY DEF Stale
<1>2. \A d \in Calls : calls[d] \in CallRecords /\ WellFormed(calls[d])
  BY DEF CallParts
<1>3. \A d \in Calls :
        /\ v(d) \in CallRecords /\ v(d).op = calls[d].op /\ v(d).at = calls[d].at
        /\ v(d).copy = calls[d].copy /\ v(d).clean = (calls[d].clean /\ new = tables)
        /\ v(d).whole = calls[d].whole
  BY <1>2 DEF CallRecords
<1> HIDE DEF v
<1>4. calls' \in [Calls -> CallRecords] /\ \A d \in Calls : calls'[d] = v(d)
  BY <1>1, <1>3
<1>5. \A d \in Calls : WellFormed(calls'[d])
  BY <1>2, <1>3, <1>4 DEF WellFormed
<1> QED BY <1>3, <1>4, <1>5 DEF CallParts, WellFormed

LEMMA WriteCalls ==
  ASSUME CallParts, NEW rule \in Rules, Write(rule)
  PROVE  /\ CallParts'
         /\ \A d \in Calls :
              /\ calls'[d].op = calls[d].op /\ calls'[d].at = calls[d].at
              /\ calls'[d].copy = Passed(d, rule) /\ calls'[d].whole = calls[d].whole
              /\ calls'[d].clean = (calls[d].clean /\ Passed(d, rule) = calls[d].copy)
<1> DEFINE v(d) == [calls[d] EXCEPT !.copy = Passed(d, rule),
                                    !.clean = @ /\ Passed(d, rule) = calls[d].copy]
<1>1. calls' = [d \in Calls |-> v(d)]
  BY WriteDoes
<1>2. \A d \in Calls : calls[d] \in CallRecords /\ WellFormed(calls[d])
  BY DEF CallParts
<1>3. \A d \in Calls : Passed(d, rule) \in Copies
  BY <1>2, PassedType DEF CallRecords
<1>4. \A d \in Calls :
        /\ v(d) \in CallRecords /\ v(d).op = calls[d].op /\ v(d).at = calls[d].at
        /\ v(d).copy = Passed(d, rule) /\ v(d).whole = calls[d].whole
        /\ v(d).clean = (calls[d].clean /\ Passed(d, rule) = calls[d].copy)
  BY <1>2, <1>3 DEF CallRecords
<1> HIDE DEF v
<1>5. calls' \in [Calls -> CallRecords] /\ \A d \in Calls : calls'[d] = v(d)
  BY <1>1, <1>4
<1>6. \A d \in Calls : WellFormed(calls'[d])
  BY <1>2, <1>4, <1>5 DEF WellFormed
<1> QED BY <1>4, <1>5, <1>6 DEF CallParts, WellFormed

-----------------------------------------------------------------------------
(* The types hold.                                                         *)
LEMMA Opened ==
  ASSUME TypeParts, NEW r \in Rules
  PROVE  /\ GoodWindow(OpenWindow(r)) /\ OpenWindow(r).open
         /\ OpenWindow(r).ticked = r.objects \cap known
<1>1. r.objects \subseteq Objects /\ known \subseteq Objects
  BY RuleParts DEF TypeParts
<1>2. \A scope : CodesOf(r, scope) \subseteq Codes
  BY DEF CodesOf
<1> QED BY <1>1, <1>2 DEF OpenWindow, GoodWindow, Windows

LEMMA Closed == GoodWindow(NoWindow) /\ ~ NoWindow.open
BY DEF NoWindow, GoodWindow, Windows

LEMMA Collected ==
  ASSUME TypeParts
  PROVE  Collect \in Copies
<1>1. /\ editor \in Copies /\ window.ticked \subseteq Objects
      /\ editor.rule \in Rules
  BY DEF TypeParts, GoodWindow, Windows, Copies
<1>2. [editor.rule EXCEPT !.zones = {}, !.parts = {}] \in Rules
  BY <1>1 DEF Rules
<1>3. collectRelayFields \in Copies
  BY <1>2, FreshMapsExist, CopyParts DEF collectRelayFields
<1>4. [editor EXCEPT !.rule.objects = window.ticked] \in Copies
  BY <1>1 DEF Copies, Rules
<1> QED BY <1>3, <1>4 DEF Collect

LEMMA TypesInit == Init => TypeParts
<1> SUFFICES ASSUME Init PROVE TypeParts
  OBVIOUS
<1>1. PICK seed \in Seeds : known = seed.known /\ tables = Kept(seed.rule, seed.known)
  BY DEF Init
<1>2. known \subseteq Objects /\ seed.rule \in Rules
  BY <1>1, SeedsAssumption
<1>3. tables \in Rules /\ tables = Kept(tables, known)
  BY <1>1, <1>2, KeptParts, KeptAgain
<1>4. Copy(tables, 1) \in Copies /\ Copy(NoRule, 2) \in Copies
  BY <1>3, SmallMaps, EmptyRule, CopyParts
<1>5. calls = [c \in Calls |-> Idle]
  BY DEF Init
<1>6. calls \in [Calls -> CallRecords] /\ \A c \in Calls : WellFormed(calls[c])
  BY <1>5, IdleCall
<1>7. /\ ui \in Editors /\ server = Copy(tables, 1) /\ client = Copy(tables, 1)
      /\ editor = Copy(NoRule, 2) /\ window = NoWindow /\ fresh \in BOOLEAN
      /\ whole \in BOOLEAN
  BY DEF Init
<1> QED BY <1>2, <1>3, <1>4, <1>6, <1>7, Closed DEF TypeParts

LEMMA TypesStep == TypeParts /\ [Next]_vars => TypeParts'
<1> SUFFICES ASSUME TypeParts, [Next]_vars PROVE TypeParts'
  OBVIOUS
<1>1. CallParts
  BY DEF TypeParts, CallParts
<1>2. /\ editor.rule \in Rules /\ editor.maps \in 1 .. Cardinality(Calls) + 4
      /\ tables \in Rules /\ known \subseteq Objects /\ tables = Kept(tables, known)
  BY DEF TypeParts, Copies
<1>3. CASE UNCHANGED vars
  <2>1. UNCHANGED <<ui, known, tables, server, client, editor, window, calls, fresh, whole>>
    BY <1>3 DEF vars, running, loaded
  <2> QED BY <2>1 DEF TypeParts, WellFormed, GoodWindow
<1>4. CASE DeviceAppears
  <2>1. known \subseteq known' /\ known' \subseteq Objects
    BY <1>2, <1>4 DEF DeviceAppears
  <2>2. UNCHANGED <<ui, tables, server, client, editor, window, calls, fresh, whole>>
    BY <1>4 DEF DeviceAppears, running, loaded
  <2>3. Kept(tables, known') = tables
    BY <1>2, <2>1, KeptAgain
  <2> QED BY <2>1, <2>2, <2>3 DEF TypeParts, WellFormed, GoodWindow
<1>5. CASE DeleteDevice
  <2>1. /\ known' \subseteq known /\ tables' = Kept(tables, known')
        /\ fresh' = (fresh /\ tables' = tables) /\ calls' = Stale(tables')
        /\ UNCHANGED <<ui, server, client, editor, window, whole>>
    BY <1>5 DEF DeleteDevice, TablesBecome, running
  <2>2. CallParts'
    BY <1>1, <2>1, StaleDoes
  <2>3. tables' \in Rules /\ Kept(tables', known') = tables'
    BY <1>2, <2>1, KeptParts, KeptAgain
  <2>4. known' \subseteq Objects /\ fresh' \in BOOLEAN
    BY <1>2, <2>1 DEF TypeParts
  <2> QED BY <2>1, <2>2, <2>3, <2>4 DEF TypeParts, CallParts, WellFormed, GoodWindow
<1>6. ASSUME NEW r \in Rules, Write(r),
             \/ UNCHANGED window
             \/ \E marked \in SUBSET Codes : window' = [window EXCEPT !.marked = marked]
      PROVE  TypeParts'
  <2>1. GoodWindow(window)'
    <3>1. UNCHANGED ui /\ GoodWindow(window)
      BY <1>6, WriteDoes DEF TypeParts
    <3> QED BY <1>6, <3>1 DEF GoodWindow, Windows
  <2>2. editor' \in Copies /\ server' \in Copies /\ client' \in Copies
    <3>1. /\ editor' = Copy(r, editor.maps)
          /\ server' = Seen(server, r) /\ client' = Seen(client, r)
      BY <1>6, WriteDoes
    <3>2. server \in Copies /\ client \in Copies
      BY DEF TypeParts
    <3> QED BY <1>2, <3>1, <3>2, SeenType, CopyParts
  <2>3. UNCHANGED <<ui, known, tables, whole>> /\ fresh' = FALSE
    BY <1>6, WriteDoes
  <2>4. CallParts'
    BY <1>1, <1>6, WriteCalls
  <2> QED BY <2>1, <2>2, <2>3, <2>4 DEF TypeParts, CallParts, WellFormed
<1>7. ASSUME UNCHANGED <<ui, known, tables, server, client, editor, calls, whole>>,
             GoodWindow(window'), fresh' \in BOOLEAN
      PROVE  TypeParts'
  BY <1>7 DEF TypeParts, WellFormed, GoodWindow
<1>8. CASE Edit
  <2>1. CASE \E ticked \in SUBSET window.rows : TickObjects(ticked)
    <3>1. PICK ticked \in SUBSET window.rows : TickObjects(ticked)
      BY <2>1
    <3>2. /\ UNCHANGED <<ui, known, tables, server, client, editor, calls, whole>>
          /\ window' = [window EXCEPT !.ticked = ticked, !.scope = ticked,
                                      !.marked = CodesOf(editor.rule, ticked)]
          /\ fresh' = FALSE
      BY <3>1 DEF TickObjects, running
    <3>3. GoodWindow(window) /\ CodesOf(editor.rule, ticked) \subseteq Codes
      BY DEF TypeParts, CodesOf
    <3>4. GoodWindow(window')
      BY <3>1, <3>2, <3>3 DEF GoodWindow, Windows
    <3> QED BY <1>7, <3>2, <3>4
  <2>2. CASE CloseWindow
    <3>1. /\ UNCHANGED <<ui, known, tables, server, client, editor, calls, fresh, whole>>
          /\ window' = NoWindow
      BY <2>2 DEF CloseWindow, running, loaded
    <3> QED BY <1>7, <3>1, Closed DEF TypeParts
  <2> QED BY <1>6, <1>8, <2>1, <2>2, EditMoves, MarkWrites
<1>9. ASSUME CallParts', UNCHANGED <<ui, known, tables>>, fresh' \in BOOLEAN, whole' \in BOOLEAN,
             server' \in Copies, client' \in Copies, editor' \in Copies,
             GoodWindow(window')
      PROVE  TypeParts'
  BY <1>2, <1>9 DEF TypeParts, CallParts, WellFormed, GoodWindow
<1>10. /\ server \in Copies /\ client \in Copies /\ editor \in Copies
       /\ GoodWindow(window) /\ fresh \in BOOLEAN /\ whole \in BOOLEAN
  BY DEF TypeParts
<1>11. \A c \in Calls : /\ calls[c].copy \in Copies /\ calls[c].clean \in BOOLEAN
                        /\ calls[c].copy.rule \in Rules /\ calls[c].whole \in BOOLEAN
  BY <1>1 DEF CallParts, CallRecords, Copies
<1>12. Copy(NoRule, FreshMaps) \in Copies
  BY EmptyRule, FreshMapsExist, CopyParts
<1>13. ASSUME NEW c \in Calls, Load(c) \/ Save(c) \/ Restart(c)
       PROVE  TypeParts'
  <2>1. UNCHANGED <<ui, known, tables, server, client, editor, window, fresh, whole>>
    BY <1>13 DEF Load, Save, Restart, running, loaded
  <2>2. CallParts'
    BY <1>1, <1>10, <1>12, <1>13, BeginDoes, Collected DEF Load, Save, Restart
  <2> QED BY <1>9, <1>10, <2>1, <2>2
<1>14. ASSUME NEW c \in Calls, GetRelayFilterRule(c)
       PROVE  TypeParts'
  <2>1. UNCHANGED <<ui, known, tables, server, client, editor, window, fresh, whole>>
    BY <1>14 DEF GetRelayFilterRule, running, loaded
  <2>2. CallParts'
    BY <1>1, <1>2, <1>14, ReadDoes
  <2> QED BY <1>9, <1>10, <2>1, <2>2
<1>15. ASSUME NEW c \in Calls, SaveRelayFilterRule(c)
       PROVE  TypeParts'
  <2>1. /\ UNCHANGED <<ui, known, server, client, editor, window, whole>>
        /\ fresh' = (fresh /\ tables' = tables)
    BY <1>15 DEF SaveRelayFilterRule, TablesBecome, running
  <2>2. CallParts' /\ tables' = Kept(calls[c].copy.rule, known)
    BY <1>1, <1>15, SaveDoes
  <2>3. tables' \in Rules /\ Kept(tables', known) = tables'
    BY <1>11, <2>2, KeptParts, KeptAgain
  <2>4. fresh' \in BOOLEAN
    BY <1>10, <2>1
  <2> QED BY <1>2, <1>10, <2>1, <2>2, <2>3, <2>4
          DEF TypeParts, CallParts, WellFormed, GoodWindow
<1>16. ASSUME NEW c \in Calls, SaveFails(c)
       PROVE  TypeParts'
  <2>1. /\ UNCHANGED <<ui, known, tables, server, client, editor, window, fresh, whole>>
        /\ Return(c)
    BY <1>16 DEF SaveFails, running, loaded
  <2>2. CallParts'
    BY <1>1, <2>1, ReturnDoes
  <2> QED BY <1>9, <1>10, <2>1, <2>2
<1>17. ASSUME NEW c \in Calls, UpdateServer(c)
       PROVE  TypeParts'
  <2>1. /\ UNCHANGED <<ui, known, tables, client, editor, window, fresh, whole>>
        /\ server' = calls[c].copy
        /\ calls[c].op \in {"save", "start"} /\ calls[c].at = Len(Tables) + 1
        /\ calls' = [calls EXCEPT ![c].at = @ + 1]
    BY <1>17 DEF UpdateServer, loaded
  <2>2. CallParts'
    BY <1>1, <2>1, HandDoes
  <2> QED BY <1>9, <1>10, <1>11, <2>1, <2>2
<1>18. ASSUME NEW c \in Calls, UpdateClient(c)
       PROVE  TypeParts'
  <2>1. /\ UNCHANGED <<ui, known, tables, server, whole>> /\ client' = calls[c].copy
        /\ Return(c) /\ editor' \in {editor, calls[c].copy}
        /\ window' \in {window, NoWindow, OpenWindow(calls[c].copy.rule)}
        /\ fresh' \in {fresh, fresh /\ editor' = editor}
    BY <1>18 DEF UpdateClient
  <2>2. CallParts'
    BY <1>1, <2>1, ReturnDoes
  <2>3. GoodWindow(window')
    BY <1>10, <1>11, <2>1, Opened, Closed
  <2> QED BY <1>9, <1>10, <1>11, <2>1, <2>2, <2>3
<1>19. ASSUME NEW c \in Calls, ShowLoaded(c)
       PROVE  TypeParts'
  <2>1. /\ UNCHANGED <<ui, known, tables, server, client>>
        /\ Return(c) /\ editor' = calls[c].copy
        /\ window' \in {window, OpenWindow(calls[c].copy.rule)}
        /\ fresh' = calls[c].clean /\ whole' = calls[c].whole
    BY <1>19 DEF ShowLoaded, running
  <2>2. CallParts'
    BY <1>1, <2>1, ReturnDoes
  <2>3. GoodWindow(window')
    BY <1>10, <1>11, <2>1, Opened
  <2> QED BY <1>9, <1>10, <1>11, <2>1, <2>2, <2>3
<1>20. ASSUME NEW c \in Calls, ReadShort(c)
       PROVE  TypeParts'
  <2>1. UNCHANGED <<ui, known, tables, server, client, editor, window, fresh, whole>>
    BY <1>20 DEF ReadShort, running, loaded
  <2>2. CallParts'
    BY <1>1, <1>2, <1>20, ShortDoes
  <2> QED BY <1>9, <1>10, <2>1, <2>2
<1>21. ASSUME NEW c \in Calls, ReadFails(c)
       PROVE  TypeParts'
  <2>1. /\ UNCHANGED <<ui, known, tables, editor, window, fresh, whole>> /\ Return(c)
        /\ \/ UNCHANGED <<server, client>>
           \/ /\ server' = Copy(NoRule, calls[c].copy.maps)
              /\ client' = Copy(NoRule, calls[c].copy.maps)
    BY <1>21 DEF ReadFails, running, loaded
  <2>2. CallParts'
    BY <1>1, <2>1, ReturnDoes
  <2>3. calls[c].copy.maps \in 1 .. Cardinality(Calls) + 4
    BY <1>11 DEF Copies
  <2>4. Copy(NoRule, calls[c].copy.maps) \in Copies
    BY <2>3, EmptyRule, CopyParts
  <2> QED BY <1>9, <1>10, <2>1, <2>2, <2>4
<1> QED BY <1>3, <1>4, <1>5, <1>8, <1>13, <1>14, <1>15, <1>16, <1>17, <1>18, <1>19, <1>20, <1>21
        DEF Next

(* Every copy of the rule is a rule, and the tables name only devices that *)
(* are known, whatever is saved, deleted, loaded and edited in whatever    *)
(* order (RuleStore's TypeOK).                                             *)
THEOREM RulesAreRules == Spec => []TypeOK
<1>1. TypeParts => TypeOK
  BY TypesByParts DEF RuleTypes
<1> QED BY <1>1, TypesInit, TypesStep, PTL DEF Spec

-----------------------------------------------------------------------------
(* The running rule.                                                       *)
LEMMA SameByTables ==
  ASSUME NEW r \in Rules, NEW t \in Rules, \A i \in 1 .. 7 : r[Tables[i]] = t[Tables[i]]
  PROVE  r = t
<1>1. \A f \in Fields : r[f] = t[f]
  BY SevenTables
<1> QED BY <1>1, SameRule

LEMMA PartByTables ==
  ASSUME NEW r, NEW t, r.enabled = t.enabled,
         \A i \in 2 .. 7 : r[Tables[i]] \subseteq t[Tables[i]]
  PROVE  PartOf(r, t)
BY SevenTables DEF PartOf

LEMMA RuleRead ==
  ASSUME TypeParts, NEW c \in Calls, calls[c].at > 7
  PROVE  /\ ReadSoFar(c) => calls[c].copy.rule = tables
         /\ ReadInPart(c) => PartOf(calls[c].copy.rule, tables)
<1>1. calls[c].copy.rule \in Rules /\ calls[c].at \in 0 .. 9 /\ tables \in Rules
  BY DEF TypeParts, CallRecords, Copies
<1>2. ReadSoFar(c) => \A i \in 1 .. 7 : calls[c].copy.rule[Tables[i]] = tables[Tables[i]]
  BY <1>1 DEF ReadSoFar
<1>3. ReadInPart(c) =>
        /\ calls[c].copy.rule.enabled = tables.enabled
        /\ \A i \in 2 .. 7 : calls[c].copy.rule[Tables[i]] \subseteq tables[Tables[i]]
  BY <1>1 DEF ReadInPart
<1> QED BY <1>1, <1>2, <1>3, SameByTables, PartByTables

(* One more query.                                                         *)
LEMMA ReadOn ==
  ASSUME TypeParts, NEW c \in Calls, UNCHANGED tables,
         GetRelayFilterRule(c) \/ ReadShort(c)
  PROVE  /\ ReadInPart(c) => ReadInPart(c)'
         /\ GetRelayFilterRule(c) /\ ReadSoFar(c) => ReadSoFar(c)'
<1>1. CallParts /\ tables \in Rules
  BY DEF TypeParts, CallParts
<1>2. /\ calls[c].at \in 1 .. 7 /\ calls'[c].at = calls[c].at + 1
      /\ calls[c].at = 1 =>
           calls'[c].copy.rule[Tables[calls[c].at]] = tables[Tables[calls[c].at]]
      /\ calls'[c].copy.rule[Tables[calls[c].at]] \subseteq tables[Tables[calls[c].at]]
      /\ \A i \in 1 .. 7 : i # calls[c].at =>
           calls'[c].copy.rule[Tables[i]] = calls[c].copy.rule[Tables[i]]
  <2>1. CASE GetRelayFilterRule(c)
    BY <1>1, <2>1, ReadDoes
  <2>2. CASE ReadShort(c)
    BY <1>1, <2>2, ShortDoes
  <2> QED BY <2>1, <2>2
<1>3. GetRelayFilterRule(c) =>
        calls'[c].copy.rule[Tables[calls[c].at]] = tables[Tables[calls[c].at]]
  BY <1>1, ReadDoes
<1>4. ASSUME GetRelayFilterRule(c), ReadSoFar(c) PROVE ReadSoFar(c)'
  <2>1. ASSUME NEW i \in 1 .. 7, i < calls'[c].at
        PROVE  calls'[c].copy.rule[Tables[i]] = tables[Tables[i]]
    <3>1. CASE i = calls[c].at
      BY <1>3, <1>4, <3>1
    <3>2. CASE i # calls[c].at
      <4>1. i < calls[c].at
        BY <1>2, <2>1, <3>2
      <4>2. calls[c].copy.rule[Tables[i]] = tables[Tables[i]]
        BY <1>4, <4>1 DEF ReadSoFar
      <4> QED BY <1>2, <3>2, <4>2
    <3> QED BY <3>1, <3>2
  <2> QED BY <2>1 DEF ReadSoFar
<1>5. ASSUME ReadInPart(c) PROVE ReadInPart(c)'
  <2>1. calls'[c].copy.rule.enabled = tables.enabled
    <3>1. CASE calls[c].at = 1
      BY <1>2, <3>1, FirstTable
    <3>2. CASE calls[c].at # 1
      <4>1. calls'[c].copy.rule[Tables[1]] = calls[c].copy.rule[Tables[1]]
        BY <1>2, <3>2
      <4>2. calls[c].copy.rule.enabled = tables.enabled
        BY <1>2, <1>5, <3>2 DEF ReadInPart
      <4> QED BY <4>1, <4>2, FirstTable
    <3> QED BY <3>1, <3>2
  <2>2. ASSUME NEW i \in 2 .. 7, i < calls'[c].at
        PROVE  calls'[c].copy.rule[Tables[i]] \subseteq tables[Tables[i]]
    <3>1. CASE i = calls[c].at
      BY <1>2, <3>1
    <3>2. CASE i # calls[c].at
      <4>1. i < calls[c].at /\ i \in 1 .. 7
        BY <1>2, <2>2, <3>2
      <4>2. calls[c].copy.rule[Tables[i]] \subseteq tables[Tables[i]]
        BY <1>5, <4>1 DEF ReadInPart
      <4> QED BY <1>2, <3>2, <4>1, <4>2
    <3> QED BY <3>1, <3>2
  <2> QED BY <2>1, <2>2 DEF ReadInPart
<1> QED BY <1>4, <1>5

LEMMA TablesHold ==
  ASSUME TypeParts
  PROVE  Holds(tables)
<1>1. /\ tables \in Rules /\ known \in SUBSET Objects /\ tables = Kept(tables, known)
  BY DEF TypeParts
<1>2. Unrenamed(tables)
  BY <1>1, KeptMeansKnown
<1> QED BY <1>1, <1>2, PartOfItself DEF Holds, Lossy

LEMMA RunningInit == Init => RunningInv
<1> SUFFICES ASSUME Init PROVE RunningInv
  OBVIOUS
<1>1. TypeParts
  BY TypesInit
<1>2. server.rule = tables /\ client.rule = tables
  BY DEF Init, Copy
<1>3. \A c \in Calls : calls[c].op = "none"
  BY IdleCall DEF Init
<1>4. Holds(tables)
  BY <1>1, TablesHold
<1> QED BY <1>2, <1>3, <1>4 DEF RunningInv, Writers, Active

LEMMA RunningStep == TypeParts /\ TypeParts' /\ RunningInv /\ [Next]_vars => RunningInv'
<1> SUFFICES ASSUME TypeParts, TypeParts', RunningInv, [Next]_vars, Orderly'
             PROVE  RunningInv'
  BY DEF RunningInv
<1>1. CallParts /\ CallParts'
  BY DEF TypeParts, CallParts, WellFormed
<1>2. \A c \in Calls : /\ calls[c].op \in {"none", "load", "save", "start"}
                       /\ calls[c].at \in 0 .. 9
  BY <1>1 DEF CallParts, CallRecords
<1>3. ASSUME Orderly
      PROVE  /\ \A c, d \in Calls : {calls[c].op, calls[d].op} \subseteq {"save", "start"} => c = d
             /\ \A c \in Calls : calls[c].op = "start" => Reads(c)
             /\ \A c \in Calls : calls[c].op \in {"save", "start"} /\ calls[c].at > 7 =>
                  Holds(calls[c].copy.rule)
             /\ \A c \in Calls : calls[c].op \in {"save", "start"} /\ calls[c].at = 9 =>
                  server.rule = calls[c].copy.rule
             /\ ~ Handing => client.rule = server.rule
             /\ ~ Saving({8}) => Holds(server.rule)
             /\ ~ Saving({8, 9}) => Holds(client.rule)
  BY <1>3 DEF RunningInv, Writers, Active
<1>4. ASSUME /\ \A c, d \in Calls : {calls'[c].op, calls'[d].op} \subseteq {"save", "start"} => c = d
             /\ \A c \in Calls : calls'[c].op = "start" => Reads(c)'
             /\ \A c \in Calls : calls'[c].op \in {"save", "start"} /\ calls'[c].at > 7 =>
                  Holds(calls[c].copy.rule)'
             /\ \A c \in Calls : calls'[c].op \in {"save", "start"} /\ calls'[c].at = 9 =>
                  (server.rule)' = calls'[c].copy.rule
             /\ ~ Handing' => (client.rule)' = (server.rule)'
             /\ ~ Saving({8})' => Holds(server.rule)'
             /\ ~ Saving({8, 9})' => Holds(client.rule)'
      PROVE  RunningInv'
  BY <1>4 DEF RunningInv, Writers, Active
(* What leaves the tables, the running rule and the writers alone.         *)
<1>5. ASSUME UNCHANGED <<tables, known, causes, server, client>>,
             \A c \in Calls : \/ calls'[c] = calls[c]
                              \/ /\ calls[c].op \notin {"save", "start"}
                                 /\ calls'[c].op \notin {"save", "start"}
      PROVE  RunningInv'
  <2>1. Orderly /\ \A rule : Holds(rule)' <=> Holds(rule)
    BY <1>5 DEF Orderly, Holds, Lossy, Unrenamed
  <2>2. /\ \A at : Saving(at)' <=> Saving(at)
        /\ Handing' <=> Handing
    BY <1>5 DEF Saving, Handing
  <2>3. \A c \in Calls : calls'[c].op = "start" => (Reads(c) => Reads(c)')
    BY <1>5 DEF Reads, ReadSoFar, ReadInPart
  <2> QED BY <1>3, <1>4, <1>5, <2>1, <2>2, <2>3
<1>6. CASE UNCHANGED vars
  BY <1>5, <1>6 DEF vars, running
<1>7. CASE DeviceAppears
  <2>1. /\ UNCHANGED <<tables, server, client, calls>>
        /\ causes' = causes \cup {"appeared"}
    BY <1>7 DEF DeviceAppears, running
  <2>2. /\ causes \subseteq {"appeared", "unread"} /\ ~ causes' \subseteq {"unknown"}
        /\ Orderly /\ ("unread" \in causes' <=> "unread" \in causes)
        /\ causes' \subseteq {"appeared"} => causes \subseteq {"appeared"}
    BY <2>1 DEF Orderly
  <2>3. \A rule : Holds(rule) => Holds(rule)'
    BY <2>1, <2>2 DEF Holds
  <2>4. /\ \A at : Saving(at)' <=> Saving(at)
        /\ Handing' <=> Handing
        /\ \A c \in Calls : Reads(c)' <=> Reads(c)
    BY <2>1, <2>2 DEF Saving, Handing, Reads, ReadSoFar, ReadInPart
  <2> QED BY <1>3, <1>4, <2>1, <2>2, <2>3, <2>4
<1>8. CASE DeleteDevice
  <2>1. /\ known' \subseteq known /\ calls' = Stale(tables')
        /\ UNCHANGED <<server, client>>
        /\ causes' = causes \cup (IF tables' = tables THEN {} ELSE {"cascade"})
    BY <1>8 DEF DeleteDevice, TablesBecome, running
  <2>2. UNCHANGED <<tables, causes>> /\ Orderly
    BY <2>1 DEF Orderly
  <2>3. \A rule : Holds(rule) => Holds(rule)'
    BY <2>1, <2>2 DEF Holds, Lossy, Unrenamed
  <2>4. \A c \in Calls : calls'[c].op = calls[c].op /\ calls'[c].at = calls[c].at
                         /\ calls'[c].copy = calls[c].copy
    BY <1>1, <2>1, StaleDoes
  <2>5. /\ \A at : Saving(at)' <=> Saving(at)
        /\ Handing' <=> Handing
        /\ \A c \in Calls : Reads(c)' <=> Reads(c)
    BY <2>2, <2>4, SMTT(30) DEF Saving, Handing, Reads, ReadSoFar, ReadInPart
  <2> QED BY <1>3, <1>4, <2>1, <2>2, <2>3, <2>4, <2>5
<1>9. ASSUME NEW r \in Rules, Write(r)
      PROVE  RunningInv'
  <2>1. /\ UNCHANGED <<known, tables>>
        /\ causes' = causes \cup
              (IF running' # running \/ \E c \in Writers : calls[c].at > 1 /\ calls'[c] # calls[c]
               THEN {"shared"} ELSE {})
    BY <1>9, WriteDoes
  <2>2. /\ UNCHANGED <<causes, server, client>> /\ Orderly
        /\ \A c \in Writers : calls[c].at > 1 => calls'[c] = calls[c]
    BY <2>1 DEF Orderly, running
  <2>3. \A c \in Calls : calls'[c].op = calls[c].op /\ calls'[c].at = calls[c].at
    BY <1>1, <1>9, WriteCalls
  <2>4. /\ \A at : Saving(at)' <=> Saving(at)
        /\ Handing' <=> Handing
        /\ \A rule : Holds(rule)' <=> Holds(rule)
    BY <2>1, <2>2, <2>3 DEF Saving, Handing, Holds, Lossy, Unrenamed
  <2>5. \A c \in Calls : calls[c].op = "start" =>
          calls[c].at <= 1 \/ calls'[c] = calls[c]
    BY <1>2, <2>2 DEF Writers, Active
  <2>6. \A c \in Calls : calls[c].op = "start" => (Reads(c) => Reads(c)')
    BY <1>2, <2>1, <2>2, <2>3, <2>5 DEF Reads, ReadSoFar, ReadInPart
  <2>7. \A c \in Calls : calls[c].op \in {"save", "start"} /\ calls[c].at > 7 =>
          calls'[c] = calls[c]
    BY <1>2, <2>2 DEF Writers, Active
  <2> QED BY <1>3, <1>4, <2>2, <2>3, <2>4, <2>6, <2>7
<1>10. CASE Edit
  <2>1. CASE (\E ticked \in SUBSET window.rows : TickObjects(ticked)) \/ CloseWindow
    <3>1. UNCHANGED <<tables, known, causes, server, client, calls>>
      BY <2>1 DEF TickObjects, CloseWindow, running
    <3> QED BY <1>5, <3>1
  <2> QED BY <1>9, <1>10, <2>1, EditMoves, MarkWrites
<1>11. ASSUME NEW c \in Calls, Load(c)
       PROVE  RunningInv'
  <2>1. /\ UNCHANGED <<tables, known, server, client>>
        /\ Begin(c, "load", Copy(NoRule, FreshMaps), TRUE)
    BY <1>11 DEF Load, running
  <2>2. Copy(NoRule, FreshMaps) \in Copies
    BY EmptyRule, FreshMapsExist, CopyParts
  <2>3. /\ causes' = causes /\ calls[c].op = "none" /\ calls'[c].op = "load"
        /\ \A d \in Calls \ {c} : calls'[d] = calls[d]
    BY <1>1, <2>1, <2>2, BeginDoes
  <2> QED BY <1>5, <2>1, <2>3
<1>12. ASSUME NEW c \in Calls, Save(c) \/ Restart(c)
       PROVE  RunningInv'
  <2>1. PICK op \in {"save", "start"}, copy \in Copies, clean \in BOOLEAN :
          Begin(c, op, copy, clean)
    <3>1. Copy(NoRule, FreshMaps) \in Copies /\ fresh \in BOOLEAN
      BY EmptyRule, FreshMapsExist, CopyParts DEF TypeParts
    <3> QED BY <1>12, <3>1, Collected DEF Save, Restart
  <2>2. UNCHANGED <<tables, known, server, client>>
    BY <1>12 DEF Save, Restart, running
  <2>3. /\ calls[c].op = "none" /\ calls'[c].op = op /\ calls'[c].at = 1
        /\ \A d \in Calls \ {c} : calls'[d] = calls[d]
        /\ causes' = causes \cup (IF Writers # {} THEN {"overlap"} ELSE {})
    BY <1>1, <2>1, BeginDoes
  <2>4. causes' = causes /\ Orderly /\ Writers = {}
    BY <2>3 DEF Orderly
  <2>5. \A d \in Calls : calls[d].op \notin {"save", "start"}
    BY <2>4 DEF Writers, Active
  <2>6. ~ Saving({8}) /\ ~ Saving({8, 9}) /\ ~ Handing
    BY <2>5 DEF Saving, Handing
  <2>7. \A rule : Holds(rule)' <=> Holds(rule)
    BY <2>2, <2>4 DEF Holds, Lossy, Unrenamed
  <2>8. Reads(c)'
    BY <2>3 DEF Reads, ReadSoFar, ReadInPart
  <2> QED BY <1>3, <1>4, <2>2, <2>3, <2>4, <2>5, <2>6, <2>7, <2>8
<1>13. ASSUME NEW c \in Calls, GetRelayFilterRule(c) \/ ReadShort(c)
       PROVE  RunningInv'
  <2>1. /\ UNCHANGED <<tables, known, server, client>>
        /\ \/ causes' = causes
           \/ causes' = causes \cup {"unread"} /\ calls[c].op = "start"
        /\ ReadShort(c) => causes' = causes \cup
             (IF calls[c].op = "start" THEN {"unread"} ELSE {})
        /\ GetRelayFilterRule(c) => causes' = causes
    BY <1>13 DEF GetRelayFilterRule, ReadShort, running
  <2>2. Orderly /\ tables \in Rules
    BY <2>1 DEF Orderly, TypeParts
  <2>3. /\ calls[c].op \in {"load", "start"} /\ calls[c].at \in 1 .. 7
        /\ calls'[c].op = calls[c].op /\ calls'[c].at = calls[c].at + 1
        /\ \A d \in Calls \ {c} : calls'[d] = calls[d]
    <3>1. CASE GetRelayFilterRule(c)
      BY <1>1, <2>2, <3>1, ReadDoes
    <3>2. CASE ReadShort(c)
      BY <1>1, <2>2, <3>2, ShortDoes
    <3> QED BY <1>13, <3>1, <3>2
  <2>4. CASE calls[c].op = "load"
    BY <1>5, <2>1, <2>3, <2>4
  <2>5. CASE calls[c].op = "start"
    <3>1. Reads(c)
      BY <1>3, <2>2, <2>5
    <3>2. Reads(c)'
      <4>1. ReadInPart(c)'
        BY <1>13, <2>1, <3>1, ReadOn DEF Reads
      <4>2. ASSUME "unread" \notin causes' PROVE ReadSoFar(c)'
        <5>1. GetRelayFilterRule(c) /\ "unread" \notin causes
          BY <1>13, <2>1, <2>5, <4>2
        <5> QED BY <2>1, <3>1, <5>1, ReadOn DEF Reads
      <4> QED BY <4>1, <4>2 DEF Reads
    <3>3. \A rule : Holds(rule) => Holds(rule)'
      <4>1. causes' \subseteq {"appeared"} => causes \subseteq {"appeared"}
        BY <2>1
      <4>2. causes' \subseteq {"unknown"} => causes \subseteq {"unknown"}
        BY <2>1
      <4>3. causes' \subseteq {"appeared", "unread"} => causes \subseteq {"appeared", "unread"}
        BY <2>1
      <4> QED BY <2>1, <4>1, <4>2, <4>3 DEF Holds, Lossy, Unrenamed
    <3>4. calls'[c].at > 7 => Holds(calls[c].copy.rule)'
      <4> SUFFICES ASSUME calls'[c].at > 7 PROVE Holds(calls[c].copy.rule)'
        OBVIOUS
      <4> DEFINE rule == calls[c].copy.rule
      <4>1. rule' \in Rules /\ calls'[c].at \in 0 .. 9 /\ tables \in Rules
        BY <1>1, <2>2 DEF CallParts, CallRecords, Copies
      <4>2. /\ rule'.enabled = tables.enabled
            /\ \A i \in 2 .. 7 : rule'[Tables[i]] \subseteq tables[Tables[i]]
            /\ "unread" \notin causes' =>
                 \A i \in 1 .. 7 : rule'[Tables[i]] = tables[Tables[i]]
        BY <2>1, <3>2, <4>1 DEF Reads, ReadInPart, ReadSoFar
      <4> HIDE DEF rule
      <4>3. PartOf(rule', tables) /\ ("unread" \notin causes' => rule' = tables)
        BY <4>1, <4>2, PartByTables, SameByTables
      <4>4. /\ causes' \subseteq {"appeared"} => rule' = tables'
            /\ causes' \subseteq {"appeared", "unread"} => PartOf(rule', tables')
            /\ causes' \subseteq {"unknown"} => rule' = tables'
        BY <2>1, <4>3
      <4>5. Holds(tables)'
        BY <2>1, <3>3, TablesHold DEF Holds, Lossy, Unrenamed
      <4>6. causes' \subseteq {"unknown"} => Lossy(rule)'
        BY <4>4, <4>5 DEF Holds, Lossy, Unrenamed
      <4>7. Holds(rule)'
        BY <4>4, <4>6 DEF Holds
      <4> QED BY <4>7 DEF rule
    <3>5. \A d \in Calls \ {c} : calls[d].op \notin {"save", "start"}
      BY <1>3, <2>2, <2>5
    <3>6. /\ \A at : ~ Saving(at) /\ ~ Saving(at)'
          /\ ~ Handing /\ calls'[c].at # 9
      BY <2>3, <2>5, <3>5 DEF Saving, Handing
    <3> QED BY <1>3, <1>4, <2>1, <2>2, <2>3, <2>5, <3>2, <3>3, <3>4, <3>5, <3>6
  <2> QED BY <2>3, <2>4, <2>5
<1>14. ASSUME NEW c \in Calls, SaveRelayFilterRule(c)
       PROVE  RunningInv'
  <2> DEFINE rule == calls[c].copy.rule
  <2>1. /\ UNCHANGED <<known, server, client>>
        /\ causes' = causes
             \cup (IF Kept(rule, known) = rule THEN {} ELSE {"unknown"})
             \cup (IF \E t \in rule.zones \cup rule.parts : t[1] = 0 THEN {"zero"} ELSE {})
    BY <1>14 DEF SaveRelayFilterRule, running
  <2>2. /\ calls[c].op = "save" /\ calls[c].at = 1 /\ calls'[c].at = 8
        /\ tables' = Kept(rule, known)
        /\ \A d \in Calls : calls'[d].op = calls[d].op /\ calls'[d].copy = calls[d].copy
    BY <1>1, <1>14, SaveDoes
  <2>3. Orderly /\ \A t \in rule.zones \cup rule.parts : t[1] # 0
    BY <2>1 DEF Orderly
  <2>4. Unrenamed(rule)
    BY <2>3 DEF Unrenamed, Rename
  <2>5. Holds(rule)'
    <3>1. causes' \subseteq {"appeared"} => rule = tables'
      BY <2>1, <2>2
    <3>2. known \in SUBSET Objects /\ known' = known
      BY <2>1 DEF TypeParts
    <3>3. causes' \subseteq {"appeared", "unread"} => rule = tables'
      BY <2>1, <2>2
    <3> QED BY <2>2, <2>4, <3>1, <3>2, <3>3, PartOfItself DEF Holds, Lossy, Unrenamed
  <2>6. \A d \in Calls \ {c} : calls'[d].op \notin {"save", "start"}
    BY <1>3, <2>2, <2>3
  <2>7. Saving({8})' /\ Saving({8, 9})'
    BY <2>2 DEF Saving
  <2>8. ~ Handing /\ client'.rule = server'.rule
    <3>1. \A d \in Calls \ {c} : calls[d].op \notin {"save", "start"}
      BY <2>2, <2>6
    <3>2. ~ Handing
      BY <2>2, <3>1 DEF Handing
    <3> QED BY <1>3, <2>1, <2>3, <3>2
  <2> QED BY <1>4, <2>2, <2>5, <2>6, <2>7, <2>8
<1>15. ASSUME NEW c \in Calls, SaveFails(c)
       PROVE  RunningInv'
  <2>1. /\ UNCHANGED <<tables, known, server, client, causes>> /\ Return(c)
        /\ calls[c].op = "save" /\ calls[c].at = 1
    BY <1>15 DEF SaveFails, running
  <2>2. calls'[c].op = "none" /\ \A d \in Calls \ {c} : calls'[d] = calls[d]
    BY <1>1, <2>1, ReturnDoes, IdleCall
  <2>3. Orderly
    BY <2>1 DEF Orderly
  <2>4. \A d \in Calls \ {c} : calls[d].op \notin {"save", "start"}
    BY <1>3, <2>1, <2>3
  <2>5. ~ Saving({8}) /\ ~ Saving({8, 9}) /\ ~ Handing
    BY <2>1, <2>4 DEF Saving, Handing
  <2>6. \A rule : Holds(rule)' <=> Holds(rule)
    BY <2>1 DEF Holds, Lossy, Unrenamed
  <2> QED BY <1>3, <1>4, <2>1, <2>2, <2>3, <2>4, <2>5, <2>6
<1>16. ASSUME NEW c \in Calls, UpdateServer(c)
       PROVE  RunningInv'
  <2>1. /\ UNCHANGED <<tables, known, client, causes>> /\ server' = calls[c].copy
        /\ calls[c].op \in {"save", "start"} /\ calls[c].at = Len(Tables) + 1
        /\ calls' = [calls EXCEPT ![c].at = @ + 1]
    BY <1>16 DEF UpdateServer
  <2>2. /\ calls[c].at = 8 /\ calls'[c].op = calls[c].op /\ calls'[c].at = 9
        /\ calls'[c].copy = calls[c].copy
        /\ \A d \in Calls \ {c} : calls'[d] = calls[d]
    BY <1>1, <2>1, HandDoes
  <2>3. Orderly
    BY <2>1 DEF Orderly
  <2>4. \A d \in Calls \ {c} : calls[d].op \notin {"save", "start"}
    BY <1>3, <2>1, <2>3
  <2>5. Holds(calls[c].copy.rule)
    BY <1>3, <2>1, <2>2, <2>3
  <2>6. \A rule : Holds(rule)' <=> Holds(rule)
    BY <2>1 DEF Holds, Lossy, Unrenamed
  <2>7. calls[c].op = "start" => Reads(c)'
    <3>1. calls[c].op = "start" => Reads(c)
      BY <1>3, <2>3
    <3>2. calls[c].at > 7 /\ calls'[c].at > 7 /\ \A i \in 1 .. 7 : i < calls[c].at
      BY <2>2
    <3> QED BY <2>1, <2>2, <3>1, <3>2 DEF Reads, ReadSoFar, ReadInPart
  <2>8. ~ Saving({8, 9})' => ~ Saving({8, 9})
    BY <2>1, <2>2, <2>4 DEF Saving
  <2>9. Handing'
    BY <2>1, <2>2 DEF Handing
  <2> QED BY <1>3, <1>4, <2>1, <2>2, <2>3, <2>4, <2>5, <2>6, <2>7, <2>8, <2>9
<1>17. ASSUME NEW c \in Calls, UpdateClient(c)
       PROVE  RunningInv'
  <2>1. /\ UNCHANGED <<tables, known, server, causes>> /\ client' = calls[c].copy
        /\ calls[c].op \in {"save", "start"} /\ calls[c].at = 9
        /\ Return(c)
    BY <1>17, SevenTables DEF UpdateClient
  <2>2. calls'[c].op = "none" /\ \A d \in Calls \ {c} : calls'[d] = calls[d]
    BY <1>1, <2>1, ReturnDoes, IdleCall
  <2>3. Orderly
    BY <2>1 DEF Orderly
  <2>4. \A d \in Calls \ {c} : calls[d].op \notin {"save", "start"}
    BY <1>3, <2>1, <2>3
  <2>5. Holds(calls[c].copy.rule)
    BY <1>3, <2>1, <2>3
  <2>6. \A rule : Holds(rule)' <=> Holds(rule)
    BY <2>1 DEF Holds, Lossy, Unrenamed
  <2>7. ~ Saving({8})
    BY <2>1, <2>4 DEF Saving
  <2> QED BY <1>3, <1>4, <2>1, <2>2, <2>3, <2>4, <2>5, <2>6, <2>7
<1>18. ASSUME NEW c \in Calls, ShowLoaded(c)
       PROVE  RunningInv'
  <2>1. /\ UNCHANGED <<tables, known, server, client, causes>> /\ Return(c)
        /\ calls[c].op = "load"
    BY <1>18 DEF ShowLoaded, running
  <2>2. calls'[c].op = "none" /\ \A d \in Calls \ {c} : calls'[d] = calls[d]
    BY <1>1, <2>1, ReturnDoes, IdleCall
  <2> QED BY <1>5, <2>1, <2>2
<1>19. ASSUME NEW c \in Calls, ReadFails(c)
       PROVE  RunningInv'
  <2>1. /\ UNCHANGED <<tables, known>> /\ Return(c)
        /\ calls[c].op \in {"load", "start"} /\ calls[c].at = 1
        /\ IF calls[c].op = "load" THEN UNCHANGED <<server, client, causes>>
           ELSE /\ server' = Copy(NoRule, calls[c].copy.maps)
                /\ client' = Copy(NoRule, calls[c].copy.maps)
                /\ causes' = causes \cup {"unread"}
    BY <1>19 DEF ReadFails, running
  <2>2. calls'[c].op = "none" /\ \A d \in Calls \ {c} : calls'[d] = calls[d]
    BY <1>1, <2>1, ReturnDoes, IdleCall
  <2>3. CASE calls[c].op = "load"
    BY <1>5, <2>1, <2>2, <2>3
  <2>4. CASE calls[c].op = "start"
    <3>1. /\ server'.rule = NoRule /\ client'.rule = NoRule
          /\ causes' = causes \cup {"unread"}
      BY <2>1, <2>4 DEF Copy
    <3>2. Orderly
      BY <3>1 DEF Orderly
    <3>3. \A d \in Calls \ {c} : calls'[d].op \notin {"save", "start"}
      BY <1>3, <2>2, <2>4, <3>2
    <3>4. Holds(server.rule)' /\ Holds(client.rule)'
      BY <3>1 DEF Holds
    <3> QED BY <1>4, <2>2, <3>1, <3>3, <3>4
  <2> QED BY <2>1, <2>3, <2>4
<1> QED BY <1>6, <1>7, <1>8, <1>10, <1>11, <1>12, <1>13, <1>14, <1>15, <1>16, <1>17, <1>18, <1>19
        DEF Next

LEMMA RulesAreSafe == Spec => [](TypeParts /\ RunningInv)
<1>1. Init => TypeParts /\ RunningInv
  BY TypesInit, RunningInit
<1>2. TypeParts /\ RunningInv /\ [Next]_vars => (TypeParts /\ RunningInv)'
  BY TypesStep, RunningStep
<1> QED BY <1>1, <1>2, PTL DEF Spec

(* Between calls the server and the client decide by the rule that is      *)
(* stored, unless one of the named causes sets them apart; when it is a    *)
(* start whose queries failed, they decide by one rule still, none or a    *)
(* part of the stored one (Runtime.SaveRelayFilterRule, Runtime.Start,     *)
(* Repository.GetRelayFilterRule).                                         *)
THEOREM RunningIsStored == Spec => []RunningRuleIsStored
<1>1. RunningInv => RunningRuleIsStored
  BY DEF RunningInv, RunningRuleIsStored, Orderly, Holds, Saving, Handing, Writers, Active
<1> QED BY <1>1, RulesAreSafe, PTL

(* A list of details is kept as it was or lost altogether.                 *)
LEMMA KeptAsItWas ==
  ASSUME NEW R, NEW S, R \subseteq Owners \X RuleCodes \X S, NEW D,
         \A t \in R : Rename(t[1]) = t[1]
  PROVE  KeptRows(R, D) = {t \in R : RowOwner(t[1]) \in D}
<1>1. \A t \in R : <<Rename(t[1]), t[2], t[3]>> = t
  OBVIOUS
<1> QED BY <1>1 DEF KeptRows

LEMMA LessIsLet ==
  ASSUME NEW r \in Rules, Unrenamed(r), NEW D,
         NEW owner, NEW c, NEW group, NEW zone, matchDetails(r, owner, c, group, zone)
  PROVE  matchDetails(Kept(r, D), owner, c, group, zone)
<1> DEFINE k == Kept(r, D)
<1>1. k.zones = KeptRows(r.zones, D) /\ k.parts = KeptRows(r.parts, D)
  BY KeptParts
<1>2. /\ r.zones \in SUBSET (Owners \X RuleCodes \X Zones)
      /\ r.parts \in SUBSET (Owners \X RuleCodes \X Groups)
      /\ \A t \in r.zones : Rename(t[1]) = t[1]
      /\ \A t \in r.parts : Rename(t[1]) = t[1]
  BY RuleParts DEF Unrenamed
<1>3. /\ k.zones = {t \in r.zones : RowOwner(t[1]) \in D}
      /\ k.parts = {t \in r.parts : RowOwner(t[1]) \in D}
  BY <1>1, <1>2, KeptAsItWas
<1> HIDE DEF k
<1>4. /\ \A t \in r.parts : t[1] = owner => (t \in k.parts <=> RowOwner(owner) \in D)
      /\ \A t \in r.zones : t[1] = owner => (t \in k.zones <=> RowOwner(owner) \in D)
      /\ k.zones \subseteq r.zones /\ k.parts \subseteq r.parts
  BY <1>3
<1>5. matchDetails(k, owner, c, group, zone)
  <2>1. /\ {t \in k.parts : t[1] = owner /\ t[2] = c} # {} =>
             <<owner, c, group>> \in r.parts /\ RowOwner(owner) \in D
        /\ {t \in k.zones : t[1] = owner /\ t[2] = c} # {} =>
             <<owner, c, zone>> \in r.zones /\ RowOwner(owner) \in D
    BY <1>4 DEF matchDetails
  <2>2. <<owner, c, group>>[1] = owner /\ <<owner, c, zone>>[1] = owner
        /\ <<owner, c, group>>[2] = c /\ <<owner, c, zone>>[2] = c
    OBVIOUS
  <2> QED BY <1>4, <2>1, <2>2 DEF matchDetails
<1> QED BY <1>5 DEF k

LEMMA LossyWithholds ==
  ASSUME NEW r \in Rules, Lossy(r), NEW f \in Withheld(r), extractDeviceID(f) \in known
  PROVE  f \in Withheld(tables)
<1> DEFINE device == extractDeviceID(f)
           code == extractEventCode(f)
           group == extractGroupNo(f)
           zone == extractZoneNo(f)
<1>1. PICK old \in SUBSET Objects : known \subseteq old /\ tables = Kept(r, old)
  BY DEF Lossy
<1>2. /\ tables.enabled = r.enabled /\ tables.groups = r.groups /\ tables.codes = r.codes
      /\ tables.objects = r.objects \cap old
      /\ tables.objCodes = {t \in r.objCodes : t[1] \in old}
  BY <1>1, KeptParts
<1>3. f \in Frames /\ shouldBypassRelay(r, device, group, zone, code) /\ device \in old
  BY <1>1 DEF Withheld
<1>4. \A owner, c : matchDetails(r, owner, c, group, zone)
        => matchDetails(tables, owner, c, group, zone)
  BY <1>1, LessIsLet DEF Lossy
<1> HIDE DEF device, group, zone, code
<1>5. shouldBypassRelay(tables, device, group, zone, code)
  <2>1. r.enabled /\ code # NoCode
    BY <1>3 DEF shouldBypassRelay
  <2>2. CASE \E c \in RuleCodes :
               /\ <<device, c>> \in r.objCodes /\ NamesCode(c, code)
               /\ matchDetails(r, device, c, group, zone)
    <3>1. PICK c \in RuleCodes :
               /\ <<device, c>> \in r.objCodes /\ NamesCode(c, code)
               /\ matchDetails(r, device, c, group, zone)
      BY <2>2
    <3>2. /\ <<device, c>> \in tables.objCodes
          /\ matchDetails(tables, device, c, group, zone)
      BY <1>2, <1>3, <1>4, <3>1
    <3> QED BY <1>2, <2>1, <3>1, <3>2 DEF shouldBypassRelay
  <2>3. CASE /\ \E c \in r.codes :
                   NamesCode(c, code) /\ matchDetails(r, Everyone, c, group, zone)
             /\ \/ r.objects = {} /\ r.groups = {}
                \/ device \in r.objects
                \/ group \in r.groups
    BY <1>2, <1>3, <1>4, <2>1, <2>3 DEF shouldBypassRelay
  <2> QED BY <1>3, <2>2, <2>3 DEF shouldBypassRelay
<1> QED BY <1>3, <1>5 DEF Withheld, device, group, zone, code

(* What the tables refused comes back, after a restart that reads all of   *)
(* them, as a rule that forwards nothing more of a known device            *)
(* (Repository.SaveRelayFilterRule ignores the refused rows).              *)
THEOREM LostRowsBlockMore == Spec => []LossBlocksMore
<1>1. ASSUME TypeParts, RunningInv PROVE LossBlocksMore
  <2> SUFFICES ASSUME Writers = {}, causes \subseteq {"unknown"},
                      NEW f \in Withheld(server.rule), extractDeviceID(f) \in known
               PROVE  f \in Withheld(tables)
    BY DEF LossBlocksMore
  <2>1. Lossy(server.rule)
    BY <1>1 DEF RunningInv, Orderly, Holds, Saving, Writers, Active
  <2>2. server.rule \in Rules
    BY <1>1 DEF TypeParts, Copies
  <2> QED BY <2>1, <2>2, LossyWithholds
<1> QED BY <1>1, RulesAreSafe, PTL

-----------------------------------------------------------------------------
(* What is saved unedited.                                                 *)
LEMMA UneditedIsKept ==
  ASSUME TypeParts
  PROVE  Unedited \in Rules /\ Kept(Unedited, known) = Unedited
<1>1. tables \in Rules /\ tables = Kept(tables, known)
  BY DEF TypeParts
<1> QED BY <1>1, KeptBare DEF Unedited, Bare

LEMMA CleanInit == Init => CleanInv
<1> SUFFICES ASSUME Init PROVE CleanInv
  OBVIOUS
<1>1. /\ fresh = FALSE /\ calls = [c \in Calls |-> Idle]
      /\ Idle.clean = FALSE
  BY DEF Init, Idle
<1> QED BY <1>1 DEF CleanInv

LEMMA CleanStep == TypeParts /\ TypeParts' /\ CleanInv /\ [Next]_vars => CleanInv'
<1> SUFFICES ASSUME TypeParts, TypeParts', CleanInv, [Next]_vars
             PROVE  CleanInv'
  OBVIOUS
<1>1. CallParts /\ CallParts'
  BY DEF TypeParts, CallParts, WellFormed
<1>2. \A c \in Calls : /\ calls[c].op \in {"none", "load", "save", "start"}
                       /\ calls[c].at \in 0 .. 9 /\ calls[c].clean \in BOOLEAN
                       /\ calls[c].copy.rule \in Rules
  BY <1>1 DEF CallParts, CallRecords, Copies
<1> DEFINE FreshIsShown ==
             fresh =>
               /\ PartOf(editor.rule, tables) /\ (whole => editor.rule = tables)
               /\ ui # "terminal" /\ window.open => window.ticked = editor.rule.objects
           CallIsClean(c) ==
             calls[c].clean =>
               /\ calls[c].op = "load" => ReadInPart(c) /\ (calls[c].whole => ReadSoFar(c))
               /\ calls[c].op = "save" /\ calls[c].at = 1 =>
                    /\ PartOf(calls[c].copy.rule, Unedited)
                    /\ calls[c].whole => calls[c].copy.rule = Unedited
<1>3. FreshIsShown /\ \A c \in Calls : CallIsClean(c)
  BY DEF CleanInv
<1>4. ASSUME FreshIsShown', \A c \in Calls : CallIsClean(c)'
      PROVE  CleanInv'
  BY <1>4 DEF CleanInv
<1>5. ASSUME UNCHANGED <<ui, tables>>, NEW c \in Calls, calls'[c] = calls[c]
      PROVE  CallIsClean(c)'
  BY <1>3, <1>5 DEF ReadSoFar, ReadInPart, Unedited
<1>6. ASSUME UNCHANGED <<ui, tables, editor, window, fresh, whole>>
      PROVE  FreshIsShown'
  BY <1>3, <1>6
<1> HIDE DEF FreshIsShown, CallIsClean
<1>7. CASE UNCHANGED vars
  BY <1>4, <1>5, <1>6, <1>7 DEF vars, running, loaded
<1>8. CASE DeviceAppears
  BY <1>4, <1>5, <1>6, <1>8 DEF DeviceAppears, running, loaded
<1>9. CASE DeleteDevice
  <2>1. /\ calls' = Stale(tables') /\ fresh' = (fresh /\ tables' = tables)
        /\ UNCHANGED <<ui, editor, window, whole>>
    BY <1>9 DEF DeleteDevice, TablesBecome
  <2>2. \A c \in Calls : /\ calls'[c].op = calls[c].op /\ calls'[c].at = calls[c].at
                         /\ calls'[c].copy = calls[c].copy /\ calls'[c].whole = calls[c].whole
                         /\ calls'[c].clean => calls[c].clean /\ tables' = tables
    BY <1>1, <2>1, StaleDoes
  <2>3. FreshIsShown'
    BY <1>3, <2>1 DEF FreshIsShown
  <2>4. ASSUME NEW x \in Calls PROVE CallIsClean(x)'
    <3> SUFFICES ASSUME calls'[x].clean PROVE CallIsClean(x)'
      BY DEF CallIsClean
    <3>1. tables' = tables /\ calls[x].clean
      BY <2>2
    <3>2. calls'[x].at = calls[x].at =>
            (ReadSoFar(x) => ReadSoFar(x)') /\ (ReadInPart(x) => ReadInPart(x)')
      BY <2>2, <3>1 DEF ReadSoFar, ReadInPart
    <3>3. calls'[x].op = "save" => calls'[x].at = calls[x].at \/ calls'[x].at = 8
      BY <2>2
    <3>4. Unedited' = Unedited
      BY <2>1, <3>1 DEF Unedited
    <3> QED BY <1>3, <2>2, <3>1, <3>2, <3>3, <3>4 DEF CallIsClean
  <2> QED BY <1>4, <2>3, <2>4
<1>10. ASSUME NEW r \in Rules, Write(r)
       PROVE  CleanInv'
  <2>1. fresh' = FALSE /\ UNCHANGED <<ui, tables>>
    BY <1>10, WriteDoes
  <2>2. \A c \in Calls : /\ calls'[c].op = calls[c].op /\ calls'[c].at = calls[c].at
                         /\ calls'[c].whole = calls[c].whole
                         /\ calls'[c].clean => calls[c].clean /\ calls'[c].copy = calls[c].copy
    <3>1. \A c \in Calls :
            /\ calls'[c].op = calls[c].op /\ calls'[c].at = calls[c].at
            /\ calls'[c].copy = Passed(c, r) /\ calls'[c].whole = calls[c].whole
            /\ calls'[c].clean = (calls[c].clean /\ Passed(c, r) = calls[c].copy)
      BY <1>1, <1>10, WriteCalls
    <3> QED BY <3>1
  <2>3. FreshIsShown'
    BY <2>1 DEF FreshIsShown
  <2>4. ASSUME NEW x \in Calls PROVE CallIsClean(x)'
    <3> SUFFICES ASSUME calls'[x].clean PROVE CallIsClean(x)'
      BY DEF CallIsClean
    <3>1. calls[x].clean /\ calls'[x].copy = calls[x].copy
      BY <2>2
    <3>2. (ReadSoFar(x)' <=> ReadSoFar(x)) /\ (ReadInPart(x)' <=> ReadInPart(x))
      BY <2>1, <2>2, <3>1 DEF ReadSoFar, ReadInPart
    <3>3. Unedited' = Unedited
      BY <2>1 DEF Unedited
    <3> QED BY <1>3, <2>2, <3>1, <3>2, <3>3 DEF CallIsClean
  <2> QED BY <1>4, <2>3, <2>4
<1>11. CASE Edit
  <2>1. CASE \E ticked \in SUBSET window.rows : TickObjects(ticked)
    <3>1. UNCHANGED <<ui, tables, calls>> /\ fresh' = FALSE
      BY <2>1 DEF TickObjects
    <3>2. FreshIsShown'
      BY <3>1 DEF FreshIsShown
    <3> QED BY <1>4, <1>5, <3>1, <3>2
  <2>2. CASE CloseWindow
    <3>1. UNCHANGED <<ui, tables, calls, editor, fresh, whole>> /\ window' = NoWindow
      BY <2>2 DEF CloseWindow, loaded
    <3>2. FreshIsShown'
      BY <1>3, <3>1, Closed DEF FreshIsShown
    <3> QED BY <1>4, <1>5, <3>1, <3>2
  <2> QED BY <1>10, <1>11, <2>1, <2>2, EditMoves, MarkWrites
<1>12. ASSUME NEW c \in Calls, Load(c) \/ Restart(c)
       PROVE  CleanInv'
  <2>1. /\ UNCHANGED <<ui, tables, editor, window, fresh, whole>>
        /\ \E op \in {"load", "start"} : Begin(c, op, Copy(NoRule, FreshMaps), TRUE)
    BY <1>12 DEF Load, Restart, loaded
  <2>2. Copy(NoRule, FreshMaps) \in Copies
    BY EmptyRule, FreshMapsExist, CopyParts
  <2>3. /\ calls'[c].op \in {"load", "start"} /\ calls'[c].at = 1
        /\ \A d \in Calls \ {c} : calls'[d] = calls[d]
    BY <1>1, <2>1, <2>2, BeginDoes, ZenonT(60)
  <2>4. CallIsClean(c)'
    BY <2>3 DEF CallIsClean, ReadSoFar, ReadInPart
  <2> QED BY <1>4, <1>5, <1>6, <2>1, <2>3, <2>4
<1>13. ASSUME NEW c \in Calls, Save(c)
       PROVE  CleanInv'
  <2>1. /\ UNCHANGED <<ui, tables, editor, window, fresh, whole>>
        /\ Begin(c, "save", Collect, fresh)
        /\ ui # "terminal" => window.open
    BY <1>13 DEF Save, loaded
  <2>2. Collect \in Copies /\ fresh \in BOOLEAN /\ editor \in Copies /\ tables \in Rules
    BY Collected DEF TypeParts
  <2>3. /\ calls'[c].op = "save" /\ calls'[c].copy = Collect /\ calls'[c].clean = fresh
        /\ calls'[c].whole = whole
        /\ \A d \in Calls \ {c} : calls'[d] = calls[d]
    <3>1. whole \in BOOLEAN
      BY DEF TypeParts
    <3> QED BY <1>1, <2>1, <2>2, <3>1, BeginDoes
  <2>4. ASSUME fresh
        PROVE  PartOf(Collect.rule, Unedited) /\ (whole => Collect.rule = Unedited)
    <3>1. /\ editor.rule \in Rules /\ PartOf(editor.rule, tables)
          /\ whole => editor.rule = tables
      BY <1>3, <2>2, <2>4 DEF FreshIsShown, Copies
    <3>2. CASE ui = "terminal"
      <4>1. /\ Collect.rule = [editor.rule EXCEPT !.zones = {}, !.parts = {}]
            /\ Unedited = [tables EXCEPT !.zones = {}, !.parts = {}]
        BY <3>2 DEF Collect, collectRelayFields, Unedited, Copy
      <4>2. whole => Collect.rule = Unedited
        BY <3>1, <4>1
      <4>3. /\ editor.rule.enabled = tables.enabled
            /\ editor.rule.groups \subseteq tables.groups
            /\ editor.rule.objects \subseteq tables.objects
            /\ editor.rule.codes \subseteq tables.codes
            /\ editor.rule.objCodes \subseteq tables.objCodes
        BY <3>1, PartByFields
      <4>4. PartOf(Collect.rule, Unedited)
        <5> DEFINE kept == Collect.rule
                   whole_ == Unedited
        <5>1. /\ kept.enabled = editor.rule.enabled /\ kept.groups = editor.rule.groups
              /\ kept.objects = editor.rule.objects /\ kept.codes = editor.rule.codes
              /\ kept.objCodes = editor.rule.objCodes
              /\ kept.zones = {} /\ kept.parts = {}
          BY <3>1, <4>1 DEF Rules
        <5>2. /\ whole_.enabled = tables.enabled /\ whole_.groups = tables.groups
              /\ whole_.objects = tables.objects /\ whole_.codes = tables.codes
              /\ whole_.objCodes = tables.objCodes
              /\ whole_.zones = {} /\ whole_.parts = {}
          BY <2>2, <4>1 DEF Rules
        <5> HIDE DEF kept, whole_
        <5>3. PartOf(kept, whole_)
          BY <4>3, <5>1, <5>2, PartByFields
        <5> QED BY <5>3 DEF kept, whole_
      <4> QED BY <4>2, <4>4
    <3>3. CASE ui # "terminal"
      <4>1. window.ticked = editor.rule.objects
        BY <1>3, <2>1, <2>4, <3>3 DEF FreshIsShown
      <4>2. Collect.rule = [editor.rule EXCEPT !.objects = editor.rule.objects]
        BY <2>2, <3>3, <4>1 DEF Collect, Copies
      <4>3. Collect.rule = editor.rule /\ Unedited = tables
        BY <3>1, <3>3, <4>2 DEF Rules, Unedited
      <4> QED BY <3>1, <4>3
    <3> QED BY <3>2, <3>3
  <2>5. CallIsClean(c)'
    <3>1. Unedited' = Unedited
      BY <2>1 DEF Unedited
    <3> QED BY <2>3, <2>4, <3>1 DEF CallIsClean
  <2> QED BY <1>4, <1>5, <1>6, <2>1, <2>3, <2>5
<1>14. ASSUME NEW c \in Calls, GetRelayFilterRule(c) \/ ReadShort(c)
       PROVE  CleanInv'
  <2>1. UNCHANGED <<ui, tables, editor, window, fresh, whole>>
    BY <1>14 DEF GetRelayFilterRule, ReadShort, loaded
  <2>2. /\ calls[c].op \in {"load", "start"} /\ calls'[c].op = calls[c].op
        /\ calls'[c].clean = calls[c].clean
        /\ calls'[c].whole => GetRelayFilterRule(c) /\ calls[c].whole
        /\ \A d \in Calls \ {c} : calls'[d] = calls[d]
    <3>1. tables \in Rules
      BY DEF TypeParts
    <3>2. CASE ReadShort(c)
      BY <1>1, <3>1, <3>2, ShortDoes
    <3>3. CASE GetRelayFilterRule(c)
      BY <1>1, <3>1, <3>3, ReadDoes
    <3> QED BY <1>14, <3>2, <3>3
  <2>3. CallIsClean(c)'
    <3>1. /\ ReadInPart(c) => ReadInPart(c)'
          /\ GetRelayFilterRule(c) /\ ReadSoFar(c) => ReadSoFar(c)'
      BY <1>14, <2>1, ReadOn
    <3> QED BY <1>3, <2>2, <3>1 DEF CallIsClean
  <2> QED BY <1>4, <1>5, <1>6, <2>1, <2>2, <2>3
<1>15. ASSUME NEW c \in Calls, SaveRelayFilterRule(c)
       PROVE  CleanInv'
  <2>1. /\ UNCHANGED <<ui, editor, window, whole>>
        /\ fresh' = (fresh /\ tables' = tables)
    BY <1>15 DEF SaveRelayFilterRule, TablesBecome
  <2>2. /\ calls'[c].at = 8
        /\ \A d \in Calls : /\ calls'[d].op = calls[d].op
                            /\ calls'[d].copy = calls[d].copy
                            /\ calls'[d].whole = calls[d].whole
                            /\ d # c => calls'[d].at = calls[d].at
                            /\ calls'[d].clean => calls[d].clean /\ tables' = tables
        /\ calls[c].op = "save"
    BY <1>1, <1>15, SaveDoes
  <2>3. FreshIsShown'
    BY <1>3, <2>1 DEF FreshIsShown
  <2>4. ASSUME NEW x \in Calls PROVE CallIsClean(x)'
    <3> SUFFICES ASSUME calls'[x].clean PROVE CallIsClean(x)'
      BY DEF CallIsClean
    <3>1. tables' = tables /\ calls[x].clean
      BY <2>2
    <3>2. calls'[x].at = calls[x].at =>
            (ReadSoFar(x) => ReadSoFar(x)') /\ (ReadInPart(x) => ReadInPart(x)')
      BY <2>2, <3>1 DEF ReadSoFar, ReadInPart
    <3>3. calls'[x].op = "save" => calls'[x].at = calls[x].at \/ calls'[x].at = 8
      BY <2>2
    <3>4. Unedited' = Unedited
      BY <2>1, <3>1 DEF Unedited
    <3> QED BY <1>3, <2>2, <3>1, <3>2, <3>3, <3>4 DEF CallIsClean
  <2> QED BY <1>4, <2>3, <2>4
<1>16. ASSUME UNCHANGED <<ui, tables>>, NEW c \in Calls, Return(c)
       PROVE  \A d \in Calls : CallIsClean(d)'
  <2>1. calls'[c] = Idle /\ \A d \in Calls \ {c} : calls'[d] = calls[d]
    BY <1>1, <1>16, ReturnDoes
  <2>2. CallIsClean(c)'
    BY <2>1 DEF Idle, CallIsClean
  <2> QED BY <1>5, <1>16, <2>1, <2>2
<1>17. ASSUME NEW c \in Calls, SaveFails(c) \/ ReadFails(c)
       PROVE  CleanInv'
  <2>1. UNCHANGED <<ui, tables, editor, window, fresh, whole>> /\ Return(c)
    BY <1>17 DEF SaveFails, ReadFails, loaded
  <2> QED BY <1>4, <1>6, <1>16, <2>1
<1>18. ASSUME NEW c \in Calls, UpdateServer(c)
       PROVE  CleanInv'
  <2>1. /\ UNCHANGED <<ui, tables, editor, window, fresh, whole>>
        /\ calls[c].op \in {"save", "start"} /\ calls[c].at = Len(Tables) + 1
        /\ calls' = [calls EXCEPT ![c].at = @ + 1]
    BY <1>18 DEF UpdateServer, loaded
  <2>2. /\ calls'[c].op = calls[c].op /\ calls'[c].at = 9
        /\ \A d \in Calls \ {c} : calls'[d] = calls[d]
    BY <1>1, <2>1, HandDoes
  <2>3. CallIsClean(c)'
    BY <2>1, <2>2 DEF CallIsClean
  <2> QED BY <1>4, <1>5, <1>6, <2>1, <2>2, <2>3
<1>19. ASSUME NEW c \in Calls, UpdateClient(c)
       PROVE  CleanInv'
  <2>1. /\ UNCHANGED <<ui, tables, whole>> /\ Return(c)
        /\ \/ UNCHANGED <<editor, window, fresh>>
           \/ /\ editor' \in {editor, calls[c].copy}
              /\ \/ window' = NoWindow
                 \/ editor' = calls[c].copy /\ window' = OpenWindow(calls[c].copy.rule)
              /\ fresh' = (fresh /\ editor' = editor)
    BY <1>19 DEF UpdateClient
  <2>2. FreshIsShown'
    <3>1. CASE UNCHANGED <<editor, window, fresh>>
      BY <1>6, <2>1, <3>1
    <3>2. CASE fresh' = (fresh /\ editor' = editor) /\ window' = NoWindow
      BY <1>3, <2>1, <3>2, Closed DEF FreshIsShown
    <3>3. CASE /\ fresh' = (fresh /\ editor' = editor) /\ editor' = calls[c].copy
               /\ window' = OpenWindow(calls[c].copy.rule)
      <4>1. ASSUME fresh'
            PROVE  /\ PartOf(editor'.rule, tables') /\ (whole' => editor'.rule = tables')
                   /\ window'.ticked = editor'.rule.objects
        <5>1. /\ editor' = editor /\ PartOf(editor.rule, tables)
              /\ whole => editor.rule = tables
          BY <1>3, <3>3, <4>1 DEF FreshIsShown
        <5>2. window'.ticked = editor.rule.objects \cap known
          BY <1>2, <3>3, <5>1, Opened
        <5>3. editor.rule.objects \subseteq known
          BY <5>1, PartByFields, KeptMeansKnown DEF TypeParts
        <5> QED BY <2>1, <5>1, <5>2, <5>3
      <4> QED BY <4>1 DEF FreshIsShown
    <3> QED BY <2>1, <3>1, <3>2, <3>3
  <2> QED BY <1>4, <1>16, <2>1, <2>2
<1>20. ASSUME NEW c \in Calls, ShowLoaded(c)
       PROVE  CleanInv'
  <2>1. /\ UNCHANGED <<ui, tables>> /\ Return(c)
        /\ calls[c].op = "load" /\ calls[c].at > 7 /\ editor' = calls[c].copy
        /\ window' = IF ui = "terminal" THEN window ELSE OpenWindow(calls[c].copy.rule)
        /\ fresh' = calls[c].clean /\ whole' = calls[c].whole
    BY <1>20, SevenTables DEF ShowLoaded
  <2>2. ASSUME fresh'
        PROVE  /\ PartOf(editor'.rule, tables') /\ (whole' => editor'.rule = tables')
               /\ ui' # "terminal" => window'.ticked = editor'.rule.objects
    <3>1. ReadInPart(c) /\ (calls[c].whole => ReadSoFar(c))
      BY <1>3, <2>1, <2>2 DEF CallIsClean
    <3>2. /\ PartOf(calls[c].copy.rule, tables)
          /\ calls[c].whole => calls[c].copy.rule = tables
      BY <2>1, <3>1, RuleRead
    <3>3. ui # "terminal" => window'.ticked = calls[c].copy.rule.objects \cap known
      BY <1>2, <2>1, Opened
    <3>4. calls[c].copy.rule.objects \subseteq known
      BY <3>2, PartByFields, KeptMeansKnown DEF TypeParts
    <3> QED BY <2>1, <3>2, <3>3, <3>4
  <2>3. FreshIsShown'
    BY <2>2 DEF FreshIsShown
  <2> QED BY <1>4, <1>16, <2>1, <2>3
<1> QED BY <1>7, <1>8, <1>9, <1>11, <1>12, <1>13, <1>14, <1>15, <1>17, <1>18, <1>19, <1>20
        DEF Next

LEMMA RulesAreClean == Spec => [](TypeParts /\ CleanInv)
<1>1. Init => TypeParts /\ CleanInv
  BY TypesInit, CleanInit
<1>2. TypeParts /\ CleanInv /\ [Next]_vars => (TypeParts /\ CleanInv)'
  BY TypesStep, CleanStep
<1> QED BY <1>1, <1>2, PTL DEF Spec

(* Saving what was loaded, unedited and with no other writer in between,   *)
(* stores what was stored, except that the terminal's form drops every     *)
(* detail; when a query of the load failed and nobody was told, it stores  *)
(* a part of it (collectRelayFields, Repository.SaveRelayFilterRule,       *)
(* Repository.GetRelayFilterRule).                                         *)
THEOREM UneditedIsStored == Spec => UneditedSaveChangesNothing
<1>1. ASSUME TypeParts, CleanInv, [Next]_vars, NEW c \in Calls,
             calls[c].op = "save", calls[c].at = 1, calls[c].clean, calls'[c].at > 1
      PROVE  PartOf(tables', Unedited) /\ (calls[c].whole => tables' = Unedited)
  <2>1. CallParts
    BY <1>1 DEF TypeParts, CallParts
  <2>2. calls'[c].at # calls[c].at
    BY <1>1
  <2>3. calls' # calls
    BY <2>2
  <2>4. CASE SaveRelayFilterRule(c)
    <3>1. tables' = Kept(calls[c].copy.rule, known)
      BY <2>1, <2>4, SaveDoes
    <3>2. /\ PartOf(calls[c].copy.rule, Unedited)
          /\ calls[c].whole => calls[c].copy.rule = Unedited
      BY <1>1 DEF CleanInv
    <3>3. calls[c].copy.rule \in Rules
      BY <1>1 DEF TypeParts, CallRecords, Copies
    <3>4. Unedited \in Rules /\ Kept(Unedited, known) = Unedited
      BY <1>1, UneditedIsKept
    <3> QED BY <3>1, <3>2, <3>3, <3>4, PartKept
  <2>5. ASSUME NEW r \in Rules, Write(r) PROVE FALSE
    BY <2>1, <2>2, <2>5, WriteCalls
  <2>6. CASE Edit
    <3>1. CASE (\E ticked \in SUBSET window.rows : TickObjects(ticked)) \/ CloseWindow
      BY <2>3, <3>1 DEF TickObjects, CloseWindow
    <3> QED BY <1>1, <2>5, <2>6, <3>1, EditMoves, MarkWrites
  <2>7. CASE DeviceAppears
    BY <2>3, <2>7 DEF DeviceAppears
  <2>8. CASE DeleteDevice
    BY <2>1, <2>2, <2>8, StaleDoes DEF DeleteDevice
  <2>9. ASSUME NEW d \in Calls, Load(d) \/ Save(d) \/ Restart(d)
        PROVE  FALSE
    <3>1. PICK op \in {"load", "save", "start"}, copy \in Copies, clean \in BOOLEAN :
            Begin(d, op, copy, clean)
      <4>1. /\ Copy(NoRule, FreshMaps) \in Copies /\ fresh \in BOOLEAN
            /\ Collect \in Copies
        BY <1>1, EmptyRule, FreshMapsExist, CopyParts, Collected DEF TypeParts
      <4> QED BY <2>9, <4>1 DEF Load, Save, Restart
    <3>2. calls[d].op = "none" /\ \A e \in Calls \ {d} : calls'[e] = calls[e]
      BY <2>1, <3>1, BeginDoes
    <3> QED BY <1>1, <2>2, <3>2
  <2>10. ASSUME NEW d \in Calls, SaveRelayFilterRule(d), d # c
         PROVE  FALSE
    BY <2>1, <2>2, <2>10, SaveDoes
  <2>11. ASSUME NEW d \in Calls, GetRelayFilterRule(d) \/ ReadShort(d)
         PROVE  FALSE
    <3>1. /\ calls[d].op \in {"load", "start"}
          /\ \A e \in Calls \ {d} : calls'[e] = calls[e]
      <4>1. tables \in Rules
        BY <1>1 DEF TypeParts
      <4>2. CASE GetRelayFilterRule(d)
        BY <2>1, <4>1, <4>2, ReadDoes
      <4>3. CASE ReadShort(d)
        BY <2>1, <4>1, <4>3, ShortDoes
      <4> QED BY <2>11, <4>2, <4>3
    <3> QED BY <1>1, <2>2, <3>1
  <2>12. ASSUME NEW d \in Calls,
                SaveFails(d) \/ ReadFails(d) \/ UpdateClient(d) \/ ShowLoaded(d)
         PROVE  FALSE
    <3>1. Return(d)
      BY <2>12 DEF SaveFails, ReadFails, UpdateClient, ShowLoaded
    <3>2. calls'[d] = Idle /\ \A e \in Calls \ {d} : calls'[e] = calls[e]
      BY <2>1, <3>1, ReturnDoes
    <3>3. Idle.at = 0
      BY DEF Idle
    <3> QED BY <1>1, <2>2, <3>2, <3>3
  <2>13. ASSUME NEW d \in Calls, UpdateServer(d)
         PROVE  FALSE
    <3>1. /\ calls[d].op \in {"save", "start"} /\ calls[d].at = Len(Tables) + 1
          /\ calls' = [calls EXCEPT ![d].at = @ + 1]
      BY <2>13 DEF UpdateServer
    <3>2. calls[d].at = 8 /\ \A e \in Calls \ {d} : calls'[e] = calls[e]
      BY <2>1, <3>1, HandDoes
    <3> QED BY <1>1, <2>2, <3>2
  <2> QED BY <1>1, <2>3, <2>4, <2>6, <2>7, <2>8, <2>9, <2>10, <2>11, <2>12, <2>13
          DEF Next, vars
<1>2. TypeParts /\ CleanInv /\ [Next]_vars =>
        \A c \in Calls :
          calls[c].op = "save" /\ calls[c].at = 1 /\ calls[c].clean /\ calls'[c].at > 1 =>
            PartOf(tables', Unedited) /\ (calls[c].whole => tables' = Unedited)
  BY <1>1
<1>3. TypeParts /\ CleanInv /\ [Next]_vars =>
        [\A c \in Calls :
           calls[c].op = "save" /\ calls[c].at = 1 /\ calls[c].clean /\ calls'[c].at > 1 =>
             LET unedited == IF ui = "terminal" THEN [tables EXCEPT !.zones = {}, !.parts = {}]
                             ELSE tables
             IN /\ PartOf(tables', unedited)
                /\ calls[c].whole => tables' = unedited]_vars
  BY <1>2 DEF Unedited
<1> QED BY <1>3, RulesAreClean, PTL DEF UneditedSaveChangesNothing, Spec

(* A click on a code in the Windows dialog edits the codes of the objects  *)
(* that are ticked, and those of everyone only when none is                *)
(* (walk_ui_relay.go, the code pane).                                      *)
THEOREM TickedIsEdited == Spec => WindowsEditsWhatIsTicked
<1> DEFINE Promise ==
      ui = "windows" /\ window.open /\ edits' # edits
          /\ window.marked # window'.marked /\ window.ticked = window'.ticked =>
        /\ \A t \in editor.rule.objCodes \cup editor'.rule.objCodes :
              t[1] \notin window.ticked => (t \in editor.rule.objCodes <=> t \in editor'.rule.objCodes)
        /\ window.ticked # {} => editor'.rule.codes = editor.rule.codes
<1>1. ASSUME TypeParts, Next, ui = "windows", edits' # edits,
             window.marked # window'.marked
      PROVE  /\ \A t \in editor.rule.objCodes \cup editor'.rule.objCodes :
              t[1] \notin window.ticked => (t \in editor.rule.objCodes <=> t \in editor'.rule.objCodes)
             /\ window.ticked # {} => editor'.rule.codes = editor.rule.codes
  <2>1. Edit
    <3>1. UNCHANGED edits \/ Edit
      BY <1>1 DEF Next, DeviceAppears, DeleteDevice, Load, Save, Restart, GetRelayFilterRule,
         ReadShort, ReadFails, SaveRelayFilterRule, SaveFails, UpdateServer, UpdateClient,
         ShowLoaded, bounds
    <3> QED BY <1>1, <3>1
  <2>2. PICK marked \in SUBSET Codes : MarkCodes(marked)
    <3>1. ~ UNCHANGED window /\ ~ UNCHANGED edits
      BY <1>1
    <3>2. \A ticked : ~ TickObjects(ticked)
      BY <3>1 DEF TickObjects, bounds
    <3>3. ~ CloseWindow
      BY <3>1 DEF CloseWindow, bounds
    <3> QED BY <1>1, <2>1, <3>1, <3>2, <3>3, EditMoves
  <2> DEFINE others == {t \in editor.rule.objCodes : t[1] \notin window.scope}
             r == IF window.scope = {} THEN [editor.rule EXCEPT !.codes = marked]
                  ELSE [editor.rule EXCEPT !.objCodes = others \cup (window.scope \X marked)]
  <2>3. editor' = Copy(r, editor.maps)
    BY <2>2 DEF MarkCodes, Write
  <2>4. editor.rule \in Rules /\ window.scope = window.ticked
    BY <1>1 DEF TypeParts, Copies, GoodWindow
  <2>5. editor'.rule = r
    BY <2>3 DEF Copy
  <2>6. CASE window.ticked = {}
    BY <2>4, <2>5, <2>6 DEF Rules
  <2>7. CASE window.ticked # {}
    <3>1. /\ editor'.rule.codes = editor.rule.codes
          /\ editor'.rule.objCodes = others \cup (window.ticked \X marked)
      BY <2>4, <2>5, <2>7 DEF Rules
    <3>2. others = {t \in editor.rule.objCodes : t[1] \notin window.ticked}
      BY <2>4
    <3>3. \A t \in window.ticked \X marked : t[1] \in window.ticked
      OBVIOUS
    <3> HIDE DEF others
    <3> QED BY <3>1, <3>2, <3>3
  <2> QED BY <2>6, <2>7
<1>2. TypeParts /\ [Next]_vars => [Promise]_vars
  BY <1>1 DEF vars
<1>3. Spec => []TypeParts
  BY TypesInit, TypesStep, PTL DEF Spec
<1> QED BY <1>2, <1>3, PTL DEF WindowsEditsWhatIsTicked, Spec
=============================================================================

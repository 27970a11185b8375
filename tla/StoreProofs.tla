----------------------------- MODULE StoreProofs -----------------------------
(***************************************************************************)
(* Proofs about module Store, for any devices, codes and zones, any size   *)
(* of a batch, any number of attempts, events, faults and deletions.       *)
(*                                                                         *)
(* A transaction runs over a batch of any length, as a recursive function. *)
(* What it computes is proved by the least natural number (LeastNumber)    *)
(* for which it would not hold.                                            *)
(***************************************************************************)
EXTENDS Store, WellFoundedInduction, TLAPS

Numbers == 1 .. MaxEvents
Events == [n : Nat, device : Devices, code : Codes, zone : Zones \cup {NoZone}]
Filed == [e : Events, code : Nat, zone : Nat, doubt : BOOLEAN]
RowTables == [code : Seq(Codes), zone : Seq(Zones)]
Caches == [code : [Codes -> Nat], zone : [Zones -> Nat]]

(* A row is where its event is looked for: both ids name rows of their     *)
(* tables, and the rows say what the event said.                           *)
Right(row, r) ==
  /\ row.code \in DOMAIN r.code /\ r.code[row.code] = row.e.code
  /\ IF row.zone = 0 THEN row.e.zone = NoZone
     ELSE row.zone \in DOMAIN r.zone /\ r.zone[row.zone] = row.e.zone

(* What holds of the tables and of the cache, inside a transaction too.    *)
WellFiled(r, c, ds, es) ==
  /\ r \in RowTables /\ c \in Caches /\ ds \subseteq Devices /\ es \subseteq Filed
  /\ IsInjective(r.code) /\ IsInjective(r.zone)
  /\ \A r1, r2 \in es : r1.e.n = r2.e.n => r1 = r2
  /\ \A row \in es : row.e.device \in ds
  /\ \A row \in es : ~ row.doubt => Right(row, r)
  /\ ~ rolledBack =>
       /\ \A name \in Codes : c.code[name] \in {0, IdOf(r.code, name)}
       /\ \A name \in Zones : c.zone[name] \in {0, IdOf(r.zone, name)}

StoreInv ==
  /\ WellFiled(rows, cache, devices, events)
  /\ batch \in Seq(Events) /\ given \in 0 .. MaxEvents
  /\ mode \in {"batch", "each"} /\ (mode = "each" => batch # <<>>)
  /\ rolledBack \in BOOLEAN
  /\ \A row \in events : row.e.n \in 1 .. given
  /\ \A i \in DOMAIN batch : /\ batch[i].n \in 1 .. given
                             /\ \A row \in events : row.e.n # batch[i].n
  /\ \A i, j \in DOMAIN batch : batch[i].n = batch[j].n => i = j

Present(n) == \/ \E row \in events : row.e.n = n
              \/ \E i \in DOMAIN batch : batch[i].n = n

(* What is in the hands of the keeper has left the batch for good; and     *)
(* what is in the archive is about to be deleted, or gone, unless a run    *)
(* was interrupted.                                                        *)
KeeperInv ==
  /\ archive \in [Numbers -> Nat] /\ archiving \in BOOLEAN
  /\ keeper \in [at : {"idle", "load", "archive", "delete"}, load : SUBSET Numbers]
  /\ \A n \in keeper.load : n <= given /\ \A i \in DOMAIN batch : batch[i].n # n
  /\ archiving /\ keeper.at = "delete" => \A n \in keeper.load : archive[n] > 0
  /\ ~ interrupted =>
       /\ keeper.at = "archive" => \A n \in keeper.load : archive[n] = 0
       /\ \A n \in Numbers : archive[n] > 0 =>
            \/ keeper.at = "delete" /\ n \in keeper.load
            \/ ~ Present(n) /\ n <= given

-----------------------------------------------------------------------------
(* A set of naturals that has a member has a least one.                    *)
LEMMA LeastNumber ==
  ASSUME NEW T \in SUBSET Nat, T # {}
  PROVE  \E m \in T : \A k \in T : m <= k
<1> DEFINE R == {p \in Nat \X Nat : p[1] < p[2]}
<1>1. IsWellFoundedOn(OpToRel(<, Nat), Nat)
  BY NatLessThanWellFounded, Zenon
<1>2. IsWellFoundedOn(R, Nat)
  BY <1>1, Zenon DEF OpToRel
<1>3. ASSUME NEW x \in Nat, NEW y \in Nat, y < x
      PROVE  <<y, x>> \in R
  <2> DEFINE p == <<y, x>>
  <2>1. p \in Nat \X Nat /\ p[1] = y /\ p[2] = x
    OBVIOUS
  <2> HIDE DEF p
  <2>2. p \in R
    BY <1>3, <2>1
  <2> QED BY <2>2 DEF p
<1> HIDE DEF R
<1>4. \E x \in T : \A y \in T : <<y, x>> \notin R
  BY <1>2, WFMin, Zenon
<1>5. \A x, y \in T : <<y, x>> \notin R => x <= y
  BY <1>3
<1> QED BY <1>4, <1>5

(* Induction up to a bound, over the numbers for which something fails.    *)
LEMMA UpTo ==
  ASSUME NEW n \in Nat, NEW Good, 0 \in Good,
         \A m \in 1 .. n : m - 1 \in Good => m \in Good
  PROVE  \A m \in 0 .. n : m \in Good
<1> DEFINE T == {m \in 0 .. n : m \notin Good}
<1> SUFFICES ASSUME T # {} PROVE FALSE
  OBVIOUS
<1>1. T \in SUBSET Nat
  OBVIOUS
<1>2. PICK m \in T : \A k \in T : m <= k
  BY <1>1, LeastNumber
<1>3. m \in 1 .. n /\ m - 1 \in 0 .. n /\ m - 1 \notin T
  BY <1>2
<1> QED BY <1>2, <1>3

-----------------------------------------------------------------------------
(* A transaction goes from one event to the next.                          *)
Course(es, n, g) ==
  g = [i \in 0 .. n |-> IF i = 0 THEN Begun ELSE saveEventTxCached(g[i - 1], es[i])]

LEMMA CourseExists ==
  ASSUME NEW es, NEW n \in Nat
  PROVE  \E g : Course(es, n, g)
<1> DEFINE S(t, i) == saveEventTxCached(t, es[i])
           Good == {m \in 0 .. n : \E g : Course(es, m, g)}
<1>1. \A m, g : Course(es, m, g) <=>
        g = [i \in 0 .. m |-> IF i = 0 THEN Begun ELSE S(g[i - 1], i)]
  BY DEF Course
<1> HIDE DEF S
<1>2. 0 \in Good
  <2> DEFINE g == [i \in 0 .. 0 |-> Begun]
  <2>1. g = [i \in 0 .. 0 |-> IF i = 0 THEN Begun ELSE S(g[i - 1], i)]
    OBVIOUS
  <2> HIDE DEF g
  <2>2. Course(es, 0, g)
    BY <1>1, <2>1
  <2>3. \E f : Course(es, 0, f)
    BY <2>2
  <2> QED BY <2>3
<1>3. ASSUME NEW m \in 1 .. n, m - 1 \in Good
      PROVE  m \in Good
  <2>1. PICK g : g = [i \in 0 .. m - 1 |-> IF i = 0 THEN Begun ELSE S(g[i - 1], i)]
    BY <1>1, <1>3
  <2> DEFINE h == [i \in 0 .. m |-> IF i < m THEN g[i] ELSE S(g[m - 1], m)]
  <2>2. \A i \in 0 .. m : h[i] = IF i = 0 THEN Begun ELSE S(h[i - 1], i)
    <3>1. \A i \in 0 .. m - 1 : g[i] = IF i = 0 THEN Begun ELSE S(g[i - 1], i)
      BY <2>1
    <3>2. \A i \in 0 .. m - 1 : h[i] = g[i]
      OBVIOUS
    <3>3. h[m] = S(g[m - 1], m)
      OBVIOUS
    <3> HIDE DEF h
    <3>4. CASE m = 1
      BY <3>1, <3>2, <3>3, <3>4
    <3>5. CASE m > 1
      BY <3>1, <3>2, <3>3, <3>5
    <3> QED BY <3>4, <3>5
  <2>3. h = [i \in 0 .. m |-> IF i = 0 THEN Begun ELSE S(h[i - 1], i)]
    <3>1. h = [i \in 0 .. m |-> h[i]]
      OBVIOUS
    <3> HIDE DEF h
    <3> QED BY <2>2, <3>1
  <2> HIDE DEF h
  <2>4. Course(es, m, h)
    BY <1>1, <2>3
  <2> QED BY <2>4
<1> HIDE DEF Good
<1>4. n \in Good
  BY <1>2, <1>3, UpTo
<1> QED BY <1>4 DEF Good

LEMMA TransactionIsCourse ==
  ASSUME NEW es, Len(es) \in Nat
  PROVE  \E g : Course(es, Len(es), g) /\ Transaction(es) = g[Len(es)]
<1> DEFINE g == CHOOSE f : Course(es, Len(es), f)
<1>1. Course(es, Len(es), g)
  BY CourseExists
<1>2. Transaction(es) = g[Len(es)]
  BY DEF Transaction, Course
<1> QED BY <1>1, <1>2

-----------------------------------------------------------------------------
(* Tables and ids.                                                         *)
Grows(table, new) ==
  DOMAIN table \subseteq DOMAIN new /\ \A i \in DOMAIN table : new[i] = table[i]

LEMMA IdOfFound ==
  ASSUME NEW S, NEW table \in Seq(S), NEW name
  PROVE  /\ IdOf(table, name) \in Nat
         /\ IdOf(table, name) # 0 =>
              IdOf(table, name) \in DOMAIN table /\ table[IdOf(table, name)] = name
         /\ IdOf(table, name) = 0 => \A i \in DOMAIN table : table[i] # name
BY DEF IdOf

LEMMA IdOfOnly ==
  ASSUME NEW S, NEW table \in Seq(S), IsInjective(table), NEW i \in DOMAIN table
  PROVE  IdOf(table, table[i]) = i
<1>1. IdOf(table, table[i]) \in DOMAIN table
  BY DEF IdOf
<1>2. table[IdOf(table, table[i])] = table[i]
  BY DEF IdOf
<1> QED BY <1>1, <1>2 DEF IsInjective

LEMMA IdOfKept ==
  ASSUME NEW S, NEW table \in Seq(S), NEW new \in Seq(S), IsInjective(new),
         Grows(table, new), NEW name, IdOf(table, name) # 0
  PROVE  IdOf(new, name) = IdOf(table, name)
<1>1. IdOf(table, name) \in DOMAIN new /\ new[IdOf(table, name)] = name
  BY IdOfFound DEF Grows
<1> QED BY <1>1, IdOfOnly

EnsuredTable(table, name) ==
  IF IdOf(table, name) = 0 THEN Append(table, name) ELSE table

LEMMA TableGrows ==
  ASSUME NEW S, NEW table \in Seq(S), NEW name \in S, IsInjective(table)
  PROVE  LET new == EnsuredTable(table, name) IN
         /\ new \in Seq(S) /\ IsInjective(new) /\ Grows(table, new)
         /\ IdOf(new, name) \in DOMAIN new /\ new[IdOf(new, name)] = name
<1>1. CASE IdOf(table, name) = 0
  <2> DEFINE new == Append(table, name)
  <2>1. /\ new \in Seq(S) /\ Len(new) = Len(table) + 1 /\ new[Len(new)] = name
        /\ \A i \in 1 .. Len(table) : new[i] = table[i]
    OBVIOUS
  <2>2. \A i \in DOMAIN table : table[i] # name
    BY <1>1, IdOfFound
  <2> HIDE DEF new
  <2>3. IsInjective(new)
    BY <2>1, <2>2 DEF IsInjective
  <2>4. Grows(table, new)
    BY <2>1 DEF Grows
  <2>5. Len(new) \in DOMAIN new
    BY <2>1
  <2>6. IdOf(new, name) = Len(new)
    BY <2>1, <2>3, <2>5, IdOfOnly
  <2> QED BY <1>1, <2>1, <2>3, <2>4, <2>5, <2>6 DEF EnsuredTable, new
<1>2. CASE IdOf(table, name) # 0
  BY <1>2, IdOfFound DEF EnsuredTable, Grows
<1> QED BY <1>1, <1>2

-----------------------------------------------------------------------------
(* A transaction keeps the tables well filed.                              *)
Work == [rows : RowTables, cache : Caches, devices : SUBSET Devices,
         events : SUBSET Filed, ok : BOOLEAN]
Good(t) == t \in Work /\ WellFiled(t.rows, t.cache, t.devices, t.events)

LEMMA EnsuredCode ==
  ASSUME NEW t \in Work, NEW name \in Codes, IsInjective(t.rows.code)
  PROVE  LET u == Ensured(t, "code", name)
             new == EnsuredTable(t.rows.code, name) IN
         /\ u \in Work /\ u.devices = t.devices /\ u.events = t.events /\ u.ok = t.ok
         /\ u.rows.code = new /\ u.rows.zone = t.rows.zone
         /\ u.cache.zone = t.cache.zone
         /\ u.cache.code = [t.cache.code EXCEPT ![name] = IdOf(new, name)]
<1> DEFINE new == EnsuredTable(t.rows.code, name)
           id == IdOf(new, name)
           u == Ensured(t, "code", name)
<1>1. t.rows.code \in Seq(Codes) /\ t.cache.code \in [Codes -> Nat]
  BY DEF Work, RowTables, Caches
<1>2. new \in Seq(Codes) /\ id \in Nat
  BY <1>1, TableGrows, IdOfFound
<1>3. u = [t EXCEPT !.rows["code"] = new, !.cache["code"][name] = id]
  BY DEF Ensured, EnsuredTable
<1> HIDE DEF new, id, u
<1>4. /\ u \in Work /\ u.devices = t.devices /\ u.events = t.events /\ u.ok = t.ok
      /\ u.rows.code = new /\ u.rows.zone = t.rows.zone
      /\ u.cache.zone = t.cache.zone
      /\ u.cache.code = [t.cache.code EXCEPT ![name] = id]
  BY <1>1, <1>2, <1>3 DEF Work, RowTables, Caches
<1> QED BY <1>4 DEF new, id, u

LEMMA EnsuredZone ==
  ASSUME NEW t \in Work, NEW name \in Zones, IsInjective(t.rows.zone)
  PROVE  LET u == Ensured(t, "zone", name)
             new == EnsuredTable(t.rows.zone, name) IN
         /\ u \in Work /\ u.devices = t.devices /\ u.events = t.events /\ u.ok = t.ok
         /\ u.rows.zone = new /\ u.rows.code = t.rows.code
         /\ u.cache.code = t.cache.code
         /\ u.cache.zone = [t.cache.zone EXCEPT ![name] = IdOf(new, name)]
<1> DEFINE new == EnsuredTable(t.rows.zone, name)
           id == IdOf(new, name)
           u == Ensured(t, "zone", name)
<1>1. t.rows.zone \in Seq(Zones) /\ t.cache.zone \in [Zones -> Nat]
  BY DEF Work, RowTables, Caches
<1>2. new \in Seq(Zones) /\ id \in Nat
  BY <1>1, TableGrows, IdOfFound
<1>3. u = [t EXCEPT !.rows["zone"] = new, !.cache["zone"][name] = id]
  BY DEF Ensured, EnsuredTable
<1> HIDE DEF new, id, u
<1>4. /\ u \in Work /\ u.devices = t.devices /\ u.events = t.events /\ u.ok = t.ok
      /\ u.rows.zone = new /\ u.rows.code = t.rows.code
      /\ u.cache.code = t.cache.code
      /\ u.cache.zone = [t.cache.zone EXCEPT ![name] = id]
  BY <1>1, <1>2, <1>3 DEF Work, RowTables, Caches
<1> QED BY <1>4 DEF new, id, u

LEMMA RightStays ==
  ASSUME NEW r \in RowTables, NEW q \in RowTables,
         Grows(r.code, q.code), Grows(r.zone, q.zone), NEW row, Right(row, r)
  PROVE  Right(row, q)
BY DEF Right, Grows

LEMMA IdsStay ==
  ASSUME NEW S, NEW table \in Seq(S), IsInjective(table), NEW name \in S,
         NEW ids \in [S -> Nat], \A k \in S : ids[k] \in {0, IdOf(table, k)},
         NEW new, new = EnsuredTable(table, name)
  PROVE  \A k \in S : /\ ids[k] \in {0, IdOf(new, k)}
                      /\ [ids EXCEPT ![name] = IdOf(new, name)][k] \in {0, IdOf(new, k)}
<1>1. new \in Seq(S) /\ IsInjective(new) /\ Grows(table, new)
  BY TableGrows
<1>2. \A k \in S : ids[k] # 0 => IdOf(new, k) = IdOf(table, k)
  BY <1>1, IdOfKept
<1> QED BY <1>2

LEMMA GrowsItself == \A table : Grows(table, table)
BY DEF Grows

LEMMA CodeEnsured ==
  ASSUME NEW t, Good(t), NEW name \in Codes
  PROVE  LET u == Ensured(t, "code", name) IN
         /\ Good(u) /\ u.devices = t.devices /\ u.events = t.events /\ u.ok = t.ok
         /\ Grows(t.rows.code, u.rows.code) /\ u.rows.zone = t.rows.zone
         /\ u.cache.zone = t.cache.zone
         /\ u.cache.code[name] \in DOMAIN u.rows.code
         /\ u.rows.code[u.cache.code[name]] = name
<1> DEFINE u == Ensured(t, "code", name)
           new == EnsuredTable(t.rows.code, name)
<1>1. /\ t \in Work /\ t.rows \in RowTables /\ t.cache \in Caches
      /\ t.rows.code \in Seq(Codes) /\ t.cache.code \in [Codes -> Nat]
      /\ IsInjective(t.rows.code)
  BY DEF Good, WellFiled, RowTables, Caches
<1>2. /\ u \in Work /\ u.devices = t.devices /\ u.events = t.events /\ u.ok = t.ok
      /\ u.rows.code = new /\ u.rows.zone = t.rows.zone
      /\ u.cache.zone = t.cache.zone
      /\ u.cache.code = [t.cache.code EXCEPT ![name] = IdOf(new, name)]
  BY <1>1, EnsuredCode
<1>3. /\ new \in Seq(Codes) /\ IsInjective(new) /\ Grows(t.rows.code, new)
      /\ IdOf(new, name) \in DOMAIN new /\ new[IdOf(new, name)] = name
  BY <1>1, TableGrows
<1>4. ~ rolledBack => \A k \in Codes : u.cache.code[k] \in {0, IdOf(new, k)}
  <2>1. ~ rolledBack => \A k \in Codes : t.cache.code[k] \in {0, IdOf(t.rows.code, k)}
    BY DEF Good, WellFiled
  <2> HIDE DEF u, new
  <2>2. new = EnsuredTable(t.rows.code, name)
    BY DEF new
  <2> QED BY <1>1, <1>2, <2>1, <2>2, IdsStay, SMTT(30)
<1> HIDE DEF u, new
<1>5. u.rows \in RowTables /\ u.cache \in Caches
  BY <1>2 DEF Work
<1>6. \A row : Right(row, t.rows) => Right(row, u.rows)
  BY <1>1, <1>2, <1>3, <1>5, GrowsItself, RightStays
<1>7. WellFiled(u.rows, u.cache, u.devices, u.events)
  BY <1>2, <1>3, <1>4, <1>5, <1>6 DEF Good, WellFiled
<1>8. u.cache.code[name] = IdOf(new, name)
  BY <1>1, <1>2
<1>9. Good(u)
  BY <1>2, <1>7 DEF Good
<1> QED BY <1>2, <1>3, <1>8, <1>9 DEF u

LEMMA ZoneEnsured ==
  ASSUME NEW t, Good(t), NEW name \in Zones
  PROVE  LET u == Ensured(t, "zone", name) IN
         /\ Good(u) /\ u.devices = t.devices /\ u.events = t.events /\ u.ok = t.ok
         /\ Grows(t.rows.zone, u.rows.zone) /\ u.rows.code = t.rows.code
         /\ u.cache.code = t.cache.code
         /\ u.cache.zone[name] \in DOMAIN u.rows.zone
         /\ u.rows.zone[u.cache.zone[name]] = name
<1> DEFINE u == Ensured(t, "zone", name)
           new == EnsuredTable(t.rows.zone, name)
<1>1. /\ t \in Work /\ t.rows \in RowTables /\ t.cache \in Caches
      /\ t.rows.zone \in Seq(Zones) /\ t.cache.zone \in [Zones -> Nat]
      /\ IsInjective(t.rows.zone)
  BY DEF Good, WellFiled, RowTables, Caches
<1>2. /\ u \in Work /\ u.devices = t.devices /\ u.events = t.events /\ u.ok = t.ok
      /\ u.rows.zone = new /\ u.rows.code = t.rows.code
      /\ u.cache.code = t.cache.code
      /\ u.cache.zone = [t.cache.zone EXCEPT ![name] = IdOf(new, name)]
  BY <1>1, EnsuredZone
<1>3. /\ new \in Seq(Zones) /\ IsInjective(new) /\ Grows(t.rows.zone, new)
      /\ IdOf(new, name) \in DOMAIN new /\ new[IdOf(new, name)] = name
  BY <1>1, TableGrows
<1>4. ~ rolledBack => \A k \in Zones : u.cache.zone[k] \in {0, IdOf(new, k)}
  <2>1. ~ rolledBack => \A k \in Zones : t.cache.zone[k] \in {0, IdOf(t.rows.zone, k)}
    BY DEF Good, WellFiled
  <2> HIDE DEF u, new
  <2>2. new = EnsuredTable(t.rows.zone, name)
    BY DEF new
  <2> QED BY <1>1, <1>2, <2>1, <2>2, IdsStay, SMTT(30)
<1> HIDE DEF u, new
<1>5. u.rows \in RowTables /\ u.cache \in Caches
  BY <1>2 DEF Work
<1>6. \A row : Right(row, t.rows) => Right(row, u.rows)
  BY <1>1, <1>2, <1>3, <1>5, GrowsItself, RightStays
<1>7. WellFiled(u.rows, u.cache, u.devices, u.events)
  BY <1>2, <1>3, <1>4, <1>5, <1>6 DEF Good, WellFiled
<1>8. u.cache.zone[name] = IdOf(new, name)
  BY <1>1, <1>2
<1>9. Good(u)
  BY <1>2, <1>7 DEF Good
<1> QED BY <1>2, <1>3, <1>8, <1>9 DEF u

(* A name that is cached without a rollback is the name of its row.        *)
LEMMA CodeNamed ==
  ASSUME NEW t, Good(t), NEW name \in Codes, name # NoZone
  PROVE  LET u == Named(t, "code", name) IN
         /\ Good(u) /\ u.devices = t.devices /\ u.events = t.events /\ u.ok = t.ok
         /\ ~ rolledBack => /\ u.cache.code[name] \in DOMAIN u.rows.code
                            /\ u.rows.code[u.cache.code[name]] = name
<1>1. CASE t.cache.code[name] = 0
  <2>1. Named(t, "code", name) = Ensured(t, "code", name)
    BY <1>1 DEF Named
  <2> QED BY <2>1, CodeEnsured
<1>2. CASE t.cache.code[name] # 0
  <2>1. Named(t, "code", name) = t
    BY <1>2 DEF Named
  <2>2. t.rows.code \in Seq(Codes)
    BY DEF Good, WellFiled, RowTables
  <2>3. ~ rolledBack => t.cache.code[name] = IdOf(t.rows.code, name)
    BY <1>2 DEF Good, WellFiled
  <2> QED BY <1>2, <2>1, <2>2, <2>3, IdOfFound
<1> QED BY <1>1, <1>2

LEMMA ZoneNamed ==
  ASSUME NEW t, Good(t), NEW name \in Zones \cup {NoZone}
  PROVE  LET u == Named(t, "zone", name) IN
         /\ Good(u) /\ u.devices = t.devices /\ u.events = t.events /\ u.ok = t.ok
         /\ u.rows.code = t.rows.code /\ u.cache.code = t.cache.code
         /\ ~ rolledBack /\ name # NoZone =>
              /\ u.cache.zone[name] \in DOMAIN u.rows.zone
              /\ u.rows.zone[u.cache.zone[name]] = name
<1>1. CASE name # NoZone /\ t.cache.zone[name] = 0
  <2>1. Named(t, "zone", name) = Ensured(t, "zone", name) /\ name \in Zones
    BY <1>1 DEF Named
  <2> QED BY <2>1, ZoneEnsured
<1>2. CASE name # NoZone /\ t.cache.zone[name] # 0
  <2>1. Named(t, "zone", name) = t /\ name \in Zones
    BY <1>2 DEF Named
  <2>2. t.rows.zone \in Seq(Zones)
    BY DEF Good, WellFiled, RowTables
  <2>3. ~ rolledBack => t.cache.zone[name] = IdOf(t.rows.zone, name)
    BY <1>2, <2>1 DEF Good, WellFiled
  <2> QED BY <1>2, <2>1, <2>2, <2>3, IdOfFound
<1>3. CASE name = NoZone
  BY <1>3 DEF Named
<1> QED BY <1>1, <1>2, <1>3

LEMMA RowAdded ==
  ASSUME NEW t, Good(t), NEW e \in Events, \A row \in t.events : row.e.n # e.n,
         NEW row \in Filed, row.e = e, ~ row.doubt => Right(row, t.rows),
         NEW u \in Work, u.rows = t.rows, u.cache = t.cache,
         u.devices = t.devices \cup {e.device}, u.events = t.events \cup {row}
  PROVE  Good(u)
<1>1. WellFiled(t.rows, t.cache, t.devices, t.events)
  BY DEF Good
<1>2. /\ u.devices \subseteq Devices /\ u.events \subseteq Filed
      /\ \A r1, r2 \in u.events : r1.e.n = r2.e.n => r1 = r2
      /\ \A r \in u.events : r.e.device \in u.devices
      /\ \A r \in u.events : ~ r.doubt => Right(r, t.rows)
  BY <1>1 DEF WellFiled, Work
<1> QED BY <1>1, <1>2 DEF Good, WellFiled

LEMMA EventSaved ==
  ASSUME NEW t, Good(t), NEW e \in Events, \A row \in t.events : row.e.n # e.n,
         rolledBack \in BOOLEAN
  PROVE  LET u == saveEventTxCached(t, e) IN
         /\ Good(u) /\ t.events \subseteq u.events
         /\ \A row \in u.events : row \in t.events \/ row.e = e
<1> DEFINE m == Named(t, "code", e.code)
           q == Named(m, "zone", e.zone)
           code == q.cache.code[e.code]
           zone == IF e.zone = NoZone THEN 0 ELSE q.cache.zone[e.zone]
           row == [e |-> e, code |-> code, zone |-> zone, doubt |-> rolledBack]
           ok == code \in DOMAIN q.rows.code /\ zone \in {0} \cup DOMAIN q.rows.zone
           v == [q EXCEPT !.devices = @ \cup {e.device}, !.ok = ok, !.events = @ \cup {row}]
<1>1. /\ e.code \in Codes /\ e.zone \in Zones \cup {NoZone} /\ e.device \in Devices
      /\ e.code # NoZone
  BY StoreAssumption DEF Events
<1>2. /\ Good(m) /\ m.events = t.events
      /\ ~ rolledBack => /\ m.cache.code[e.code] \in DOMAIN m.rows.code
                         /\ m.rows.code[m.cache.code[e.code]] = e.code
  BY <1>1, CodeNamed
<1> HIDE DEF m
<1>3. /\ Good(q) /\ q.events = m.events
      /\ q.rows.code = m.rows.code /\ q.cache.code = m.cache.code
      /\ ~ rolledBack /\ e.zone # NoZone =>
           /\ q.cache.zone[e.zone] \in DOMAIN q.rows.zone
           /\ q.rows.zone[q.cache.zone[e.zone]] = e.zone
  BY <1>1, <1>2, ZoneNamed
<1>4. saveEventTxCached(t, e) = IF ~ t.ok THEN t ELSE v
  BY DEF saveEventTxCached, m
<1> HIDE DEF q
<1>5. code \in Nat /\ zone \in Nat /\ q \in Work
  BY <1>1, <1>3 DEF Good, Work, Caches
<1>6. row \in Filed /\ row.e = e /\ row.code = code /\ row.zone = zone
      /\ row.doubt = rolledBack
  BY <1>5 DEF Filed
<1>7. ~ row.doubt => Right(row, q.rows)
  <2>1. q.rows.zone \in Seq(Zones)
    BY <1>5 DEF Work, RowTables
  <2> HIDE DEF row
  <2> QED BY <1>1, <1>2, <1>3, <1>6, <2>1 DEF Right
<1> HIDE DEF row, code, zone, ok
<1>8. /\ v \in Work /\ v.rows = q.rows /\ v.cache = q.cache
      /\ v.devices = q.devices \cup {e.device} /\ v.events = q.events \cup {row}
  <2>1. ok \in BOOLEAN
    BY DEF ok
  <2> QED BY <1>1, <1>5, <1>6, <2>1 DEF Work
<1> HIDE DEF v
<1>9. Good(v)
  BY <1>2, <1>3, <1>6, <1>7, <1>8, RowAdded
<1> QED BY <1>2, <1>3, <1>4, <1>6, <1>8, <1>9

LEMMA CourseKeeps ==
  ASSUME NEW es \in Seq(Events), Good(Begun), rolledBack \in BOOLEAN,
         \A i, j \in DOMAIN es : es[i].n = es[j].n => i = j,
         \A i \in DOMAIN es : \A row \in events : row.e.n # es[i].n,
         NEW g, Course(es, Len(es), g)
  PROVE  \A i \in 0 .. Len(es) :
           /\ Good(g[i]) /\ events \subseteq g[i].events
           /\ \A row \in g[i].events : row \in events \/ \E j \in 1 .. i : row.e = es[j]
<1> DEFINE n == Len(es)
           Kept(i) == /\ Good(g[i]) /\ events \subseteq g[i].events
                      /\ \A row \in g[i].events :
                           row \in events \/ \E j \in 1 .. i : row.e = es[j]
           Set == {i \in 0 .. n : Kept(i)}
<1>1. /\ g[0] = Begun
      /\ \A i \in 1 .. n : g[i] = saveEventTxCached(g[i - 1], es[i])
  BY DEF Course
<1>2. Kept(0)
  BY <1>1 DEF Begun
<1>3. ASSUME NEW i \in 1 .. n, Kept(i - 1)
      PROVE  Kept(i)
  <2> DEFINE t == g[i - 1]
             u == saveEventTxCached(t, es[i])
  <2>1. es[i] \in Events /\ i \in DOMAIN es
    OBVIOUS
  <2>2. \A row \in t.events : row.e.n # es[i].n
    <3> SUFFICES ASSUME NEW row \in t.events, row \notin events
                 PROVE  row.e.n # es[i].n
      BY <2>1
    <3>1. PICK j \in 1 .. i - 1 : row.e = es[j]
      BY <1>3
    <3>2. j \in DOMAIN es /\ j # i
      BY <3>1
    <3> QED BY <2>1, <3>1, <3>2
  <2>3. Good(t)
    BY <1>3
  <2> HIDE DEF t
  <2>4. /\ Good(u) /\ t.events \subseteq u.events
        /\ \A row \in u.events : row \in t.events \/ row.e = es[i]
    BY <2>1, <2>2, <2>3, EventSaved
  <2>5. g[i] = u
    BY <1>1 DEF t
  <2> HIDE DEF u
  <2> QED BY <1>3, <2>4, <2>5 DEF t
<1> HIDE DEF Kept
<1>4. \A i \in 0 .. n : i \in Set
  <2>1. 0 \in Set /\ n \in Nat
    BY <1>2
  <2>2. \A i \in 1 .. n : i - 1 \in Set => i \in Set
    BY <1>3
  <2> HIDE DEF Set, n
  <2> QED BY <2>1, <2>2, UpTo
<1> QED BY <1>4 DEF Kept

(* What a transaction over events that are not stored yet comes to.        *)
Storable(es) ==
  /\ es \in Seq(Events)
  /\ \A i, j \in DOMAIN es : es[i].n = es[j].n => i = j
  /\ \A i \in DOMAIN es : \A row \in events : row.e.n # es[i].n

LEMMA TransactionDoes ==
  ASSUME NEW es, Storable(es), WellFiled(rows, cache, devices, events),
         rolledBack \in BOOLEAN
  PROVE  LET t == Transaction(es) IN
         /\ Good(t) /\ events \subseteq t.events
         /\ \A row \in t.events : row \in events \/ \E j \in DOMAIN es : row.e = es[j]
<1>1. es \in Seq(Events) /\ Len(es) \in Nat /\ DOMAIN es = 1 .. Len(es)
  BY DEF Storable
<1>2. PICK g : Course(es, Len(es), g) /\ Transaction(es) = g[Len(es)]
  BY <1>1, TransactionIsCourse
<1>3. Good(Begun)
  BY DEF Good, Begun, Work, WellFiled
<1>4. \A i \in 0 .. Len(es) :
        /\ Good(g[i]) /\ events \subseteq g[i].events
        /\ \A row \in g[i].events : row \in events \/ \E j \in 1 .. i : row.e = es[j]
  BY <1>2, <1>3, CourseKeeps DEF Storable
<1>5. Len(es) \in 0 .. Len(es)
  BY <1>1
<1> QED BY <1>1, <1>2, <1>4, <1>5

(* The first part of a batch, its first event and the rest of it.          *)
LEMMA PartStorable ==
  ASSUME NEW es, Storable(es), NEW k \in 0 .. Len(es)
  PROVE  Storable(SubSeq(es, 1, k))
<1>1. es \in Seq(Events)
  BY DEF Storable
<1>2. /\ SubSeq(es, 1, k) \in Seq(Events) /\ Len(SubSeq(es, 1, k)) = k
      /\ \A i \in 1 .. k : SubSeq(es, 1, k)[i] = es[i]
  BY <1>1
<1> QED BY <1>1, <1>2 DEF Storable

LEMMA HeadStorable ==
  ASSUME NEW es, Storable(es), es # <<>>
  PROVE  /\ Storable(<<Head(es)>>) /\ Storable(Tail(es)) /\ Head(es) = es[1]
         /\ \A i \in DOMAIN Tail(es) : /\ i + 1 \in DOMAIN es
                                       /\ Tail(es)[i] = es[i + 1]
                                       /\ Tail(es)[i].n # Head(es).n
<1>1. es \in Seq(Events)
  BY DEF Storable
<1>2. /\ Head(es) = es[1] /\ 1 \in DOMAIN es /\ Head(es) \in Events
      /\ Tail(es) \in Seq(Events) /\ Len(Tail(es)) = Len(es) - 1
      /\ \A i \in DOMAIN Tail(es) : i + 1 \in DOMAIN es /\ Tail(es)[i] = es[i + 1]
  BY <1>1
<1>3. Storable(<<Head(es)>>)
  <2>1. /\ <<Head(es)>> \in Seq(Events) /\ DOMAIN <<Head(es)>> = {1}
        /\ <<Head(es)>>[1] = es[1]
    BY <1>2
  <2> QED BY <1>2, <2>1 DEF Storable
<1>4. \A i \in DOMAIN Tail(es) : Tail(es)[i].n # Head(es).n
  <2> SUFFICES ASSUME NEW i \in DOMAIN Tail(es), Tail(es)[i].n = Head(es).n PROVE FALSE
    OBVIOUS
  <2>1. i + 1 \in DOMAIN es /\ i + 1 # 1 /\ es[i + 1].n = es[1].n
    BY <1>2
  <2> QED BY <1>2, <2>1 DEF Storable
<1>5. Storable(Tail(es))
  <2>1. \A i, j \in DOMAIN Tail(es) : Tail(es)[i].n = Tail(es)[j].n => i = j
    BY <1>2 DEF Storable
  <2>2. \A i \in DOMAIN Tail(es) : \A row \in events : row.e.n # Tail(es)[i].n
    BY <1>2 DEF Storable
  <2> QED BY <1>2, <2>1, <2>2 DEF Storable
<1> QED BY <1>2, <1>3, <1>4, <1>5

(* The list of codes goes into the tables in one transaction.              *)
ListCourse(n, g) ==
  g = [i \in 0 .. n |-> IF i = 0 THEN Begun ELSE Ensured(g[i - 1], "code", Catalogue[i])]

LEMMA ListCourseExists ==
  ASSUME NEW n \in Nat
  PROVE  \E g : ListCourse(n, g)
<1> DEFINE S(t, i) == Ensured(t, "code", Catalogue[i])
           Set == {m \in 0 .. n : \E g : ListCourse(m, g)}
<1>1. \A m, g : ListCourse(m, g) <=>
        g = [i \in 0 .. m |-> IF i = 0 THEN Begun ELSE S(g[i - 1], i)]
  BY DEF ListCourse
<1> HIDE DEF S
<1>2. 0 \in Set
  <2> DEFINE g == [i \in 0 .. 0 |-> Begun]
  <2>1. g = [i \in 0 .. 0 |-> IF i = 0 THEN Begun ELSE S(g[i - 1], i)]
    OBVIOUS
  <2> HIDE DEF g
  <2>2. ListCourse(0, g)
    BY <1>1, <2>1
  <2>3. \E f : ListCourse(0, f)
    BY <2>2
  <2> QED BY <2>3
<1>3. ASSUME NEW m \in 1 .. n, m - 1 \in Set
      PROVE  m \in Set
  <2>1. PICK g : g = [i \in 0 .. m - 1 |-> IF i = 0 THEN Begun ELSE S(g[i - 1], i)]
    BY <1>1, <1>3
  <2> DEFINE h == [i \in 0 .. m |-> IF i < m THEN g[i] ELSE S(g[m - 1], m)]
  <2>2. \A i \in 0 .. m : h[i] = IF i = 0 THEN Begun ELSE S(h[i - 1], i)
    <3>1. \A i \in 0 .. m - 1 : g[i] = IF i = 0 THEN Begun ELSE S(g[i - 1], i)
      BY <2>1
    <3>2. \A i \in 0 .. m - 1 : h[i] = g[i]
      OBVIOUS
    <3>3. h[m] = S(g[m - 1], m)
      OBVIOUS
    <3> HIDE DEF h
    <3>4. CASE m = 1
      BY <3>1, <3>2, <3>3, <3>4
    <3>5. CASE m > 1
      BY <3>1, <3>2, <3>3, <3>5
    <3> QED BY <3>4, <3>5
  <2>3. h = [i \in 0 .. m |-> IF i = 0 THEN Begun ELSE S(h[i - 1], i)]
    <3>1. h = [i \in 0 .. m |-> h[i]]
      OBVIOUS
    <3> HIDE DEF h
    <3> QED BY <2>2, <3>1
  <2> HIDE DEF h
  <2>4. ListCourse(m, h)
    BY <1>1, <2>3
  <2> QED BY <2>4
<1> HIDE DEF Set
<1>4. n \in Set
  BY <1>2, <1>3, UpTo
<1> QED BY <1>4 DEF Set

LEMMA GrowsOn ==
  ASSUME NEW a, NEW b, NEW c, Grows(a, b), Grows(b, c)
  PROVE  Grows(a, c)
BY DEF Grows

LEMMA ListCourseKeeps ==
  ASSUME Good(Begun), NEW g, ListCourse(Len(Catalogue), g)
  PROVE  LET t == g[Len(Catalogue)] IN
         /\ Good(t) /\ t.events = events /\ t.devices = devices
         /\ t.rows.zone = rows.zone /\ Grows(rows.code, t.rows.code)
<1> DEFINE n == Len(Catalogue)
           Kept(i) == /\ Good(g[i]) /\ g[i].events = events /\ g[i].devices = devices
                      /\ g[i].rows.zone = rows.zone /\ Grows(rows.code, g[i].rows.code)
           Set == {i \in 0 .. n : Kept(i)}
<1>1. /\ Catalogue \in Seq(Codes) /\ n \in Nat
  BY StoreAssumption DEF Codes
<1>2. /\ g[0] = Begun
      /\ \A i \in 1 .. n : g[i] = Ensured(g[i - 1], "code", Catalogue[i])
  BY <1>1 DEF ListCourse
<1>3. Kept(0)
  BY <1>2, GrowsItself DEF Begun
<1>4. ASSUME NEW i \in 1 .. n, Kept(i - 1)
      PROVE  Kept(i)
  <2> DEFINE t == g[i - 1]
             u == Ensured(t, "code", Catalogue[i])
  <2>1. Catalogue[i] \in Codes
    BY <1>1
  <2>2. Good(t)
    BY <1>4
  <2> HIDE DEF t
  <2>3. /\ Good(u) /\ u.devices = t.devices /\ u.events = t.events
        /\ Grows(t.rows.code, u.rows.code) /\ u.rows.zone = t.rows.zone
    BY <2>1, <2>2, CodeEnsured
  <2>4. g[i] = u
    BY <1>2 DEF t
  <2> HIDE DEF u
  <2>5. Grows(rows.code, u.rows.code)
    BY <1>4, <2>3, GrowsOn DEF t
  <2> QED BY <1>4, <2>3, <2>4, <2>5 DEF t
<1> HIDE DEF Kept
<1>5. \A i \in 0 .. n : i \in Set
  <2>1. 0 \in Set
    BY <1>1, <1>3
  <2>2. \A i \in 1 .. n : i - 1 \in Set => i \in Set
    BY <1>4
  <2> HIDE DEF Set, n
  <2> QED BY <1>1, <2>1, <2>2, UpTo
<1>6. Kept(n)
  BY <1>1, <1>5
<1> QED BY <1>6 DEF Kept

-----------------------------------------------------------------------------
(* What the writes do to the tables.                                       *)
LEMMA CommitDoes ==
  ASSUME NEW es, Storable(es), WellFiled(rows, cache, devices, events),
         rolledBack \in BOOLEAN, Commit(es)
  PROVE  /\ WellFiled(rows, cache, devices, events)' /\ events \subseteq events'
         /\ \A row \in events' : row \in events \/ \E j \in DOMAIN es : row.e = es[j]
         /\ UNCHANGED rolledBack
<1> DEFINE t == Transaction(es)
<1>1. /\ Good(t) /\ events \subseteq t.events
      /\ \A row \in t.events : row \in events \/ \E j \in DOMAIN es : row.e = es[j]
  BY TransactionDoes
<1>2. /\ rows' = t.rows /\ cache' = t.cache /\ devices' = t.devices
      /\ events' = t.events /\ UNCHANGED rolledBack
  BY DEF Commit
<1> HIDE DEF t
<1>3. WellFiled(rows', cache', devices', events')
  BY <1>1, <1>2 DEF Good
<1>4. WellFiled(rows, cache, devices, events)'
  BY <1>2, <1>3 DEF WellFiled
<1> QED BY <1>1, <1>2, <1>4

LEMMA RollbackDoes ==
  ASSUME NEW es, Storable(es), WellFiled(rows, cache, devices, events),
         rolledBack \in BOOLEAN, Rollback(es)
  PROVE  /\ WellFiled(rows, cache, devices, events)'
         /\ UNCHANGED <<rows, devices, events>> /\ rolledBack' = TRUE
<1>1. cache' \in Caches
  <2>1. CASE cache' = Transaction(es).cache
    BY <2>1, TransactionDoes DEF Good, WellFiled
  <2>2. CASE \E k \in 0 .. Len(es) : cache' = Transaction(SubSeq(es, 1, k)).cache
    <3>1. PICK k \in 0 .. Len(es) : cache' = Transaction(SubSeq(es, 1, k)).cache
      BY <2>2
    <3>2. Storable(SubSeq(es, 1, k))
      BY PartStorable
    <3>3. Good(Transaction(SubSeq(es, 1, k)))
      BY <3>2, TransactionDoes
    <3> QED BY <3>1, <3>3 DEF Good, WellFiled
  <2> QED BY <2>1, <2>2 DEF Rollback
<1>2. UNCHANGED <<rows, devices, events>> /\ rolledBack' = TRUE
  BY DEF Rollback, tables
<1> QED BY <1>1, <1>2 DEF WellFiled

LEMMA CatalogueDoes ==
  ASSUME WellFiled(rows, cache, devices, events), rolledBack \in BOOLEAN,
         UpsertEventCatalog
  PROVE  WellFiled(rows, cache, devices, events)' /\ UNCHANGED <<events, rolledBack>>
<1> DEFINE n == Len(Catalogue)
           g == CHOOSE f : ListCourse(n, f)
           t == g[n]
<1>1. ListCourse(n, g)
  BY StoreAssumption, ListCourseExists
<1>2. rows' = t.rows
  BY DEF UpsertEventCatalog, ListCourse
<1>3. /\ UNCHANGED <<devices, events, rolledBack>>
      /\ \/ cache' = [cache EXCEPT !.code = Preloaded(rows'.code, Codes)]
         \/ UNCHANGED cache
  BY DEF UpsertEventCatalog
<1>4. Good(Begun)
  BY DEF Good, Begun, Work, WellFiled
<1>5. /\ Good(t) /\ t.events = events /\ t.devices = devices
      /\ t.rows.zone = rows.zone /\ Grows(rows.code, t.rows.code)
  BY <1>1, <1>4, ListCourseKeeps
<1> HIDE DEF t
<1>6. /\ rows' \in RowTables /\ rows'.zone = rows.zone /\ Grows(rows.code, rows'.code)
      /\ rows \in RowTables /\ cache \in Caches
      /\ IsInjective(rows'.code) /\ IsInjective(rows'.zone)
      /\ rows'.code \in Seq(Codes) /\ rows.code \in Seq(Codes)
  BY <1>2, <1>5 DEF Good, WellFiled, RowTables
<1>7. /\ cache' \in Caches /\ cache'.zone = cache.zone
      /\ cache'.code = cache.code \/ cache'.code = Preloaded(rows'.code, Codes)
  <2>1. Preloaded(rows'.code, Codes) \in [Codes -> Nat]
    BY <1>6, IdOfFound DEF Preloaded
  <2> QED BY <1>3, <1>6, <2>1 DEF Caches
<1>8. ASSUME ~ rolledBack, NEW name \in Codes
      PROVE  cache'.code[name] \in {0, IdOf(rows'.code, name)}
  <2>1. CASE cache'.code = Preloaded(rows'.code, Codes)
    BY <2>1 DEF Preloaded
  <2>2. CASE cache'.code = cache.code
    <3>1. cache.code[name] \in {0, IdOf(rows.code, name)}
      BY <1>8 DEF WellFiled
    <3>2. IdOf(rows.code, name) # 0 => IdOf(rows'.code, name) = IdOf(rows.code, name)
      BY <1>6, IdOfKept
    <3> QED BY <2>2, <3>1, <3>2
  <2> QED BY <1>7, <2>1, <2>2
<1>9. ASSUME ~ rolledBack, NEW name \in Zones
      PROVE  cache'.zone[name] \in {0, IdOf(rows'.zone, name)}
  BY <1>6, <1>7, <1>9 DEF WellFiled
<1>10. \A row : Right(row, rows) => Right(row, rows')
  BY <1>6, GrowsItself, RightStays
<1>11. WellFiled(rows, cache, devices, events)'
  BY <1>3, <1>6, <1>7, <1>8, <1>9, <1>10 DEF WellFiled
<1> QED BY <1>3, <1>11

(* Fewer events and other devices, with the events of the devices that     *)
(* remain.                                                                 *)
LEMMA FewerFiled ==
  ASSUME WellFiled(rows, cache, devices, events), UNCHANGED <<rows, cache, rolledBack>>,
         events' \subseteq events, devices' \subseteq Devices,
         \A row \in events' : row.e.device \in devices'
  PROVE  WellFiled(rows, cache, devices, events)'
BY DEF WellFiled

-----------------------------------------------------------------------------
LEMMA EmptyTable ==
  /\ <<>> \in Seq(Codes) /\ <<>> \in Seq(Zones) /\ IsInjective(<<>>)
  /\ \A name : IdOf(<<>>, name) = 0
<1>1. DOMAIN <<>> = {}
  OBVIOUS
<1> QED BY <1>1 DEF IsInjective, IdOf

LEMMA StoreInit == Init => StoreInv /\ KeeperInv
<1> SUFFICES ASSUME Init PROVE StoreInv /\ KeeperInv
  OBVIOUS
<1>1. /\ devices = {} /\ events = {} /\ batch = <<>> /\ given = 0
      /\ rows = [code |-> <<>>, zone |-> <<>>]
      /\ cache = [code |-> Preloaded(<<>>, Codes), zone |-> Preloaded(<<>>, Zones)]
      /\ mode = "batch" /\ rolledBack = FALSE /\ interrupted = FALSE
      /\ archiving \in BOOLEAN /\ archive = [n \in 1 .. MaxEvents |-> 0] /\ keeper = Idle
  BY StoreAssumption DEF Init
<1>2. rows \in RowTables /\ rows.code = <<>> /\ rows.zone = <<>>
  BY <1>1, EmptyTable DEF RowTables
<1>3. /\ cache \in Caches /\ \A name \in Codes : cache.code[name] = 0
      /\ \A name \in Zones : cache.zone[name] = 0
  BY <1>1, EmptyTable DEF Preloaded, Caches
<1>4. WellFiled(rows, cache, devices, events)
  BY <1>1, <1>2, <1>3, EmptyTable DEF WellFiled
<1>5. StoreInv
  <2>1. batch \in Seq(Events) /\ DOMAIN batch = {} /\ 0 \in 0 .. MaxEvents
    BY <1>1, StoreAssumption
  <2> QED BY <1>1, <1>4, <2>1 DEF StoreInv
<1>6. KeeperInv
  <2>1. DOMAIN batch = {} /\ keeper = [at |-> "idle", load |-> {}]
    BY <1>1 DEF Idle
  <2>2. archive \in [Numbers -> Nat] /\ \A n \in Numbers : archive[n] = 0
    BY <1>1 DEF Numbers
  <2>3. /\ keeper.at = "idle" /\ keeper.load = {}
        /\ keeper \in [at : {"idle", "load", "archive", "delete"}, load : SUBSET Numbers]
    BY <2>1
  <2>4. \A n \in Numbers : ~ (archive[n] > 0)
    BY <2>2
  <2> QED BY <1>1, <2>2, <2>3, <2>4 DEF KeeperInv
<1> QED BY <1>5, <1>6

LEMMA StoreStep == StoreInv /\ [Next]_vars => StoreInv'
<1> SUFFICES ASSUME StoreInv, [Next]_vars PROVE StoreInv'
  OBVIOUS
<1>1. /\ WellFiled(rows, cache, devices, events) /\ rolledBack \in BOOLEAN
      /\ batch \in Seq(Events) /\ given \in 0 .. MaxEvents /\ Storable(batch)
      /\ \A i \in DOMAIN batch : batch[i] \in Events
  BY DEF StoreInv, Storable
<1>2. events \subseteq Filed /\ devices \subseteq Devices
  BY <1>1 DEF WellFiled
(* What keeps the batch, or takes from it what may be stored.              *)
<1>3. ASSUME WellFiled(rows, cache, devices, events)', rolledBack' \in BOOLEAN,
             given' = given, events' \subseteq events,
             UNCHANGED <<batch, mode>> \/ (batch' = <<>> /\ mode' = "batch")
      PROVE  StoreInv'
  <2>1. \A row \in events' : row.e.n \in 1 .. given'
    BY <1>3 DEF StoreInv
  <2>2. CASE UNCHANGED <<batch, mode>>
    BY <1>3, <2>1, <2>2 DEF StoreInv
  <2>3. CASE batch' = <<>> /\ mode' = "batch"
    <3>1. batch' \in Seq(Events) /\ DOMAIN batch' = {}
      BY <2>3
    <3> QED BY <1>1, <1>3, <2>1, <2>3, <3>1 DEF StoreInv
  <2> QED BY <1>3, <2>2, <2>3
<1>4. CASE Receive
  <2>1. PICK d \in Devices, c \in Codes, z \in Zones \cup {NoZone} :
          batch' = Append(batch, [n |-> given', device |-> d, code |-> c, zone |-> z])
    BY <1>4 DEF Receive
  <2> DEFINE e == [n |-> given', device |-> d, code |-> c, zone |-> z]
  <2>2. /\ given' = given + 1 /\ given' \in 1 .. MaxEvents /\ mode' = "batch"
        /\ UNCHANGED <<rows, cache, devices, events, rolledBack>>
    BY <1>1, <1>4, StoreAssumption DEF Receive, tables
  <2>3. e \in Events /\ e.n = given'
    BY <2>2 DEF Events
  <2> HIDE DEF e
  <2>4. /\ batch' \in Seq(Events) /\ DOMAIN batch' = DOMAIN batch \cup {Len(batch) + 1}
        /\ batch'[Len(batch) + 1] = e /\ \A i \in DOMAIN batch : batch'[i] = batch[i]
    BY <1>1, <2>1, <2>3 DEF e
  <2>5. WellFiled(rows, cache, devices, events)'
    BY <1>1, <2>2 DEF WellFiled
  <2>6. /\ \A row \in events : row.e.n \in 1 .. given
        /\ \A i \in DOMAIN batch : /\ batch[i].n \in 1 .. given
                                   /\ \A row \in events : row.e.n # batch[i].n
        /\ \A i, j \in DOMAIN batch : batch[i].n = batch[j].n => i = j
    BY DEF StoreInv
  <2>7. /\ \A i \in DOMAIN batch' : /\ batch'[i].n \in 1 .. given'
                                    /\ \A row \in events : row.e.n # batch'[i].n
        /\ \A row \in events : row.e.n \in 1 .. given'
    BY <1>1, <2>2, <2>3, <2>4, <2>6
  <2>8. \A i, j \in DOMAIN batch' : batch'[i].n = batch'[j].n => i = j
    BY <1>1, <2>2, <2>3, <2>4, <2>6
  <2> QED BY <1>1, <2>2, <2>4, <2>5, <2>7, <2>8 DEF StoreInv
<1>5. CASE SaveEventsBatch
  <2>1. CASE Commit(batch) /\ batch' = <<>> /\ mode' = "batch"
    <3>1. /\ WellFiled(rows, cache, devices, events)'
          /\ \A row \in events' : row \in events \/ \E j \in DOMAIN batch : row.e = batch[j]
          /\ UNCHANGED rolledBack
      BY <1>1, <2>1, CommitDoes
    <3>2. given' = given
      BY <1>5 DEF SaveEventsBatch
    <3>3. \A row \in events' : row.e.n \in 1 .. given
      BY <3>1 DEF StoreInv
    <3> QED BY <1>1, <2>1, <3>1, <3>2, <3>3 DEF StoreInv
  <2>2. CASE Rollback(batch) /\ batch' = batch /\ mode' \in {"batch", "each"}
    <3>1. /\ WellFiled(rows, cache, devices, events)'
          /\ UNCHANGED events /\ rolledBack' = TRUE
      BY <1>1, <2>2, RollbackDoes
    <3>2. given' = given /\ batch # <<>>
      BY <1>5 DEF SaveEventsBatch
    <3> QED BY <1>1, <2>2, <3>1, <3>2 DEF StoreInv
  <2> QED BY <1>5, <2>1, <2>2 DEF SaveEventsBatch
<1>6. CASE SaveEvent
  <2> DEFINE e == Head(batch)
  <2>1. /\ batch # <<>> /\ given' = given
        /\ mode' = IF batch' = <<>> THEN "batch" ELSE "each"
        /\ \/ Commit(<<e>>) /\ batch' = Tail(batch)
           \/ Rollback(<<e>>) /\ batch' \in {batch, Tail(batch)}
    BY <1>6 DEF SaveEvent, StoreInv
  <2>2. /\ Storable(<<e>>) /\ Storable(Tail(batch)) /\ e = batch[1]
        /\ \A i \in DOMAIN Tail(batch) : /\ i + 1 \in DOMAIN batch
                                         /\ Tail(batch)[i] = batch[i + 1]
                                         /\ Tail(batch)[i].n # e.n
    BY <1>1, <2>1, HeadStorable
  <2>3. e.n \in 1 .. given
    <3>1. 1 \in DOMAIN batch
      BY <1>1, <2>1
    <3> QED BY <2>2, <3>1 DEF StoreInv
  <2>4. /\ Tail(batch) \in Seq(Events)
        /\ \A i \in DOMAIN Tail(batch) :
             Tail(batch)[i].n \in 1 .. given /\ \A row \in events : row.e.n # Tail(batch)[i].n
        /\ \A i, j \in DOMAIN Tail(batch) : Tail(batch)[i].n = Tail(batch)[j].n => i = j
    BY <2>2 DEF Storable, StoreInv
  <2>5. DOMAIN <<e>> = {1} /\ <<e>>[1] = e
    OBVIOUS
  <2> HIDE DEF e
  <2>6. CASE Commit(<<e>>) /\ batch' = Tail(batch)
    <3>1. /\ WellFiled(rows, cache, devices, events)'
          /\ \A row \in events' : row \in events \/ \E j \in DOMAIN <<e>> : row.e = <<e>>[j]
          /\ UNCHANGED rolledBack
      BY <1>1, <2>2, <2>6, CommitDoes
    <3>2. \A row \in events' : row \in events \/ row.e = e
      BY <2>5, <3>1
    <3>3. /\ \A row \in events' : row.e.n \in 1 .. given
          /\ \A i \in DOMAIN batch' : \A row \in events' : row.e.n # batch'[i].n
      BY <2>2, <2>3, <2>4, <2>6, <3>2 DEF StoreInv
    <3> QED BY <1>1, <2>1, <2>4, <2>6, <3>1, <3>3 DEF StoreInv
  <2>7. CASE Rollback(<<e>>) /\ batch' \in {batch, Tail(batch)}
    <3>1. /\ WellFiled(rows, cache, devices, events)'
          /\ UNCHANGED events /\ rolledBack' = TRUE
      BY <1>1, <2>2, <2>7, RollbackDoes
    <3>2. /\ batch' \in Seq(Events)
          /\ \A i \in DOMAIN batch' :
               batch'[i].n \in 1 .. given /\ \A row \in events : row.e.n # batch'[i].n
          /\ \A i, j \in DOMAIN batch' : batch'[i].n = batch'[j].n => i = j
      BY <1>1, <2>4, <2>7 DEF StoreInv
    <3> QED BY <1>1, <2>1, <3>1, <3>2 DEF StoreInv
  <2> QED BY <2>1, <2>6, <2>7
<1>7. CASE SaveDevice
  <2>1. /\ UNCHANGED <<rows, cache, events, batch, mode, given, rolledBack>>
        /\ \E d \in Devices : devices' = devices \cup {d}
    BY <1>7 DEF SaveDevice, writer
  <2>2. WellFiled(rows, cache, devices, events)'
    BY <1>1, <1>2, <2>1, FewerFiled DEF WellFiled
  <2> QED BY <1>1, <1>3, <2>1, <2>2
<1>8. CASE DeleteDeviceWithHistory
  <2>1. PICK d \in devices : /\ devices' = devices \ {d}
                             /\ events' = {row \in events : row.e.device # d}
    BY <1>8 DEF DeleteDeviceWithHistory
  <2>2. UNCHANGED <<rows, cache, batch, mode, given, rolledBack>>
    BY <1>8 DEF DeleteDeviceWithHistory, writer
  <2>3. WellFiled(rows, cache, devices, events)'
    BY <1>1, <1>2, <2>1, <2>2, FewerFiled DEF WellFiled
  <2> QED BY <1>1, <1>3, <2>1, <2>2, <2>3
<1>9. CASE UpsertEventCatalog
  <2>1. WellFiled(rows, cache, devices, events)' /\ UNCHANGED <<events, rolledBack>>
    BY <1>1, <1>9, CatalogueDoes
  <2>2. UNCHANGED <<batch, mode, given>>
    BY <1>9 DEF UpsertEventCatalog, writer
  <2> QED BY <1>1, <1>3, <2>1, <2>2
<1>10. CASE Reopen
  <2>1. /\ UNCHANGED <<rows, devices, events, given>> /\ rolledBack' = FALSE
        /\ cache' = [code |-> Preloaded(rows.code, Codes), zone |-> Preloaded(rows.zone, Zones)]
        /\ batch' = <<>> /\ mode' = "batch"
    BY <1>10 DEF Reopen, tables
  <2>2. /\ cache' \in Caches
        /\ \A name \in Codes : cache'.code[name] = IdOf(rows.code, name)
        /\ \A name \in Zones : cache'.zone[name] = IdOf(rows.zone, name)
    <3>1. rows.code \in Seq(Codes) /\ rows.zone \in Seq(Zones)
      BY <1>1 DEF WellFiled, RowTables
    <3>2. /\ Preloaded(rows.code, Codes) \in [Codes -> Nat]
          /\ Preloaded(rows.zone, Zones) \in [Zones -> Nat]
      BY <3>1, IdOfFound DEF Preloaded
    <3> QED BY <2>1, <3>2 DEF Caches, Preloaded
  <2>3. WellFiled(rows, cache, devices, events)'
    BY <1>1, <2>1, <2>2 DEF WellFiled
  <2> QED BY <1>3, <2>1, <2>3
<1>11. CASE Expire \/ KeeperFails \/ RunMaintenance \/ UNCHANGED vars
  <2>1. /\ UNCHANGED <<rows, cache, devices, batch, mode, given, rolledBack>>
        /\ events' \subseteq events
    <3>1. CASE Expire \/ UNCHANGED vars
      BY <3>1 DEF Expire, vars, tables, writer
    <3>2. CASE KeeperFails \/ RunMaintenance
      BY <3>2 DEF KeeperFails, RunMaintenance, loadArchivedBatch, archiveEventBatch,
         deleteEventBatchLocked, KeeperMoves, writer
    <3> QED BY <1>11, <3>1, <3>2
  <2>2. WellFiled(rows, cache, devices, events)'
    BY <1>1, <1>2, <2>1, FewerFiled DEF WellFiled
  <2> QED BY <1>1, <1>3, <2>1, <2>2
<1> QED BY <1>4, <1>5, <1>6, <1>7, <1>8, <1>9, <1>10, <1>11 DEF Next

(* Nothing is filed twice, under another name, or for a device that has no *)
(* row, whatever fails and whenever the program ends: the ids in memory    *)
(* can be wrong only after a transaction that rolled back.                 *)
THEOREM EventsAreFiled == Spec => []FiledUnderItsNames
<1>1. ASSUME StoreInv PROVE FiledUnderItsNames
  <2>1. /\ IsInjective(rows.code) /\ IsInjective(rows.zone)
        /\ \A r1, r2 \in events : r1.e.n = r2.e.n => r1 = r2
        /\ \A row \in events : row.e.device \in devices
    BY <1>1 DEF StoreInv, WellFiled
  <2>2. ASSUME NEW row \in events, ~ row.doubt
        PROVE  /\ rows.code[row.code] = row.e.code
               /\ IF row.zone = 0 THEN row.e.zone = NoZone
                  ELSE rows.zone[row.zone] = row.e.zone
    BY <1>1, <2>2 DEF StoreInv, WellFiled, Right
  <2>3. /\ DOMAIN cache["code"] = Codes /\ DOMAIN cache["zone"] = Zones
        /\ cache["code"] = cache.code /\ cache["zone"] = cache.zone
        /\ rows["code"] = rows.code /\ rows["zone"] = rows.zone
    BY <1>1 DEF StoreInv, WellFiled, Caches
  <2>4. ASSUME ~ rolledBack, NEW kind \in {"code", "zone"}, NEW name \in DOMAIN cache[kind]
        PROVE  cache[kind][name] \in {0, IdOf(rows[kind], name)}
    <3>1. CASE kind = "code"
      BY <1>1, <2>3, <2>4, <3>1 DEF StoreInv, WellFiled
    <3>2. CASE kind = "zone"
      BY <1>1, <2>3, <2>4, <3>2 DEF StoreInv, WellFiled
    <3> QED BY <3>1, <3>2
  <2> QED BY <2>1, <2>2, <2>4 DEF FiledUnderItsNames
<1> QED BY <1>1, StoreInit, StoreStep, PTL DEF Spec

-----------------------------------------------------------------------------
(* An event that has left, by any way, does not come back.                 *)
LEMMA NothingReturns ==
  ASSUME StoreInv, [Next]_vars
  PROVE  /\ given' \in Nat /\ given' >= given
         /\ \A n \in Numbers : n <= given /\ Present(n)' => Present(n)
         /\ \A n \in Numbers : n <= given /\ (\E i \in DOMAIN batch' : batch'[i].n = n) =>
              \E i \in DOMAIN batch : batch[i].n = n
<1>1. /\ WellFiled(rows, cache, devices, events) /\ rolledBack \in BOOLEAN
      /\ batch \in Seq(Events) /\ given \in Nat /\ Storable(batch)
  BY StoreAssumption DEF StoreInv, Storable
(* No event arrives: those filed were in the batch.                        *)
<1>2. ASSUME given' = given,
             \A row \in events' : row \in events \/ \E j \in DOMAIN batch : row.e = batch[j],
             \A i \in DOMAIN batch' : \E j \in DOMAIN batch : batch'[i].n = batch[j].n
      PROVE  /\ given' \in Nat /\ given' >= given
             /\ \A n \in Numbers : n <= given /\ Present(n)' => Present(n)
             /\ \A n \in Numbers : n <= given /\ (\E i \in DOMAIN batch' : batch'[i].n = n) =>
                  \E i \in DOMAIN batch : batch[i].n = n
  BY <1>1, <1>2 DEF Present
<1>3. CASE Receive
  <2>1. PICK d \in Devices, c \in Codes, z \in Zones \cup {NoZone} :
          batch' = Append(batch, [n |-> given', device |-> d, code |-> c, zone |-> z])
    BY <1>3 DEF Receive
  <2> DEFINE e == [n |-> given', device |-> d, code |-> c, zone |-> z]
  <2>2. given' = given + 1 /\ UNCHANGED events /\ e.n = given' /\ batch' = Append(batch, e)
    BY <1>3, <2>1 DEF Receive, tables
  <2> HIDE DEF e
  <2>3. /\ DOMAIN batch' = DOMAIN batch \cup {Len(batch) + 1}
        /\ batch'[Len(batch) + 1] = e /\ \A i \in DOMAIN batch : batch'[i] = batch[i]
    BY <1>1, <2>2
  <2>4. \A n \in Numbers : n <= given /\ (\E i \in DOMAIN batch' : batch'[i].n = n) =>
          \E i \in DOMAIN batch : batch[i].n = n
    BY <1>1, <2>2, <2>3 DEF Numbers
  <2> QED BY <1>1, <2>2, <2>4 DEF Present
<1>4. CASE SaveEventsBatch
  <2>1. UNCHANGED given
    BY <1>4 DEF SaveEventsBatch
  <2>2. CASE Commit(batch) /\ batch' = <<>>
    <3>1. \A row \in events' : row \in events \/ \E j \in DOMAIN batch : row.e = batch[j]
      BY <1>1, <2>2, CommitDoes
    <3>2. DOMAIN batch' = {}
      BY <2>2
    <3> QED BY <1>2, <2>1, <3>1, <3>2
  <2>3. CASE Rollback(batch) /\ batch' = batch
    <3>1. UNCHANGED events
      BY <2>3 DEF Rollback, tables
    <3> QED BY <1>2, <2>1, <2>3, <3>1
  <2> QED BY <1>4, <2>2, <2>3 DEF SaveEventsBatch
<1>5. CASE SaveEvent
  <2> DEFINE e == Head(batch)
  <2>1. /\ batch # <<>> /\ given' = given
        /\ \/ Commit(<<e>>) /\ batch' = Tail(batch)
           \/ Rollback(<<e>>) /\ batch' \in {batch, Tail(batch)}
    BY <1>5 DEF SaveEvent, StoreInv
  <2>2. /\ Storable(<<e>>) /\ e = batch[1]
        /\ \A i \in DOMAIN Tail(batch) : /\ i + 1 \in DOMAIN batch
                                         /\ Tail(batch)[i] = batch[i + 1]
    BY <1>1, <2>1, HeadStorable
  <2>0. 1 \in DOMAIN batch
    BY <1>1, <2>1
  <2>3. DOMAIN <<e>> = {1} /\ <<e>>[1] = e
    OBVIOUS
  <2> HIDE DEF e
  <2>4. \A row \in events' : row \in events \/ row.e = e
    <3>1. CASE Commit(<<e>>)
      <4>1. \A row \in events' : row \in events \/ \E j \in DOMAIN <<e>> : row.e = <<e>>[j]
        BY <1>1, <2>2, <3>1, CommitDoes
      <4> QED BY <2>3, <4>1
    <3>2. CASE Rollback(<<e>>)
      BY <3>2 DEF Rollback, tables
    <3> QED BY <2>1, <3>1, <3>2
  <2>5. \A i \in DOMAIN batch' : \E j \in DOMAIN batch : batch'[i].n = batch[j].n
    BY <2>1, <2>2
  <2> QED BY <1>2, <2>0, <2>1, <2>2, <2>4, <2>5
<1>6. CASE SaveDevice \/ UpsertEventCatalog \/ Expire \/ UNCHANGED vars
  <2>1. UNCHANGED <<events, batch, given>>
    BY <1>6 DEF SaveDevice, UpsertEventCatalog, Expire, vars, tables, writer
  <2> QED BY <1>2, <2>1
<1>7. CASE DeleteDeviceWithHistory \/ KeeperFails \/ RunMaintenance
  <2>1. UNCHANGED <<batch, given>> /\ events' \subseteq events
    BY <1>7 DEF DeleteDeviceWithHistory, KeeperFails, RunMaintenance, loadArchivedBatch,
       archiveEventBatch, deleteEventBatchLocked, KeeperMoves, writer
  <2> QED BY <1>2, <2>1
<1>8. CASE Reopen
  <2>1. UNCHANGED <<events, given>> /\ DOMAIN batch' = {}
    BY <1>8 DEF Reopen, tables
  <2> QED BY <1>2, <2>1
<1> QED BY <1>3, <1>4, <1>5, <1>6, <1>7, <1>8 DEF Next

(* What loadArchivedBatch takes is filed, and so not in the batch.         *)
LEMMA OverdueIsFiled ==
  ASSUME StoreInv, NEW n \in Overdue
  PROVE  n \in Numbers /\ n <= given /\ Present(n) /\ \A i \in DOMAIN batch : batch[i].n # n
<1>1. PICK row \in events : n = row.e.n
  BY DEF Overdue
<1>2. n \in 1 .. given /\ given \in 0 .. MaxEvents
  BY <1>1 DEF StoreInv
<1> QED BY <1>1, <1>2, StoreAssumption DEF Present, Numbers, StoreInv

LEMMA KeeperStep ==
  ASSUME StoreInv, KeeperInv, [Next]_vars
  PROVE  KeeperInv'
<1>1. /\ given' \in Nat /\ given' >= given /\ given \in Nat
      /\ \A n \in Numbers : n <= given /\ ~ Present(n) => ~ Present(n)'
      /\ \A n \in Numbers : n <= given /\ (\A i \in DOMAIN batch : batch[i].n # n) =>
           \A i \in DOMAIN batch' : batch'[i].n # n
  BY NothingReturns DEF StoreInv
<1>2. /\ archive \in [Numbers -> Nat] /\ archiving \in BOOLEAN
      /\ keeper \in [at : {"idle", "load", "archive", "delete"}, load : SUBSET Numbers]
  BY DEF KeeperInv
<1>3. \A n \in keeper.load : n <= given' /\ \A i \in DOMAIN batch' : batch'[i].n # n
  <2>1. \A n \in keeper.load : n \in Numbers /\ n <= given
                             /\ \A i \in DOMAIN batch : batch[i].n # n
    BY <1>2 DEF KeeperInv
  <2> QED BY <1>1, <2>1 DEF Numbers
<1>4. ASSUME NEW n \in Numbers, ~ Present(n), n <= given
      PROVE  ~ Present(n)' /\ n <= given'
  BY <1>1, <1>4 DEF Numbers
<1>5. CASE UNCHANGED <<archive, archiving, keeper, interrupted>>
  BY <1>2, <1>3, <1>4, <1>5 DEF KeeperInv
<1>6. CASE Reopen \/ KeeperFails
  <2>1. /\ keeper' = [at |-> "idle", load |-> {}] /\ UNCHANGED <<archive, archiving>>
        /\ interrupted' = (interrupted \/ keeper.at = "delete")
    BY <1>6 DEF Reopen, KeeperFails, KeeperMoves, Idle
  <2>2. ~ interrupted' => ~ interrupted /\ keeper.at # "delete"
    BY <2>1
  <2>3. keeper'.at = "idle" /\ keeper'.load = {}
    BY <2>1
  <2>4. ~ interrupted' => \A n \in Numbers : archive[n] > 0 => ~ Present(n) /\ n <= given
    BY <2>2 DEF KeeperInv
  <2> QED BY <1>2, <1>4, <2>1, <2>3, <2>4 DEF KeeperInv
<1>7. CASE loadArchivedBatch
  <2>1. /\ keeper.at \in {"idle", "load"}
        /\ UNCHANGED <<archive, archiving, interrupted, batch, given, events>>
        /\ \/ keeper' = [at |-> "idle", load |-> {}]
           \/ \E s \in SUBSET Overdue :
                keeper' = [at |-> IF archiving THEN "archive" ELSE "delete", load |-> s]
    BY <1>7 DEF loadArchivedBatch, KeeperMoves, writer
  <2>2. ~ interrupted =>
          \A n \in Numbers : archive[n] > 0 => ~ Present(n) /\ n <= given
    BY <2>1 DEF KeeperInv
  <2>3. CASE keeper' = [at |-> "idle", load |-> {}]
    BY <1>2, <1>4, <2>1, <2>2, <2>3 DEF KeeperInv
  <2>4. ASSUME NEW s \in SUBSET Overdue,
               keeper' = [at |-> IF archiving THEN "archive" ELSE "delete", load |-> s]
        PROVE  KeeperInv'
    <3>1. \A n \in s : /\ n \in Numbers /\ n <= given /\ Present(n)
                      /\ \A i \in DOMAIN batch : batch[i].n # n
      BY OverdueIsFiled
    <3>2. /\ keeper'.load = s /\ keeper'.at = IF archiving THEN "archive" ELSE "delete"
          /\ keeper' \in [at : {"idle", "load", "archive", "delete"}, load : SUBSET Numbers]
      BY <1>2, <2>4, <3>1
    <3>3. ~ interrupted => \A n \in s : archive[n] = 0
      <4>1. \A n \in s : archive[n] \in Nat
        BY <1>2, <3>1
      <4> QED BY <2>2, <3>1, <4>1
    <3>4. /\ archiving /\ keeper'.at = "delete" => \A n \in keeper'.load : archive'[n] > 0
          /\ keeper'.at = "archive" /\ ~ interrupted => \A n \in keeper'.load : archive'[n] = 0
      BY <1>2, <2>1, <3>2, <3>3
    <3> QED BY <1>2, <1>4, <2>1, <2>2, <3>1, <3>2, <3>4 DEF KeeperInv
  <2> QED BY <2>1, <2>3, <2>4
<1>8. CASE archiveEventBatch
  <2>1. /\ keeper.at = "archive" /\ keeper' = [at |-> "delete", load |-> keeper.load]
        /\ UNCHANGED <<archiving, interrupted>>
        /\ archive' = [n \in DOMAIN archive |->
                         archive[n] + (IF n \in keeper.load THEN 1 ELSE 0)]
    BY <1>8 DEF archiveEventBatch, KeeperMoves
  <2>2. /\ keeper'.at = "delete" /\ keeper'.load = keeper.load
        /\ keeper' \in [at : {"idle", "load", "archive", "delete"}, load : SUBSET Numbers]
    BY <1>2, <2>1
  <2>3. /\ archive' \in [Numbers -> Nat] /\ \A n \in keeper.load : archive'[n] > 0
        /\ \A n \in Numbers \ keeper.load : archive'[n] = archive[n]
    BY <1>2, <2>1
  <2>4. ~ interrupted => \A n \in Numbers \ keeper.load :
          archive[n] > 0 => ~ Present(n) /\ n <= given
    BY <2>1 DEF KeeperInv
  <2> QED BY <1>2, <1>3, <1>4, <2>1, <2>2, <2>3, <2>4 DEF KeeperInv
<1>9. CASE deleteEventBatchLocked
  <2>1. /\ keeper.at = "delete" /\ UNCHANGED <<archive, archiving, interrupted, batch, given>>
        /\ events' = {row \in events : row.e.n \notin keeper.load}
        /\ \/ keeper' = [at |-> "idle", load |-> {}]
           \/ keeper' = [at |-> "load", load |-> {}]
    BY <1>9 DEF deleteEventBatchLocked, KeeperMoves, writer
  <2>2. /\ keeper'.at \in {"idle", "load"} /\ keeper'.load = {}
        /\ keeper' \in [at : {"idle", "load", "archive", "delete"}, load : SUBSET Numbers]
    BY <2>1
  <2>3. \A n \in keeper.load : ~ Present(n)' /\ n <= given'
    BY <1>3, <2>1 DEF Present
  <2>4. ~ interrupted => \A n \in Numbers : archive[n] > 0 =>
          n \in keeper.load \/ (~ Present(n) /\ n <= given)
    BY DEF KeeperInv
  <2> QED BY <1>2, <1>4, <2>1, <2>2, <2>3, <2>4 DEF KeeperInv
<1>10. \/ UNCHANGED <<archive, archiving, keeper, interrupted>>
       \/ Reopen \/ KeeperFails \/ RunMaintenance
  <2>1. CASE Receive \/ SaveEventsBatch \/ SaveEvent
    BY <2>1 DEF Receive, SaveEventsBatch, SaveEvent, keeping
  <2>2. CASE SaveDevice \/ DeleteDeviceWithHistory \/ Expire
    BY <2>2 DEF SaveDevice, DeleteDeviceWithHistory, Expire, keeping
  <2>3. CASE UpsertEventCatalog
    BY <2>3 DEF UpsertEventCatalog, keeping
  <2>4. CASE UNCHANGED vars
    BY <2>4 DEF vars, keeping
  <2> QED BY <2>1, <2>2, <2>3, <2>4 DEF Next
<1> QED BY <1>5, <1>6, <1>7, <1>8, <1>9, <1>10 DEF RunMaintenance

LEMMA StoreSafe == Spec => [](StoreInv /\ KeeperInv)
BY StoreInit, StoreStep, KeeperStep, PTL DEF Spec

(* RunMaintenance moves an event before it deletes it, and moves it again  *)
(* only after a run that stopped between its two commits.                  *)
THEOREM EventsMoveOnce == Spec => MovedOnce
<1> DEFINE Moved == /\ archiving => \A row \in events \ events' :
                         archive'[row.e.n] > 0 \/ row.e.device \notin devices'
                    /\ \A n \in DOMAIN archive :
                         archive'[n] # archive[n] /\ archive'[n] > 1 => interrupted
<1>1. ASSUME StoreInv, KeeperInv, [Next]_vars PROVE [Moved]_vars
  <2>1. /\ WellFiled(rows, cache, devices, events) /\ rolledBack \in BOOLEAN
        /\ Storable(batch) /\ archive \in [Numbers -> Nat]
    BY <1>1 DEF StoreInv, Storable, KeeperInv
  <2>2. CASE UNCHANGED archive /\ events \subseteq events'
    BY <2>2
  <2>3. CASE Receive \/ SaveDevice \/ Reopen \/ Expire \/ KeeperFails \/ loadArchivedBatch
    BY <2>2, <2>3 DEF Receive, SaveDevice, Reopen, Expire, KeeperFails, loadArchivedBatch,
       KeeperMoves, keeping, tables
  <2>4. CASE UpsertEventCatalog
    BY <2>2, <2>4 DEF UpsertEventCatalog, keeping
  <2>5. CASE SaveEventsBatch
    <3>1. UNCHANGED archive
      BY <2>5 DEF SaveEventsBatch, keeping
    <3>2. events \subseteq events'
      BY <2>1, <2>5, CommitDoes DEF SaveEventsBatch, Rollback, tables
    <3> QED BY <2>2, <3>1, <3>2
  <2>6. CASE SaveEvent
    <3>1. UNCHANGED archive /\ batch # <<>>
      BY <1>1, <2>6 DEF SaveEvent, keeping, StoreInv
    <3>2. Storable(<<Head(batch)>>)
      BY <2>1, <3>1, HeadStorable
    <3>3. events \subseteq events'
      BY <2>1, <2>6, <3>2, CommitDoes DEF SaveEvent, Rollback, tables
    <3> QED BY <2>2, <3>1, <3>3
  <2>7. CASE DeleteDeviceWithHistory
    BY <2>7 DEF DeleteDeviceWithHistory, keeping
  <2>8. CASE archiveEventBatch
    <3>1. /\ keeper.at = "archive" /\ UNCHANGED events
          /\ archive' = [n \in DOMAIN archive |->
                           archive[n] + (IF n \in keeper.load THEN 1 ELSE 0)]
      BY <2>8 DEF archiveEventBatch
    <3>2. ASSUME NEW n \in DOMAIN archive, archive'[n] # archive[n], archive'[n] > 1
          PROVE  interrupted
      <4>1. n \in keeper.load /\ archive[n] > 0
        BY <2>1, <3>1, <3>2
      <4>2. ~ interrupted => archive[n] = 0
        BY <1>1, <3>1, <4>1 DEF KeeperInv
      <4> QED BY <4>1, <4>2
    <3> QED BY <3>1, <3>2
  <2>9. CASE deleteEventBatchLocked
    <3>1. /\ keeper.at = "delete" /\ UNCHANGED archive
          /\ events' = {row \in events : row.e.n \notin keeper.load}
      BY <2>9 DEF deleteEventBatchLocked
    <3>2. archiving => \A n \in keeper.load : archive[n] > 0
      BY <1>1, <3>1 DEF KeeperInv
    <3> QED BY <3>1, <3>2
  <2> QED BY <1>1, <2>3, <2>4, <2>5, <2>6, <2>7, <2>8, <2>9 DEF Next, RunMaintenance
<1>2. Spec => [][Moved]_vars
  <2> HIDE DEF Moved
  <2> QED BY <1>1, StoreSafe, PTL DEF Spec
<1> QED BY <1>2 DEF MovedOnce
=============================================================================

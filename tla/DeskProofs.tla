----------------------------- MODULE DeskProofs -----------------------------
(***************************************************************************)
(* Proofs about the parts of a user interface, as MCDesk puts them beside  *)
(* each other: for any accounts, ranges, objects, queries, connections and *)
(* rows, and any bounds.                                                   *)
(***************************************************************************)
EXTENDS MCDesk, FiniteSetTheorems, TLAPS

-----------------------------------------------------------------------------
(* The settings.  Unless two saves met or one failed half way, at most one *)
(* is under way, and the copy of the interface is behind the configuration *)
(* only between SaveConfig and ShowSaved.                                  *)
Saving(c) == saves[c].at # "none"

SettingsInv ==
  /\ saves = [c \in Savers |-> [at |-> saves[c].at, cfg |-> saves[c].cfg,
                                newest |-> saves[c].newest]]
  /\ edited \in BOOLEAN /\ stale \in BOOLEAN
  /\ ~ edited => form = Text(held)
  /\ ~ stale =>
       /\ (\A c \in Savers : ~ Saving(c)) => held = config
       /\ \A c, k \in Savers : Saving(c) /\ Saving(k) => c = k
       /\ \A c \in Savers : Saving(c) =>
            /\ saves[c].newest
            /\ saves[c].at \in {"asked", "failed"} => held = config
            /\ saves[c].at = "answered" => saves[c].cfg = config

LEMMA SettingsStarts == SettingsInit => SettingsInv
<1> SUFFICES ASSUME SettingsInit PROVE SettingsInv
  OBVIOUS
<1>1. PICK cfg : Started(cfg)
  BY DEF SettingsInit
<1>2. /\ config = cfg /\ held = cfg /\ form = Text(cfg)
      /\ saves = [c \in Savers |-> Idle] /\ edited = FALSE /\ stale = FALSE
  BY <1>1 DEF Started
<1>3. \A c \in Savers : /\ ~ Saving(c)
                        /\ saves[c] = [at |-> saves[c].at, cfg |-> saves[c].cfg,
                                       newest |-> saves[c].newest]
  BY <1>2 DEF Saving, Idle
<1> QED BY <1>2, <1>3 DEF SettingsInv

ASaves == saves = [c \in Savers |-> [at |-> saves[c].at, cfg |-> saves[c].cfg,
                                     newest |-> saves[c].newest]]

(* What a step of one goroutine does to the saves under way.               *)
MovesTo(c, at) == saves' = [saves EXCEPT ![c].at = at]
Answers(c, at, cfg) == saves' = [saves EXCEPT ![c].at = at, ![c].cfg = cfg]

LEMMA SaveMoves ==
  ASSUME ASaves, NEW c \in Savers, NEW at, NEW cfg,
         (MovesTo(c, at) /\ cfg = saves[c].cfg) \/ Answers(c, at, cfg)
  PROVE  /\ ASaves' /\ \A k \in Savers \ {c} : saves'[k] = saves[k]
         /\ saves'[c] = [at |-> at, cfg |-> cfg, newest |-> saves[c].newest]
<1> DEFINE r == saves[c]
           a == r.at
           b == r.cfg
           n == r.newest
<1>1. r = [at |-> a, cfg |-> b, newest |-> n] /\ DOMAIN saves = Savers
  BY DEF ASaves
<1>2. /\ [r EXCEPT !.at = at, !.cfg = cfg] = [at |-> at, cfg |-> cfg, newest |-> n]
      /\ [r EXCEPT !.at = at] = [at |-> at, cfg |-> b, newest |-> n]
  <2> DEFINE s == [at |-> a, cfg |-> b, newest |-> n]
             u == [at |-> at, cfg |-> b, newest |-> n]
  <2> HIDE DEF r, a, b, n
  <2>1. /\ [s EXCEPT !.at = at] = u
        /\ [u EXCEPT !.cfg = cfg] = [at |-> at, cfg |-> cfg, newest |-> n]
    OBVIOUS
  <2>2. r = s /\ u = [at |-> at, cfg |-> b, newest |-> n]
    BY <1>1
  <2> HIDE DEF s, u
  <2> QED BY <2>1, <2>2
<1>3. /\ DOMAIN saves' = Savers /\ \A k \in Savers \ {c} : saves'[k] = saves[k]
      /\ saves'[c] = [at |-> at, cfg |-> cfg, newest |-> n]
      /\ saves' = [k \in Savers |-> saves'[k]]
  <2> HIDE DEF a, b, n
  <2>1. CASE MovesTo(c, at) /\ cfg = saves[c].cfg
    BY <1>1, <1>2, <2>1 DEF MovesTo, b
  <2>2. CASE Answers(c, at, cfg)
    BY <1>1, <1>2, <2>2 DEF Answers
  <2> QED BY <2>1, <2>2
<1>4. \A k \in Savers : saves'[k] = [at |-> saves'[k].at, cfg |-> saves'[k].cfg,
                                     newest |-> saves'[k].newest]
  BY <1>3 DEF ASaves
<1>5. ASaves'
  BY <1>3, <1>4 DEF ASaves
<1> QED BY <1>3, <1>5

LEMMA SettingsStep ==
  ASSUME SettingsInv, SettingsNext \/ UNCHANGED settingsVars
  PROVE  SettingsInv'
<1>1. ASaves /\ edited \in BOOLEAN /\ stale \in BOOLEAN
  BY DEF SettingsInv, ASaves
<1>2. ASSUME ASaves', edited' \in BOOLEAN, stale' \in BOOLEAN,
             ~ edited' => form' = Text(held'),
             ~ stale' =>
               /\ (\A c \in Savers : saves'[c].at = "none") => held' = config'
               /\ \A c, k \in Savers :
                    saves'[c].at # "none" /\ saves'[k].at # "none" => c = k
               /\ \A c \in Savers : saves'[c].at # "none" =>
                    /\ saves'[c].newest
                    /\ saves'[c].at \in {"asked", "failed"} => held' = config'
                    /\ saves'[c].at = "answered" => saves'[c].cfg = config'
      PROVE  SettingsInv'
  BY <1>2 DEF SettingsInv, ASaves, Saving, Text
<1>3. CASE LoadConfig
  <2>1. /\ held' = config' /\ form' = Text(config') /\ edited' = FALSE /\ stale' = FALSE
        /\ saves' = [c \in Savers |-> Idle]
    BY <1>3 DEF LoadConfig
  <2>2. ASaves' /\ \A c \in Savers : saves'[c].at = "none"
    BY <2>1 DEF ASaves, Idle
  <2> QED BY <1>2, <2>1, <2>2
<1>4. CASE UNCHANGED settingsVars
  BY <1>4 DEF settingsVars, SettingsInv, Saving, Text
<1>5. CASE EditForm \/ ResetForm
  <2>1. /\ UNCHANGED <<config, held, saves, stale>> /\ edited' \in BOOLEAN
        /\ ~ edited' => form' = Text(held)
    BY <1>5 DEF EditForm, ResetForm
  <2> QED BY <2>1 DEF SettingsInv, Saving, Text
<1>6. ASSUME NEW c \in Savers, SaveForm(c)
      PROVE  SettingsInv'
  <2>1. /\ saves[c].at = "none" /\ UNCHANGED <<config, held, form, edited>>
        /\ stale' = (stale \/ SavesUnderWay # {})
        /\ saves' = [k \in Savers |-> IF k = c THEN [at |-> "asked", cfg |-> Collected,
                                                      newest |-> TRUE]
                                      ELSE [saves[k] EXCEPT !.newest = FALSE]]
    BY <1>6 DEF SaveForm
  <2>2. /\ saves'[c] = [at |-> "asked", cfg |-> Collected, newest |-> TRUE]
        /\ \A k \in Savers \ {c} :
             saves'[k] = [at |-> saves[k].at, cfg |-> saves[k].cfg, newest |-> FALSE]
        /\ saves' = [k \in Savers |-> saves'[k]]
    <3>1. \A k \in Savers : [saves[k] EXCEPT !.newest = FALSE]
                            = [at |-> saves[k].at, cfg |-> saves[k].cfg, newest |-> FALSE]
      <4> TAKE k \in Savers
      <4> DEFINE r == saves[k]
                 a == r.at
                 b == r.cfg
                 n == r.newest
      <4>1. r = [at |-> a, cfg |-> b, newest |-> n]
        BY <1>1 DEF ASaves
      <4>2. [r EXCEPT !.newest = FALSE] = [at |-> a, cfg |-> b, newest |-> FALSE]
        <5> DEFINE s == [at |-> a, cfg |-> b, newest |-> n]
        <5> HIDE DEF r, a, b, n
        <5>1. ASSUME NEW x
              PROVE  [s EXCEPT !.newest = x] = [at |-> a, cfg |-> b, newest |-> x]
          OBVIOUS
        <5>2. r = s
          BY <4>1
        <5> HIDE DEF s
        <5>3. [s EXCEPT !.newest = FALSE] = [at |-> a, cfg |-> b, newest |-> FALSE]
          BY <5>1
        <5> QED BY <5>2, <5>3
      <4> QED BY <4>2
    <3> HIDE DEF Collected
    <3> QED BY <2>1, <3>1
  <2>3. ASaves'
    <3>1. \A k \in Savers : saves'[k] = [at |-> saves'[k].at, cfg |-> saves'[k].cfg,
                                         newest |-> saves'[k].newest]
      BY <2>2
    <3> QED BY <2>2, <3>1 DEF ASaves
  <2>4. ASSUME ~ stale'
        PROVE  ~ stale /\ held = config /\ \A k \in Savers \ {c} : saves'[k].at = "none"
    <3>1. ~ stale /\ SavesUnderWay = {}
      BY <1>1, <2>1, <2>4
    <3>2. \A k \in Savers : saves[k].at = "none"
      BY <3>1 DEF SavesUnderWay
    <3> QED BY <2>2, <3>1, <3>2 DEF SettingsInv, Saving
  <2>5. /\ saves'[c].at = "asked" /\ saves'[c].newest
        /\ stale' \in BOOLEAN /\ edited' \in BOOLEAN /\ (~ edited' => form' = Text(held'))
    BY <1>1, <2>1, <2>2 DEF SettingsInv
  <2> QED BY <1>2, <2>1, <2>3, <2>4, <2>5
<1>7. ASSUME NEW c \in Savers, SaveConfig(c)
      PROVE  SettingsInv'
  <2>1. /\ saves[c].at = "asked" /\ UNCHANGED <<held, form, edited>>
        /\ \/ saves' = [saves EXCEPT ![c].at = "saved"] /\ UNCHANGED stale
           \/ /\ saves' = [saves EXCEPT ![c].at = "failed"]
              /\ stale' = (stale \/ config' # config)
    BY <1>7 DEF SaveConfig
  <2>2. /\ ASaves' /\ \A k \in Savers \ {c} : saves'[k] = saves[k]
        /\ saves'[c].newest = saves[c].newest /\ saves'[c].at \in {"saved", "failed"}
        /\ saves'[c].at = "failed" => stale' = (stale \/ config' # config)
    <3>1. CASE saves' = [saves EXCEPT ![c].at = "saved"]
      <4>0. MovesTo(c, "saved")
        BY <3>1 DEF MovesTo
      <4>1. /\ ASaves' /\ \A k \in Savers \ {c} : saves'[k] = saves[k]
            /\ saves'[c] = [at |-> "saved", cfg |-> saves[c].cfg, newest |-> saves[c].newest]
        BY <1>1, <4>0, SaveMoves
      <4> QED BY <4>1
    <3>2. CASE /\ saves' = [saves EXCEPT ![c].at = "failed"]
               /\ stale' = (stale \/ config' # config)
      <4>0. MovesTo(c, "failed")
        BY <3>2 DEF MovesTo
      <4>1. /\ ASaves' /\ \A k \in Savers \ {c} : saves'[k] = saves[k]
            /\ saves'[c] = [at |-> "failed", cfg |-> saves[c].cfg, newest |-> saves[c].newest]
        BY <1>1, <4>0, SaveMoves
      <4> QED BY <3>2, <4>1
    <3> QED BY <2>1, <3>1, <3>2
  <2>3. stale' \in BOOLEAN /\ (~ stale' => ~ stale)
    BY <1>1, <2>1
  <2>4. edited' \in BOOLEAN /\ (~ edited' => form' = Text(held'))
    BY <1>1, <2>1 DEF SettingsInv
  <2>5. ~ stale => /\ saves[c].newest /\ held = config
                   /\ \A k \in Savers \ {c} : saves[k].at = "none"
    BY <2>1 DEF SettingsInv, Saving
  <2> QED BY <1>2, <2>1, <2>2, <2>3, <2>4, <2>5
<1>8. ASSUME NEW c \in Savers, GetConfig(c)
      PROVE  SettingsInv'
  <2>1. /\ saves[c].at = "saved" /\ UNCHANGED <<config, held, form, edited, stale>>
        /\ saves' = [saves EXCEPT ![c].at = "answered", ![c].cfg = config]
    BY <1>8 DEF GetConfig
  <2>2. /\ ASaves' /\ \A k \in Savers \ {c} : saves'[k] = saves[k]
        /\ saves'[c] = [at |-> "answered", cfg |-> config, newest |-> saves[c].newest]
    <3>1. Answers(c, "answered", config)
      BY <2>1 DEF Answers
    <3> QED BY <1>1, <3>1, SaveMoves
  <2>3. edited' \in BOOLEAN /\ stale' \in BOOLEAN /\ (~ edited' => form' = Text(held'))
    BY <1>1, <2>1 DEF SettingsInv
  <2>4. ~ stale => /\ saves[c].newest
                   /\ \A k \in Savers \ {c} : saves[k].at = "none"
    BY <2>1 DEF SettingsInv, Saving
  <2>5. /\ saves'[c].at = "answered" /\ saves'[c].cfg = config'
        /\ saves[c].newest => saves'[c].newest
    BY <2>1, <2>2
  <2>6. \A k \in Savers : k = c \/ saves'[k] = saves[k]
    BY <2>2
  <2>7. ASaves' /\ (~ stale' => ~ stale)
    BY <2>1, <2>2
  <2> QED BY <1>2, <2>3, <2>4, <2>5, <2>6, <2>7
<1>9. ASSUME NEW c \in Savers, ShowSaved(c)
      PROVE  SettingsInv'
  <2>1. /\ saves[c].at \in {"answered", "failed"} /\ UNCHANGED config
        /\ saves' = [saves EXCEPT ![c] = Idle]
        /\ \/ /\ saves[c].at = "answered"
              /\ held' = saves[c].cfg /\ form' = Text(held') /\ edited' = FALSE
              /\ stale' = (stale /\ (SavesUnderWay # {c} \/ held' # config))
           \/ /\ UNCHANGED <<held, form, edited, stale>>
              /\ ~ (saves[c].at = "answered" /\ saves[c].newest)
    BY <1>9 DEF ShowSaved
  <2>2. /\ ASaves' /\ \A k \in Savers \ {c} : saves'[k] = saves[k]
        /\ saves'[c].at = "none"
    <3>1. /\ DOMAIN saves' = Savers /\ saves' = [k \in Savers |-> saves'[k]]
          /\ \A k \in Savers \ {c} : saves'[k] = saves[k]
          /\ saves'[c] = Idle
      BY <1>1, <2>1 DEF ASaves
    <3>2. \A k \in Savers : saves'[k] = [at |-> saves'[k].at, cfg |-> saves'[k].cfg,
                                         newest |-> saves'[k].newest]
      BY <1>1, <3>1 DEF ASaves, Idle
    <3> QED BY <3>1, <3>2 DEF ASaves, Idle
  <2>3. /\ stale' \in BOOLEAN /\ edited' \in BOOLEAN /\ (~ edited' => form' = Text(held'))
    <3>1. CASE UNCHANGED <<held, form, edited, stale>>
      BY <1>1, <3>1 DEF SettingsInv, Text
    <3>2. CASE /\ form' = Text(held') /\ edited' = FALSE
               /\ stale' = (stale /\ (SavesUnderWay # {c} \/ held' # config))
      BY <1>1, <3>2
    <3> QED BY <2>1, <3>1, <3>2
  <2>4. ~ stale => \A k \in Savers \ {c} : saves[k].at = "none"
    BY <2>1 DEF SettingsInv, Saving
  <2>5. ~ stale => /\ saves[c].newest
                   /\ saves[c].at = "failed" => held = config
                   /\ saves[c].at = "answered" => saves[c].cfg = config
    BY <2>1 DEF SettingsInv, Saving
  <2>6. ASSUME stale, ~ stale'
        PROVE  held' = config /\ \A k \in Savers \ {c} : saves'[k].at = "none"
    <3>1. SavesUnderWay = {c} /\ held' = config
      BY <1>1, <2>1, <2>6
    <3>2. \A k \in Savers \ {c} : saves[k].at = "none"
      BY <3>1 DEF SavesUnderWay
    <3> QED BY <2>2, <3>1, <3>2
  <2>7. ~ stale /\ ~ stale' => held' = config
    BY <2>1, <2>5
  <2>8. ~ stale' => held' = config' /\ \A k \in Savers : saves'[k].at = "none"
    BY <1>1, <2>1, <2>2, <2>4, <2>6, <2>7
  <2> QED BY <1>2, <2>2, <2>3, <2>8
<1> QED BY <1>3, <1>4, <1>5, <1>6, <1>7, <1>8, <1>9 DEF SettingsNext

LEMMA RemapShown ==
  ASSUME SettingsInv
  PROVE  RemapIsShown
<1> SUFFICES ASSUME SavesUnderWay = {}, ~ edited, ~ stale
             PROVE  /\ held = config /\ form = Text(config)
                    /\ \A a \in Accounts \ {0} :
                         LET new == ChangeAccountNumber(a, config) IN
                         \/ new \in Says(a)
                         \/ (new = 0 /\ \E n \in Says(a) : n \notin 1 .. MaxAccount)
  BY DEF RemapIsShown
<1>1. held = config /\ form = Text(config)
  BY DEF SettingsInv, SavesUnderWay, Saving
<1>2. ASSUME NEW a \in Accounts \ {0}
      PROVE  LET new == ChangeAccountNumber(a, config) IN
             \/ new \in Says(a)
             \/ (new = 0 /\ \E n \in Says(a) : n \notin 1 .. MaxAccount)
  <2> DEFINE of == {i \in DOMAIN config.ranges :
                      a \in config.ranges[i].from .. config.ranges[i].to}
             hit == CHOOSE i \in of : \A j \in of : i <= j
             delta == config.ranges[hit].delta
             by == IF of # {} THEN delta
                   ELSE IF a \in Legacy[1] .. Legacy[2] THEN config.add ELSE 0
  <2>1. a \in Nat /\ a >= 1
    BY SettingsAssumption DEF Accounts
  <2>2. Says(a) = IF of = {} THEN {a, a + config.add} ELSE {a + delta}
    BY <1>1 DEF Says, Text
  <2>3. ChangeAccountNumber(a, config)
          = IF a < 1 \/ a + by \notin 1 .. MaxAccount THEN 0 ELSE a + by
    BY DEF ChangeAccountNumber
  <2>4. a + by \in Says(a)
    <3> HIDE DEF of, delta
    <3>1. CASE of # {}
      BY <2>2, <3>1
    <3>2. CASE of = {}
      BY <2>1, <2>2, <3>2
    <3> QED BY <3>1, <3>2
  <2>5. ~ (a < 1)
    BY <2>1
  <2> HIDE DEF by
  <2> QED BY <2>3, <2>4, <2>5
<1> QED BY <1>1, <1>2

-----------------------------------------------------------------------------
(* The history window.  Unless requests met, at most one query is under    *)
(* way, and it will answer what the window asks: in the terminal it took   *)
(* the question with it, in the dialog it reads the window when it runs.   *)
Questions == [object : Panels \cup {0}, filter : Filters, limit : Nat]
Windows == [object : Panels \cup {0}, filter : Filters, limit : Nat,
            allShown : BOOLEAN, busy : BOOLEAN, live : BOOLEAN]
Querying(c) == queries[c].at # "none"
AQueries == queries = [c \in Queries |-> [at |-> queries[c].at, q |-> queries[c].q,
                                          list |-> queries[c].list]]

(* The rows are the answer to what the window asks, but for its limit when *)
(* a saved configuration has reset it.                                     *)
RowsAnswer ==
  /\ rows.q = Question(window.object, window.filter, rows.q.limit)
  /\ rows.q.limit = window.limit \/ (resized /\ window.limit = first)
  /\ window.allShown => Len(rows.list) < rows.q.limit

HistoryInv ==
  /\ window \in Windows /\ AQueries /\ crossed \in BOOLEAN /\ first \in Nat
  /\ \A c \in Queries : queries[c].q \in Questions
  /\ ui # "terminal" =>
       /\ ~ resized
       /\ \A c \in Queries : Querying(c) => Open /\ window.busy
       /\ \A c, k \in Queries : Querying(c) /\ Querying(k) => c = k
  /\ ~ crossed =>
       /\ \A c, k \in Queries : Querying(c) /\ Querying(k) => c = k
       /\ Open => \A c \in Queries :
            /\ ui = "terminal" /\ Querying(c) =>
                 queries[c].q = Question(window.object, window.filter, queries[c].q.limit)
            /\ ui # "terminal" /\ queries[c].at = "answered" => queries[c].q = Asked
       /\ Open /\ (\A c \in Queries : ~ Querying(c)) => RowsAnswer

LEMMA HistoryStarts == HistoryInit => HistoryInv
<1> SUFFICES ASSUME HistoryInit PROVE HistoryInv
  OBVIOUS
<1>1. /\ window = Closed /\ queries = [c \in Queries |-> NoQuery] /\ crossed = FALSE
      /\ first \in Nat /\ resized = FALSE
  BY HistoryAssumption DEF HistoryInit
<1>2. Closed \in Windows /\ Closed.object = 0
  BY DEF Closed, Windows, Filters
<1>3. Nothing.q \in Questions
  BY DEF Nothing, Question, Questions, Filters
<1>4. \A c \in Queries : /\ ~ Querying(c) /\ queries[c].q \in Questions /\ queries[c] = NoQuery
                         /\ queries[c].at = "none"
  BY <1>1, <1>3 DEF Querying, NoQuery
<1>5. AQueries
  BY <1>1 DEF AQueries, NoQuery
<1> QED BY <1>1, <1>2, <1>4, <1>5 DEF HistoryInv, Open

(* What a step of one goroutine does to the queries.                       *)
Asks(c) == queries' = [queries EXCEPT ![c].at = "asked"]
Becomes(c, at, q, answer) ==
  queries' = [queries EXCEPT ![c] = [at |-> at, q |-> q, list |-> answer]]
AsksFor(c, q) == queries' = [queries EXCEPT ![c].at = "asked", ![c].q = q]

LEMMA QueryAsked ==
  ASSUME AQueries, NEW c \in Queries, NEW q,
         (Asks(c) /\ q = queries[c].q) \/ AsksFor(c, q)
  PROVE  /\ AQueries' /\ \A k \in Queries \ {c} : queries'[k] = queries[k]
         /\ queries'[c] = [at |-> "asked", q |-> q, list |-> queries[c].list]
<1> DEFINE r == queries[c]
           a == r.at
           b == r.q
           n == r.list
<1>1. r = [at |-> a, q |-> b, list |-> n] /\ DOMAIN queries = Queries
  BY DEF AQueries
<1>2. /\ [r EXCEPT !.at = "asked", !.q = q] = [at |-> "asked", q |-> q, list |-> n]
      /\ [r EXCEPT !.at = "asked"] = [at |-> "asked", q |-> b, list |-> n]
  <2> DEFINE s == [at |-> a, q |-> b, list |-> n]
             u == [at |-> "asked", q |-> b, list |-> n]
  <2> HIDE DEF r, a, b, n
  <2>1. /\ [s EXCEPT !.at = "asked"] = u
        /\ [u EXCEPT !.q = q] = [at |-> "asked", q |-> q, list |-> n]
    OBVIOUS
  <2>2. r = s /\ u = [at |-> "asked", q |-> b, list |-> n]
    BY <1>1
  <2> HIDE DEF s, u
  <2> QED BY <2>1, <2>2
<1>3. /\ DOMAIN queries' = Queries /\ \A k \in Queries \ {c} : queries'[k] = queries[k]
      /\ queries'[c] = [at |-> "asked", q |-> q, list |-> n]
      /\ queries' = [k \in Queries |-> queries'[k]]
  <2> HIDE DEF a, b, n
  <2>1. CASE Asks(c) /\ q = queries[c].q
    BY <1>1, <1>2, <2>1 DEF Asks, b
  <2>2. CASE AsksFor(c, q)
    BY <1>1, <1>2, <2>2 DEF AsksFor
  <2> QED BY <2>1, <2>2
<1>4. \A k \in Queries : queries'[k] = [at |-> queries'[k].at, q |-> queries'[k].q,
                                        list |-> queries'[k].list]
  BY <1>3 DEF AQueries
<1>5. AQueries'
  BY <1>3, <1>4 DEF AQueries
<1> QED BY <1>3, <1>5

LEMMA QuerySet ==
  ASSUME AQueries, NEW c \in Queries, NEW at, NEW q, NEW answer, Becomes(c, at, q, answer)
  PROVE  /\ AQueries' /\ \A k \in Queries \ {c} : queries'[k] = queries[k]
         /\ queries'[c] = [at |-> at, q |-> q, list |-> answer]
<1>1. /\ DOMAIN queries' = Queries /\ queries' = [k \in Queries |-> queries'[k]]
      /\ \A k \in Queries \ {c} : queries'[k] = queries[k]
      /\ queries'[c] = [at |-> at, q |-> q, list |-> answer]
  BY DEF AQueries, Becomes
<1>2. \A k \in Queries : queries'[k] = [at |-> queries'[k].at, q |-> queries'[k].q,
                                        list |-> queries'[k].list]
  BY <1>1 DEF AQueries
<1> QED BY <1>1, <1>2 DEF AQueries

(* A request of the terminal.                                              *)
LEMMA CommandDoes ==
  ASSUME HistoryInv, ui = "terminal", UNCHANGED <<ui, first>>, NEW q \in Questions, loadHistoryCmd(q),
         window' \in Windows,
         window'.object = 0 \/ q = Question(window'.object, window'.filter, q.limit)
  PROVE  HistoryInv'
<1>1. PICK c \in Queries :
        /\ queries[c].at = "none"
        /\ queries' = [queries EXCEPT ![c].at = "asked", ![c].q = q]
  BY DEF loadHistoryCmd
<1>2. AQueries /\ crossed' = (UnderWay # {})
  BY DEF loadHistoryCmd, HistoryInv
<1>3. /\ AQueries' /\ \A k \in Queries \ {c} : queries'[k] = queries[k]
      /\ queries'[c] = [at |-> "asked", q |-> q, list |-> queries[c].list]
  <2>1. AsksFor(c, q)
    BY <1>1 DEF AsksFor
  <2> QED BY <1>2, <2>1, QueryAsked
<1>4. /\ crossed' \in BOOLEAN /\ queries'[c].at = "asked" /\ queries'[c].q = q
      /\ \A k \in Queries : queries'[k].q \in Questions
      /\ ~ crossed' => \A k \in Queries \ {c} : queries'[k].at = "none"
  <2>1. crossed' \in BOOLEAN /\ queries'[c].at = "asked" /\ queries'[c].q = q
    BY <1>2, <1>3
  <2>2. \A k \in Queries : queries'[k].q \in Questions
    BY <1>3, <2>1 DEF HistoryInv
  <2>3. ~ crossed' => \A k \in Queries \ {c} : queries'[k].at = "none"
    BY <1>2, <1>3 DEF UnderWay
  <2> QED BY <2>1, <2>2, <2>3
<1> QED BY <1>3, <1>4 DEF HistoryInv, Querying, Open

(* A request of the dialog: the window w it is made for is the one on the  *)
(* screen, but for its filter, limit and flags.                            *)
LEMMA RequestDoes ==
  ASSUME HistoryInv, ui # "terminal", UNCHANGED <<ui, first>>, ~ resized', NEW w \in Windows, w.object # 0,
         w.busy \/ \A c \in Queries : ~ Querying(c), reloadHistory(w)
  PROVE  HistoryInv'
<1>1. CASE w.busy
  <2>1. window' = w /\ crossed' = TRUE /\ UNCHANGED queries
    BY <1>1 DEF reloadHistory
  <2>2. AQueries'
    BY <2>1 DEF HistoryInv, AQueries
  <2> QED BY <1>1, <2>1, <2>2 DEF HistoryInv, Querying, Open
<1>2. CASE ~ w.busy
  <2>1. PICK c \in Queries : queries[c].at = "none" /\ Asks(c)
    BY <1>2 DEF reloadHistory, Asks
  <2>2. window' = [w EXCEPT !.busy = TRUE] /\ crossed' = FALSE /\ AQueries
    BY <1>2 DEF reloadHistory, HistoryInv
  <2>3. window' \in Windows /\ window'.object = w.object /\ window'.busy
    BY <2>2 DEF Windows
  <2>4. /\ AQueries' /\ \A k \in Queries \ {c} : queries'[k] = queries[k]
        /\ queries'[c] = [at |-> "asked", q |-> queries[c].q, list |-> queries[c].list]
    BY <2>1, <2>2, QueryAsked
  <2>5. /\ queries'[c].at = "asked" /\ \A k \in Queries : queries'[k].q \in Questions
        /\ \A k \in Queries \ {c} : queries'[k].at = "none"
    BY <1>2, <2>4 DEF HistoryInv, Querying
  <2> QED BY <2>2, <2>3, <2>4, <2>5 DEF HistoryInv, Querying, Open
<1> QED BY <1>1, <1>2

LEMMA ReloadDoes ==
  ASSUME HistoryInv, UNCHANGED <<ui, first>>, NEW w \in Windows, w.object # 0, NEW size \in Nat,
         resized' => resized,
         ui # "terminal" => w.busy \/ \A c \in Queries : ~ Querying(c),
         Reload(w, size)
  PROVE  HistoryInv'
<1>1. CASE ui = "terminal"
  <2> DEFINE q == Question(w.object, w.filter, size)
  <2>1. loadHistoryCmd(q) /\ window' = [w EXCEPT !.busy = TRUE]
    BY <1>1 DEF Reload
  <2>2. /\ window' \in Windows /\ window'.object = w.object /\ window'.filter = w.filter
    BY <2>1 DEF Windows
  <2>3. q \in Questions /\ q.limit = size
    BY DEF Question, Questions, Windows
  <2>4. q = Question(window'.object, window'.filter, q.limit)
    BY <2>2, <2>3
  <2> HIDE DEF q
  <2> QED BY <1>1, <2>1, <2>2, <2>3, <2>4, CommandDoes
<1>2. CASE ui # "terminal"
  <2> DEFINE v == [w EXCEPT !.limit = size, !.allShown = FALSE]
  <2>1. reloadHistory(v) /\ ~ resized'
    BY <1>2 DEF Reload, HistoryInv
  <2>2. v \in Windows /\ v.object = w.object /\ (w.busy => v.busy)
    BY DEF Windows
  <2> HIDE DEF v
  <2> QED BY <1>2, <2>1, <2>2, RequestDoes
<1> QED BY <1>1, <1>2

LEMMA HistoryStep ==
  ASSUME HistoryInv, UNCHANGED ui, HistoryNext \/ UNCHANGED historyVars
  PROVE  HistoryInv'
<1>1. /\ window \in Windows /\ AQueries /\ crossed \in BOOLEAN /\ first \in Nat
      /\ \A c \in Queries : queries[c].q \in Questions
      /\ ui # "terminal" => ~ resized
      /\ ui # "terminal" => \/ Open /\ window.busy
                            \/ \A c \in Queries : ~ Querying(c)
  BY DEF HistoryInv
<1>2. CASE UNCHANGED <<window, rows, queries, first, crossed, resized>>
  BY <1>2 DEF HistoryInv, AQueries, Querying, Open, Asked, RowsAnswer
<1>3. CASE NewEvent \/ UNCHANGED historyVars
  BY <1>2, <1>3 DEF NewEvent, historyVars
<1>4. CASE OpenHistory
  <2> DEFINE v(o) == [Closed EXCEPT !.object = o, !.limit = first, !.live = ui = "windows"]
  <2>1. PICK o \in Panels : Reload(v(o), first)
    BY <1>4 DEF OpenHistory
  <2> DEFINE w == v(o)
  <2>2. w \in Windows /\ w.object = o
    BY <1>1 DEF Closed, Windows, Filters
  <2>3. o # 0 /\ ~ Open /\ UNCHANGED first /\ ~ resized'
    BY <1>4, HistoryAssumption DEF OpenHistory
  <2>4. Reload(w, first)
    BY <2>1
  <2> HIDE DEF w
  <2> QED BY <1>1, <2>2, <2>3, <2>4, ReloadDoes
<1>5. CASE CloseHistory
  <2>1. /\ window' = [Closed EXCEPT !.busy = ui = "terminal" /\ window.busy]
        /\ UNCHANGED <<first, crossed>> /\ ~ resized'
        /\ IF ui = "terminal" THEN UNCHANGED queries ELSE queries' = [c \in Queries |-> NoQuery]
    BY <1>5 DEF CloseHistory
  <2>2. window' \in Windows /\ window'.object = 0
    BY <2>1 DEF Closed, Windows, Filters
  <2>3. CASE ui = "terminal"
    BY <1>1, <2>1, <2>2, <2>3 DEF HistoryInv, AQueries, Querying, Open
  <2>4. CASE ui # "terminal"
    <3>1. Nothing.q \in Questions
      BY DEF Nothing, Question, Questions, Filters
    <3>2. AQueries' /\ \A c \in Queries : queries'[c].at = "none" /\ queries'[c].q \in Questions
      BY <2>1, <2>4, <3>1 DEF AQueries, NoQuery
    <3> QED BY <1>1, <2>1, <2>2, <3>2 DEF HistoryInv, Querying, Open
  <2> QED BY <2>3, <2>4
<1>6. CASE SetFilter
  <2>1. PICK f \in Filters : Reload([window EXCEPT !.filter = f], first)
    BY <1>6 DEF SetFilter
  <2> DEFINE w == [window EXCEPT !.filter = f]
  <2>2. w \in Windows /\ w.object = window.object /\ (window.busy => w.busy)
    BY <1>1 DEF Windows
  <2>3. window.object # 0 /\ UNCHANGED <<first, resized>>
    BY <1>6 DEF SetFilter, Open
  <2>4. Reload(w, first)
    BY <2>1
  <2> HIDE DEF w
  <2> QED BY <1>1, <2>2, <2>3, <2>4, ReloadDoes
<1>7. CASE Search
  <2>1. PICK f \in Filters : loadHistoryCmd(Question(window.object, f, first))
    BY <1>7 DEF Search
  <2>2. ui = "terminal" /\ UNCHANGED first /\ window' = [Closed EXCEPT !.busy = TRUE]
    BY <1>7 DEF Search
  <2>3. window' \in Windows /\ window'.object = 0
    BY <2>2 DEF Closed, Windows, Filters
  <2>4. Question(window.object, f, first) \in Questions
    BY <1>1 DEF Question, Questions, Windows
  <2> QED BY <2>1, <2>2, <2>3, <2>4, CommandDoes
<1>8. CASE More
  <2>1. Reload(window, window.limit + HistoryChunk) /\ window.object # 0 /\ UNCHANGED <<first, resized>>
    BY <1>8 DEF More, Open
  <2>2. window.limit + HistoryChunk \in Nat
    BY <1>1, HistoryAssumption DEF Windows
  <2> QED BY <1>1, <2>1, <2>2, ReloadDoes
<1>9. CASE SetLive
  <2>1. ui = "windows" /\ window.object # 0 /\ UNCHANGED <<rows, first, resized>>
    BY <1>9 DEF SetLive, Open
  <2>2. CASE window' = [window EXCEPT !.live = FALSE] /\ UNCHANGED <<queries, crossed>>
    <3>1. /\ window' \in Windows /\ window'.object = window.object
          /\ window'.filter = window.filter /\ window'.limit = window.limit
          /\ window.busy => window'.busy
          /\ window'.allShown => window.allShown
      BY <1>1, <2>2 DEF Windows
    <3> QED BY <1>1, <2>1, <2>2, <3>1 DEF HistoryInv, AQueries, Querying, Open, Asked, Question,
                                          RowsAnswer
  <2>3. CASE reloadHistory([window EXCEPT !.live = TRUE])
    <3> DEFINE w == [window EXCEPT !.live = TRUE]
    <3>1. w \in Windows /\ w.object = window.object /\ (window.busy => w.busy)
      BY <1>1 DEF Windows
    <3>2. reloadHistory(w)
      BY <2>3
    <3> HIDE DEF w
    <3> QED BY <1>1, <2>1, <3>1, <3>2, RequestDoes
  <2> QED BY <1>9, <2>2, <2>3 DEF SetLive
<1>10. CASE Poll
  <2>1. ui = "windows" /\ window.object # 0 /\ reloadHistory(window) /\ UNCHANGED <<first, resized>>
    BY <1>10 DEF Poll, Open
  <2> QED BY <1>1, <2>1, RequestDoes
<1>11. CASE AutoLoad
  <2> DEFINE w == [window EXCEPT !.limit = @ + HistoryChunk]
  <2>1. ui = "windows" /\ window.object # 0 /\ reloadHistory(w) /\ UNCHANGED <<first, resized>>
    BY <1>11 DEF AutoLoad, Open
  <2>2. w \in Windows /\ w.object = window.object /\ (window.busy => w.busy)
    BY <1>1, HistoryAssumption DEF Windows
  <2> HIDE DEF w
  <2> QED BY <1>1, <2>1, <2>2, RequestDoes
<1>12. ASSUME NEW c \in Queries, Query(c)
       PROVE  HistoryInv'
  <2> DEFINE q == IF ui = "terminal" THEN queries[c].q ELSE Asked
             new == FilterDeviceHistory(q)
  <2>1. /\ queries[c].at = "asked" /\ UNCHANGED <<window, rows, first, crossed, resized>>
        /\ queries' = [queries EXCEPT ![c] = [at |-> "answered", q |-> q, list |-> new]]
    BY <1>12 DEF Query
  <2>2. q \in Questions
    BY <1>1 DEF Asked, Question, Questions, Windows
  <2>3. (ui = "terminal" => q = queries[c].q) /\ (ui # "terminal" => q = Asked)
    OBVIOUS
  <2> HIDE DEF q, new
  <2>4. /\ AQueries' /\ \A k \in Queries \ {c} : queries'[k] = queries[k]
        /\ queries'[c] = [at |-> "answered", q |-> q, list |-> new]
    <3>1. Becomes(c, "answered", q, new)
      BY <2>1 DEF Becomes
    <3> QED BY <1>1, <3>1, QuerySet
  <2>5. queries'[c].at = "answered" /\ queries'[c].q = q /\ Asked' = Asked /\ Open' = Open
    BY <2>1, <2>4 DEF Asked, Open
  <2> QED BY <1>1, <2>1, <2>2, <2>3, <2>4, <2>5 DEF HistoryInv, Querying
<1>13. ASSUME NEW c \in Queries, Show(c)
       PROVE  HistoryInv'
  <2> DEFINE q == queries[c].q
             answer == queries[c].list
             size == IF ui = "terminal" THEN q.limit ELSE window.limit
  <2>1. /\ queries[c].at = "answered" /\ UNCHANGED <<first, crossed>> /\ (resized' => resized)
        /\ rows' = IF Open THEN [q |-> q, list |-> answer] ELSE rows
        /\ window' = [window EXCEPT !.busy = FALSE,
                                    !.limit = IF Open THEN size ELSE @,
                                    !.allShown = Open /\ Len(answer) < size]
        /\ queries' = [queries EXCEPT ![c] = NoQuery]
    BY <1>13 DEF Show
  <2>2. q \in Questions /\ size \in Nat
    BY <1>1 DEF Questions, Windows
  <2> HIDE DEF q, answer, size
  <2>3. /\ window' \in Windows /\ window'.object = window.object
        /\ window'.filter = window.filter
        /\ Open => window'.limit = size
        /\ window'.allShown => Len(answer) < size
    BY <1>1, <2>1, <2>2 DEF Windows, Open
  <2>4. /\ AQueries' /\ \A k \in Queries \ {c} : queries'[k] = queries[k]
        /\ queries'[c] = [at |-> "none", q |-> Nothing.q, list |-> <<>>]
    <3>1. Becomes(c, "none", Nothing.q, <<>>)
      BY <2>1 DEF Becomes, NoQuery
    <3> QED BY <1>1, <3>1, QuerySet
  <2>5. Nothing.q \in Questions
    BY DEF Nothing, Question, Questions, Filters
  <2>6. queries'[c].at = "none" /\ queries'[c].q \in Questions /\ Open' = Open
    BY <2>3, <2>4, <2>5 DEF Open
  <2>7. ~ crossed \/ ui # "terminal" => \A k \in Queries : queries'[k].at = "none"
    BY <2>1, <2>4, <2>6 DEF HistoryInv, Querying
  <2>8. ASSUME ~ crossed, Open
        PROVE  RowsAnswer'
    <3>1. rows' = [q |-> q, list |-> answer] /\ window'.limit = size
      BY <2>1, <2>3, <2>8
    <3>2. q = Question(window.object, window.filter, size)
      <4>1. CASE ui = "terminal"
        BY <2>1, <2>8, <4>1 DEF HistoryInv, Querying, q, size
      <4>2. CASE ui # "terminal"
        BY <2>1, <2>8, <4>2 DEF HistoryInv, Asked, q, size
      <4> QED BY <4>1, <4>2
    <3>3. rows'.q = Question(window'.object, window'.filter, size) /\ rows'.q.limit = size
      BY <2>3, <3>1, <3>2 DEF Question
    <3> QED BY <2>3, <3>1, <3>3 DEF RowsAnswer
  <2>9. \A k \in Queries : queries'[k].q \in Questions
    BY <1>1, <2>4, <2>6
  <2> QED BY <1>1, <2>1, <2>3, <2>4, <2>6, <2>7, <2>8, <2>9 DEF HistoryInv, Querying
<1>14. ASSUME NEW c \in Queries, Refused(c)
       PROVE  HistoryInv'
  <2>1. /\ queries[c].at = "asked" /\ crossed' = TRUE /\ UNCHANGED <<first, resized>>
        /\ queries' = [queries EXCEPT ![c] = NoQuery]
        /\ window' = [window EXCEPT !.busy = FALSE]
    BY <1>14 DEF Refused
  <2>2. window' \in Windows
    BY <1>1, <2>1 DEF Windows
  <2>3. /\ AQueries' /\ \A k \in Queries \ {c} : queries'[k] = queries[k]
        /\ queries'[c] = [at |-> "none", q |-> Nothing.q, list |-> <<>>]
    <3>1. Becomes(c, "none", Nothing.q, <<>>)
      BY <2>1 DEF Becomes, NoQuery
    <3> QED BY <1>1, <3>1, QuerySet
  <2>4. Nothing.q \in Questions
    BY DEF Nothing, Question, Questions, Filters
  <2>5. queries'[c].at = "none" /\ \A k \in Queries : queries'[k].q \in Questions
    BY <1>1, <2>3, <2>4
  <2>6. ui # "terminal" => \A k \in Queries : queries'[k].at = "none"
    BY <2>1, <2>3, <2>5 DEF HistoryInv, Querying
  <2> QED BY <1>1, <2>1, <2>2, <2>3, <2>5, <2>6 DEF HistoryInv, Querying
<1>15. CASE LimitSaved
  <2>1. first' \in Nat /\ UNCHANGED <<rows, queries, crossed>>
    BY <1>15, HistoryAssumption DEF LimitSaved
  <2>2. CASE ui = "terminal" /\ Open
    <3>1. window' = [window EXCEPT !.limit = first'] /\ resized' = TRUE
      BY <1>15, <2>2 DEF LimitSaved
    <3>2. /\ window' \in Windows /\ window'.object = window.object
          /\ window'.filter = window.filter /\ window'.limit = first'
          /\ window'.allShown = window.allShown
      BY <1>1, <2>1, <3>1 DEF Windows
    <3>3. RowsAnswer => RowsAnswer'
      BY <2>1, <3>1, <3>2 DEF RowsAnswer
    <3> QED BY <1>1, <2>1, <2>2, <3>2, <3>3 DEF HistoryInv, AQueries, Querying, Open
  <2>3. CASE ~ (ui = "terminal" /\ Open)
    <3>1. UNCHANGED <<window, resized>>
      BY <1>15, <2>3 DEF LimitSaved
    <3>2. CASE ~ Open
      BY <2>1, <3>1, <3>2 DEF HistoryInv, AQueries, Querying, Open
    <3>3. CASE ui # "terminal"
      BY <1>1, <2>1, <3>1, <3>3 DEF HistoryInv, AQueries, Querying, Open, Asked, RowsAnswer
    <3> QED BY <2>3, <3>2, <3>3
  <2> QED BY <2>2, <2>3
<1> QED BY <1>3, <1>4, <1>5, <1>6, <1>7, <1>8, <1>9, <1>10, <1>11, <1>12, <1>13, <1>14, <1>15
        DEF HistoryNext

LEMMA AnswersShown == HistoryInv => RowsAreTheAnswer
BY DEF HistoryInv, RowsAreTheAnswer, UnderWay, Querying, RowsAnswer

-----------------------------------------------------------------------------
(* The keys of the terminal.  Every cursor is on a row, unless it was      *)
(* moved down an empty list; and the text being edited belongs to the row  *)
(* under the cursor, as it was opened, unless an answer came.              *)
Texts == [Forms -> [Fields -> Words]]
Cursors == [Plain \cup Forms -> Int]
OnRows == \A l \in Plain : cursor[l] \in 0 .. maxInt(0, Cardinality(rowsOf[l]) - 1)

TerminalInv ==
  /\ text \in Texts /\ cursor \in Cursors /\ DOMAIN rowsOf = Plain
  /\ \A l \in Plain : IsFiniteSet(rowsOf[l])
  /\ \A which \in Forms : cursor[which] \in 0 .. 1
  /\ tab \in Tabs /\ underflow \in BOOLEAN
  /\ ~ underflow => ended # "panic" /\ OnRows
  /\ edit = [opened |-> edit.opened, landed |-> edit.landed, answered |-> edit.answered]
  /\ edit.landed \in {0, edit.opened} \/ edit.answered
  /\ mode = "edit" =>
       /\ editKey \in Forms \cup {"colors"}
       /\ edit.answered \/ edit.opened = IF editKey = "colors" THEN UnderCursor("colors")
                                         ELSE cursor[editKey] + 1

LEMMA TerminalStarts == TerminalInit => TerminalInv
<1> SUFFICES ASSUME TerminalInit PROVE TerminalInv
  OBVIOUS
<1>1. /\ mode = "normal" /\ tab = "objects" /\ ended = "no" /\ underflow = FALSE
      /\ edit = NoEdit /\ cursor = [l \in Plain \cup Forms |-> 0]
  BY DEF TerminalInit
<1>2. text \in Texts
  BY ZenonT(60) DEF TerminalInit, Texts
<1>3. DOMAIN rowsOf = Plain /\ \A l \in Plain : rowsOf[l] \in {{}, {1, 2}, {2}}
  BY DEF TerminalInit
<1>4. IsFiniteSet({}) /\ IsFiniteSet({1, 2}) /\ IsFiniteSet({2})
  <2>1. IsFiniteSet({})
    BY FS_EmptySet
  <2>2. IsFiniteSet({2})
    BY FS_Singleton
  <2>3. IsFiniteSet({2} \cup {1}) /\ {2} \cup {1} = {1, 2}
    BY <2>2, FS_AddElement
  <2> QED BY <2>1, <2>2, <2>3
<1>5. \A l \in Plain : IsFiniteSet(rowsOf[l]) /\ Cardinality(rowsOf[l]) \in Nat
  BY <1>3, <1>4, FS_CardinalityType
<1>6. cursor \in Cursors /\ OnRows /\ \A which \in Forms : cursor[which] = 0
  BY <1>1, <1>5 DEF Cursors, OnRows, maxInt
<1>7. /\ edit = [opened |-> edit.opened, landed |-> edit.landed, answered |-> edit.answered]
      /\ edit.landed = 0
  BY <1>1 DEF NoEdit
<1>8. ended # "panic" /\ mode # "edit" /\ underflow \in BOOLEAN /\ tab \in Tabs
  BY <1>1 DEF Tabs
<1>9. \A which \in Forms : cursor[which] \in 0 .. 1
  BY <1>6
<1> QED BY <1>2, <1>3, <1>5, <1>6, <1>7, <1>8, <1>9 DEF TerminalInv

LEMMA ClampedOnRow ==
  ASSUME NEW index \in Int, NEW n \in Nat
  PROVE  /\ Clamped(index, n) \in Int
         /\ index >= 0 => Clamped(index, n) \in 0 .. maxInt(0, n - 1)
BY DEF Clamped, maxInt

(* A list that changes under its cursor.                                   *)
LEMMA ListDoes ==
  ASSUME TerminalInv, NEW l \in Plain, NEW new, IsFiniteSet(new), ListBecomes(l, new)
  PROVE  /\ DOMAIN rowsOf' = Plain /\ \A k \in Plain : IsFiniteSet(rowsOf'[k])
         /\ cursor' \in Cursors
         /\ \A k \in (Plain \cup Forms) \ {l} : cursor'[k] = cursor[k]
         /\ \A k \in Plain \ {l} : rowsOf'[k] = rowsOf[k]
         /\ ~ underflow => OnRows'
<1> DEFINE n == Cardinality(new)
           i == Clamped(cursor[l], n)
<1>1. n \in Nat
  BY FS_CardinalityType
<1>2. /\ rowsOf' = [rowsOf EXCEPT ![l] = new] /\ cursor' = [cursor EXCEPT ![l] = i]
      /\ cursor \in Cursors /\ DOMAIN rowsOf = Plain /\ cursor[l] \in Int
      /\ \A k \in Plain : IsFiniteSet(rowsOf[k])
  BY DEF ListBecomes, TerminalInv, Cursors
<1>3. i \in Int /\ (cursor[l] >= 0 => i \in 0 .. maxInt(0, n - 1))
  <2> HIDE DEF n
  <2> QED BY <1>1, <1>2, ClampedOnRow
<1> HIDE DEF i
<1>4. /\ DOMAIN rowsOf' = Plain /\ rowsOf'[l] = new /\ cursor' \in Cursors /\ cursor'[l] = i
      /\ \A k \in (Plain \cup Forms) \ {l} : cursor'[k] = cursor[k]
      /\ \A k \in Plain \ {l} : rowsOf'[k] = rowsOf[k]
  BY <1>2, <1>3 DEF Cursors
<1>5. ASSUME ~ underflow, NEW k \in Plain
      PROVE  cursor'[k] \in 0 .. maxInt(0, Cardinality(rowsOf'[k]) - 1)
  <2>1. OnRows
    BY <1>5 DEF TerminalInv
  <2>2. CASE k = l
    BY <1>3, <1>4, <2>1, <2>2 DEF OnRows
  <2>3. CASE k # l
    BY <1>4, <2>1, <2>3 DEF OnRows
  <2> QED BY <2>2, <2>3
<1>6. ~ underflow => OnRows'
  BY <1>5 DEF OnRows
<1> QED BY <1>2, <1>4, <1>6

LEMMA EnsuredField ==
  ASSUME NEW index \in 0 .. 1, NEW visible \in SUBSET Fields
  PROVE  Ensured(index, visible) \in 0 .. 1
<1> DEFINE least == CHOOSE i \in visible : \A j \in visible : i <= j
<1>1. visible # {} => least \in Fields
  <2>1. visible # {} => \E i \in visible : \A j \in visible : i <= j
    <3>1. CASE 1 \in visible
      BY <3>1 DEF Fields
    <3>2. CASE 1 \notin visible
      <4>1. visible \subseteq {2}
        BY <3>2 DEF Fields
      <4>2. \A j \in visible : j = 2
        BY <4>1
      <4>3. \A i, j \in visible : i <= j
        BY <4>2
      <4> QED BY <4>3
    <3> QED BY <3>1, <3>2
  <2> QED BY <2>1
<1> HIDE DEF least
<1>2. Ensured(index, visible) \in {0, index} \cup (IF visible # {} THEN {least - 1} ELSE {})
  BY DEF Ensured, least
<1> QED BY <1>1, <1>2 DEF Fields

(* A form that is built anew.                                              *)
LEMMA FormDoes ==
  ASSUME TerminalInv, NEW which \in Forms, NEW f \in [Fields -> Words], FormBecomes(which, f)
  PROVE  /\ text' \in Texts /\ cursor' \in Cursors
         /\ \A k \in (Plain \cup Forms) \ {which} : cursor'[k] = cursor[k]
         /\ \A k \in Forms : cursor'[k] \in 0 .. 1
<1> DEFINE i == Ensured(cursor[which], Visible(which, f))
<1>1. Visible(which, f) \in SUBSET Fields
  BY DEF Visible
<1>2. /\ text' = [text EXCEPT ![which] = f] /\ cursor' = [cursor EXCEPT ![which] = i]
      /\ text \in Texts /\ cursor \in Cursors /\ \A k \in Forms : cursor[k] \in 0 .. 1
  BY DEF FormBecomes, TerminalInv
<1>3. i \in 0 .. 1
  BY <1>1, <1>2, EnsuredField
<1> HIDE DEF i
<1>4. i \in Int
  BY <1>3
<1>5. text' \in Texts /\ cursor' \in Cursors
  BY <1>2, <1>4 DEF Texts, Cursors
<1> QED BY <1>2, <1>3, <1>5 DEF Cursors

(* A View of cursors that are on rows can be drawn.                        *)
LEMMA ViewDoes ==
  ASSUME View, OnRows'
  PROVE  ended' # "panic"
<1>1. \A l \in Plain : ~ (cursor'[l] < 0)
  BY DEF OnRows
<1> QED BY <1>1 DEF View, Plain

LEMMA SameRow ==
  ASSUME rowsOf'["colors"] = rowsOf["colors"], cursor'["colors"] = cursor["colors"]
  PROVE  UnderCursor("colors")' = UnderCursor("colors")
BY DEF UnderCursor

(* What there is to show of a step, once it is known what it does.         *)
LEMMA TerminalHolds ==
  ASSUME TerminalInv, text' \in Texts, cursor' \in Cursors, DOMAIN rowsOf' = Plain,
         \A l \in Plain : IsFiniteSet(rowsOf'[l]),
         \A which \in Forms : cursor'[which] \in 0 .. 1,
         tab' \in Tabs, underflow' \in BOOLEAN, ~ underflow' => ~ underflow,
         ~ underflow' => OnRows',
         View \/ (OnRows' => ended' # "panic"),
         edit' = [opened |-> edit'.opened, landed |-> edit'.landed, answered |-> edit'.answered],
         edit'.landed \in {0, edit'.opened} \/ edit'.answered,
         mode' = "edit" =>
           /\ editKey' \in Forms \cup {"colors"}
           /\ edit'.answered \/ edit'.opened = IF editKey' = "colors" THEN UnderCursor("colors")'
                                               ELSE cursor'[editKey'] + 1
  PROVE  TerminalInv'
<1>1. ~ underflow' => ended' # "panic"
  BY ViewDoes
<1> QED BY <1>1 DEF TerminalInv

(* The edit goes on, and its row stays where it is.                        *)
LEMMA EditKeeps ==
  ASSUME TerminalInv, UNCHANGED edit, mode' = "edit" => mode = "edit" /\ editKey' = editKey,
         mode' = "edit" =>
           /\ rowsOf'["colors"] = rowsOf["colors"] /\ cursor'["colors"] = cursor["colors"]
           /\ \A which \in Forms : cursor'[which] = cursor[which]
  PROVE  /\ edit' = [opened |-> edit'.opened, landed |-> edit'.landed,
                     answered |-> edit'.answered]
         /\ edit'.landed \in {0, edit'.opened} \/ edit'.answered
         /\ mode' = "edit" =>
              /\ editKey' \in Forms \cup {"colors"}
              /\ edit'.answered \/ edit'.opened = IF editKey' = "colors"
                                                  THEN UnderCursor("colors")'
                                                  ELSE cursor'[editKey'] + 1
<1>1. mode' = "edit" => UnderCursor("colors")' = UnderCursor("colors")
  BY SameRow
<1> QED BY <1>1 DEF TerminalInv

(* Nothing moves: neither a row nor a cursor, nor the edit.                *)
LEMMA TerminalRests ==
  ASSUME TerminalInv, UNCHANGED <<rowsOf, cursor, edit>>, text' \in Texts, tab' \in Tabs,
         underflow' = underflow, View \/ (OnRows' => ended' # "panic"),
         mode' = "edit" => mode = "edit" /\ editKey' = editKey
  PROVE  TerminalInv'
<1>1. /\ ~ underflow => OnRows'
      /\ \A l \in Plain : IsFiniteSet(rowsOf'[l])
      /\ \A which \in Forms : cursor'[which] \in 0 .. 1
      /\ cursor' \in Cursors /\ DOMAIN rowsOf' = Plain /\ underflow \in BOOLEAN
  BY DEF TerminalInv, OnRows
<1>2. mode' = "edit" =>
        /\ rowsOf'["colors"] = rowsOf["colors"] /\ cursor'["colors"] = cursor["colors"]
        /\ \A which \in Forms : cursor'[which] = cursor[which]
  OBVIOUS
<1>3. /\ edit' = [opened |-> edit'.opened, landed |-> edit'.landed,
                  answered |-> edit'.answered]
      /\ edit'.landed \in {0, edit'.opened} \/ edit'.answered
      /\ mode' = "edit" =>
           /\ editKey' \in Forms \cup {"colors"}
           /\ edit'.answered \/ edit'.opened = IF editKey' = "colors"
                                               THEN UnderCursor("colors")'
                                               ELSE cursor'[editKey'] + 1
  BY <1>2, EditKeeps
<1> QED BY <1>1, <1>3, TerminalHolds

(* A list changes; when it is the colours, no row is being edited.         *)
LEMMA ListChanges ==
  ASSUME TerminalInv, NEW l \in Plain, NEW new, IsFiniteSet(new), ListBecomes(l, new),
         UNCHANGED <<text, tab, underflow, edit>>, View,
         mode' = "edit" => l # "colors" /\ mode = "edit" /\ editKey' = editKey
  PROVE  TerminalInv'
<1>1. /\ DOMAIN rowsOf' = Plain /\ \A k \in Plain : IsFiniteSet(rowsOf'[k])
      /\ cursor' \in Cursors
      /\ \A k \in (Plain \cup Forms) \ {l} : cursor'[k] = cursor[k]
      /\ \A k \in Plain \ {l} : rowsOf'[k] = rowsOf[k]
      /\ ~ underflow => OnRows'
  BY ListDoes
<1>2. \A which \in Forms : cursor'[which] = cursor[which]
  BY <1>1 DEF Plain, Forms
<1>3. mode' = "edit" =>
        /\ rowsOf'["colors"] = rowsOf["colors"] /\ cursor'["colors"] = cursor["colors"]
        /\ \A which \in Forms : cursor'[which] = cursor[which]
  BY <1>1, <1>2 DEF Plain
<1>4. /\ edit' = [opened |-> edit'.opened, landed |-> edit'.landed,
                  answered |-> edit'.answered]
      /\ edit'.landed \in {0, edit'.opened} \/ edit'.answered
      /\ mode' = "edit" =>
           /\ editKey' \in Forms \cup {"colors"}
           /\ edit'.answered \/ edit'.opened = IF editKey' = "colors"
                                               THEN UnderCursor("colors")'
                                               ELSE cursor'[editKey'] + 1
  BY <1>3, EditKeeps
<1>5. /\ text' \in Texts /\ tab' \in Tabs /\ underflow' \in BOOLEAN
      /\ \A which \in Forms : cursor'[which] \in 0 .. 1
  BY <1>2 DEF TerminalInv
<1> QED BY <1>1, <1>4, <1>5, TerminalHolds

LEMMA AnswerNoted ==
  ASSUME TerminalInv, edit' = [edit EXCEPT !.answered = TRUE]
  PROVE  /\ edit' = [opened |-> edit'.opened, landed |-> edit'.landed,
                     answered |-> edit'.answered]
         /\ edit'.answered
<1> DEFINE a == edit.opened
           b == edit.landed
           n == edit.answered
           s == [opened |-> a, landed |-> b, answered |-> n]
<1>1. edit = s
  BY DEF TerminalInv
<1>2. ASSUME NEW x
      PROVE  [s EXCEPT !.answered = x] = [opened |-> a, landed |-> b, answered |-> x]
  <2> HIDE DEF a, b, n
  <2> QED OBVIOUS
<1> HIDE DEF a, b, n, s
<1>3. edit' = [opened |-> a, landed |-> b, answered |-> TRUE]
  BY <1>1, <1>2
<1> QED BY <1>3

LEMMA ColorsLoad ==
  ASSUME TerminalInv, loadColors, View
  PROVE  TerminalInv'
<1>1. PICK new \in {rowsOf["colors"], Types} : ListBecomes("colors", new)
  BY DEF loadColors
<1>2. UNCHANGED <<mode, tab, editKey, text, underflow>> /\ edit' = [edit EXCEPT !.answered = TRUE]
  BY DEF loadColors, screen
<1>3. IsFiniteSet(new)
  BY TerminalAssumption DEF TerminalInv, Plain
<1>4. /\ DOMAIN rowsOf' = Plain /\ \A k \in Plain : IsFiniteSet(rowsOf'[k])
      /\ cursor' \in Cursors
      /\ \A k \in (Plain \cup Forms) \ {"colors"} : cursor'[k] = cursor[k]
      /\ ~ underflow => OnRows'
  <2>1. "colors" \in Plain
    BY DEF Plain
  <2> QED BY <1>1, <1>3, <2>1, ListDoes
<1>5. \A which \in Forms : cursor'[which] \in 0 .. 1
  BY <1>4 DEF Forms, TerminalInv
<1>6. /\ edit' = [opened |-> edit'.opened, landed |-> edit'.landed,
                  answered |-> edit'.answered]
      /\ edit'.answered
  BY <1>2, AnswerNoted
<1>7. /\ text' \in Texts /\ tab' \in Tabs /\ underflow' \in BOOLEAN
      /\ mode' = "edit" => editKey' \in Forms \cup {"colors"}
  BY <1>2 DEF TerminalInv
<1> QED BY <1>2, <1>4, <1>5, <1>6, <1>7, TerminalHolds

(* A form that becomes another, while no field of it is edited or while an *)
(* answer is noted.                                                        *)
LEMMA FormChanges ==
  ASSUME TerminalInv, NEW which \in Forms, NEW f \in [Fields -> Words], FormBecomes(which, f),
         UNCHANGED <<tab, editKey, rowsOf, underflow>>, View,
         \/ edit' = edit /\ mode' # "edit"
         \/ edit' = [edit EXCEPT !.answered = TRUE] /\ mode' = mode
  PROVE  TerminalInv'
<1>1. /\ text' \in Texts /\ cursor' \in Cursors
      /\ \A k \in (Plain \cup Forms) \ {which} : cursor'[k] = cursor[k]
      /\ \A k \in Forms : cursor'[k] \in 0 .. 1
  BY FormDoes
<1>2. \A k \in Plain : cursor'[k] = cursor[k]
  BY <1>1 DEF Plain, Forms
<1>3. /\ DOMAIN rowsOf' = Plain /\ \A l \in Plain : IsFiniteSet(rowsOf'[l])
      /\ tab' \in Tabs /\ underflow' \in BOOLEAN /\ (~ underflow' => OnRows')
  BY <1>2 DEF TerminalInv, OnRows
<1>4. /\ edit' = [opened |-> edit'.opened, landed |-> edit'.landed,
                  answered |-> edit'.answered]
      /\ edit'.landed \in {0, edit'.opened} \/ edit'.answered
      /\ mode' = "edit" => editKey' \in Forms \cup {"colors"} /\ edit'.answered
  <2>1. CASE edit' = edit /\ mode' # "edit"
    BY <2>1 DEF TerminalInv
  <2>2. CASE edit' = [edit EXCEPT !.answered = TRUE] /\ mode' = mode
    <3>1. /\ edit' = [opened |-> edit'.opened, landed |-> edit'.landed,
                      answered |-> edit'.answered]
          /\ edit'.answered
      BY <2>2, AnswerNoted
    <3> QED BY <2>2, <3>1 DEF TerminalInv
  <2> QED BY <2>1, <2>2
<1> QED BY <1>1, <1>3, <1>4, TerminalHolds

LEMMA CursorMoves ==
  ASSUME TerminalInv, NEW k \in Plain \cup Forms, NEW i \in Int,
         cursor' = [cursor EXCEPT ![k] = i], mode' # "edit",
         UNCHANGED <<tab, rowsOf, text, edit>>, View, underflow' \in BOOLEAN,
         ~ underflow' => ~ underflow,
         k \in Forms => i \in 0 .. 1,
         k \in Plain /\ ~ underflow' => i \in 0 .. maxInt(0, Cardinality(rowsOf[k]) - 1)
  PROVE  TerminalInv'
<1>1. /\ cursor' \in Cursors /\ cursor'[k] = i
      /\ \A j \in (Plain \cup Forms) \ {k} : cursor'[j] = cursor[j]
  BY DEF TerminalInv, Cursors
<1>2. \A which \in Forms : cursor'[which] \in 0 .. 1
  BY <1>1 DEF TerminalInv
<1>3. ~ underflow' => OnRows'
  <2> SUFFICES ASSUME ~ underflow', NEW l \in Plain
               PROVE  cursor'[l] \in 0 .. maxInt(0, Cardinality(rowsOf[l]) - 1)
    BY DEF OnRows
  <2>1. CASE l = k
    BY <1>1, <2>1
  <2>2. CASE l # k
    BY <1>1, <2>2 DEF TerminalInv, OnRows
  <2> QED BY <2>1, <2>2
<1>4. /\ text' \in Texts /\ tab' \in Tabs /\ DOMAIN rowsOf' = Plain
      /\ \A l \in Plain : IsFiniteSet(rowsOf'[l])
      /\ edit' = [opened |-> edit'.opened, landed |-> edit'.landed, answered |-> edit'.answered]
      /\ edit'.landed \in {0, edit'.opened} \/ edit'.answered
  BY DEF TerminalInv
<1> QED BY <1>1, <1>2, <1>3, <1>4, TerminalHolds

LEMMA FieldsAreTwo == Cardinality(Fields) = 2
<1>1. Cardinality({1}) = 1 /\ IsFiniteSet({1})
  BY FS_Singleton
<1>2. Cardinality({1} \cup {2}) = 1 + 1
  <2>1. 2 \notin {1}
    OBVIOUS
  <2> QED BY <1>1, <2>1, FS_AddElement
<1>3. Fields = {1} \cup {2}
  BY DEF Fields
<1> QED BY <1>2, <1>3

Landing(start, dir, visible) ==
  LET hops == {k \in 1 .. 2 : ((start + dir * k) % 2) + 1 \in visible}
      hop == CHOOSE k \in hops : \A j \in hops : k <= j
  IN IF hops = {} THEN start ELSE (start + dir * hop) % 2

LEMMA HopLands ==
  ASSUME NEW start \in 0 .. 1, NEW dir \in {1, -1}, NEW visible
  PROVE  Landing(start, dir, visible) \in 0 .. 1
<1> DEFINE hops == {k \in 1 .. 2 : ((start + dir * k) % 2) + 1 \in visible}
           hop == CHOOSE k \in hops : \A j \in hops : k <= j
<1>1. hops \subseteq {1, 2}
  OBVIOUS
<1> HIDE DEF hops
<1>2. hops # {} => hop \in 1 .. 2
  <2>1. hops # {} => \E k \in hops : \A j \in hops : k <= j
    <3>1. CASE 1 \in hops
      BY <1>1, <3>1
    <3>2. CASE 1 \notin hops
      <4>1. \A j \in hops : j = 2
        BY <1>1, <3>2
      <4>2. \A i, j \in hops : i <= j
        BY <4>1
      <4> QED BY <4>2
    <3> QED BY <3>1, <3>2
  <2>2. hops # {} => hop \in hops
    BY <2>1
  <2>3. \A k \in hops : k \in 1 .. 2
    BY <1>1
  <2> HIDE DEF hop
  <2> QED BY <2>2, <2>3
<1>3. hops # {} => start + dir * hop \in Int
  <2>1. hops # {} => hop = 1 \/ hop = 2
    BY <1>2
  <2>2. dir * 1 \in {1, -1} /\ dir * 2 \in {2, -2}
    OBVIOUS
  <2>3. hops # {} => dir * hop \in {1, -1, 2, -2}
    BY <2>1, <2>2
  <2>4. \A m \in {1, -1, 2, -2} : start + m \in Int
    OBVIOUS
  <2> QED BY <2>3, <2>4, Zenon
<1>4. \A i \in Int : i % 2 \in 0 .. 1
  OBVIOUS
<1>5. Landing(start, dir, visible) = IF hops = {} THEN start ELSE (start + dir * hop) % 2
  BY DEF Landing, hops
<1> HIDE DEF hop
<1> QED BY <1>3, <1>4, <1>5

LEMMA TerminalStep ==
  ASSUME TerminalInv, TerminalNext \/ UNCHANGED terminalVars
  PROVE  TerminalInv'
<1>1. /\ text \in Texts /\ cursor \in Cursors /\ tab \in Tabs /\ underflow \in BOOLEAN
      /\ \A l \in Plain : IsFiniteSet(rowsOf[l])
      /\ \A which \in Forms : cursor[which] \in 0 .. 1
  BY DEF TerminalInv
<1>2. \A new \in SUBSET {1, 2} : IsFiniteSet(new)
  <2>1. IsFiniteSet({2})
    BY FS_Singleton
  <2>2. IsFiniteSet({2} \cup {1}) /\ {2} \cup {1} = {1, 2}
    BY <2>1, FS_AddElement
  <2> QED BY <2>2, FS_Subset
<1>3. CASE ListsAnswer
  <2>1. PICK l \in {"objects", "events"}, new \in SUBSET {1, 2} : ListBecomes(l, new)
    BY <1>3 DEF ListsAnswer
  <2>2. UNCHANGED <<mode, tab, editKey, text, underflow, edit>> /\ View
    BY <1>3 DEF ListsAnswer, screen
  <2>3. l \in Plain /\ l # "colors"
    BY DEF Plain
  <2> QED BY <1>2, <2>1, <2>2, <2>3, ListChanges
<1>4. CASE historyMsg
  <2>1. PICK new \in SUBSET {1, 2} : ListBecomes("history", new)
    BY <1>4 DEF historyMsg
  <2>2. UNCHANGED <<mode, tab, editKey, text, underflow, edit>> /\ View
    BY <1>4 DEF historyMsg, screen
  <2>3. "history" \in Plain
    BY DEF Plain
  <2> QED BY <1>2, <2>1, <2>2, <2>3, ListChanges
<1>5. CASE colorSaveMsg \/ ReloadColors
  BY <1>5, ColorsLoad DEF colorSaveMsg, ReloadColors
<1>6. CASE FormAnswer
  <2>1. PICK which \in Forms, f \in [Fields -> Words] : FormBecomes(which, f)
    BY <1>6 DEF FormAnswer
  <2>2. UNCHANGED <<mode, tab, editKey, rowsOf, underflow>> /\ View
        /\ edit' = [edit EXCEPT !.answered = TRUE]
    BY <1>6 DEF FormAnswer, screen
  <2> QED BY <2>1, <2>2, FormChanges
<1>7. ASSUME NEW l \in Plain, Up(l)
      PROVE  TerminalInv'
  <2> DEFINE i == maxInt(0, cursor[l] - 1)
  <2>1. /\ mode' # "edit" /\ cursor' = [cursor EXCEPT ![l] = i] /\ View
        /\ UNCHANGED <<tab, rowsOf, text, edit, underflow>>
    BY <1>7 DEF Up, On, Pressed, screen
  <2>2. cursor[l] \in Int /\ Cardinality(rowsOf[l]) \in Nat
    BY <1>1, FS_CardinalityType DEF Cursors
  <2>3. i \in Int
    BY <2>2 DEF maxInt
  <2>4. ~ underflow => i \in 0 .. maxInt(0, Cardinality(rowsOf[l]) - 1)
    <3>1. ~ underflow => cursor[l] \in 0 .. maxInt(0, Cardinality(rowsOf[l]) - 1)
      BY DEF TerminalInv, OnRows
    <3> QED BY <2>2, <3>1 DEF maxInt
  <2>5. l \in Plain \cup Forms /\ l \notin Forms
    BY DEF Plain, Forms
  <2> HIDE DEF i
  <2> QED BY <1>1, <2>1, <2>3, <2>4, <2>5, CursorMoves
<1>8. ASSUME NEW l \in Plain, Down(l)
      PROVE  TerminalInv'
  <2> DEFINE i == minInt(Cardinality(rowsOf[l]) - 1, cursor[l] + 1)
  <2>1. /\ mode' # "edit" /\ cursor' = [cursor EXCEPT ![l] = i] /\ View
        /\ UNCHANGED <<tab, rowsOf, text, edit>>
        /\ underflow' = (underflow \/ rowsOf[l] = {})
    BY <1>8 DEF Down, On, Pressed, screen
  <2>2. cursor[l] \in Int /\ Cardinality(rowsOf[l]) \in Nat
    BY <1>1, FS_CardinalityType DEF Cursors
  <2>3. i \in Int
    BY <2>2 DEF minInt
  <2>4. /\ underflow' \in BOOLEAN /\ (~ underflow' => ~ underflow)
        /\ ~ underflow' => rowsOf[l] # {}
    BY <1>1, <2>1
  <2>5. rowsOf[l] # {} => Cardinality(rowsOf[l]) # 0
    BY <1>1, FS_EmptySet
  <2>6. ~ underflow' => i \in 0 .. maxInt(0, Cardinality(rowsOf[l]) - 1)
    <3>1. ~ underflow' => cursor[l] \in 0 .. maxInt(0, Cardinality(rowsOf[l]) - 1)
      BY <2>4 DEF TerminalInv, OnRows
    <3> QED BY <2>2, <2>4, <2>5, <3>1 DEF maxInt, minInt
  <2>7. l \in Plain \cup Forms /\ l \notin Forms
    BY DEF Plain, Forms
  <2> HIDE DEF i
  <2> QED BY <2>1, <2>3, <2>4, <2>6, <2>7, CursorMoves
<1>9. ASSUME NEW which \in Forms, NEW dir \in {1, -1}, Move(which, dir)
      PROVE  TerminalInv'
  <2> DEFINE visible == Visible(which, text[which])
             start == Ensured(cursor[which], visible)
             hops == {k \in 1 .. 2 : ((start + dir * k) % 2) + 1 \in visible}
             hop == CHOOSE k \in hops : \A j \in hops : k <= j
             i == IF hops = {} THEN start ELSE (start + dir * hop) % 2
  <2>1. /\ mode' # "edit" /\ View /\ UNCHANGED <<tab, rowsOf, text, edit, underflow>>
    BY <1>9 DEF Move, On, Pressed, screen
  <2>2. cursor' = [cursor EXCEPT ![which] = i]
    BY <1>9, FieldsAreTwo DEF Move
  <2>3. visible \in SUBSET Fields
    BY <1>1 DEF Visible, Texts
  <2> HIDE DEF visible
  <2>4. start \in 0 .. 1
    BY <1>1, <2>3, EnsuredField
  <2> HIDE DEF start
  <2>5. i \in 0 .. 1
    <3>1. i = Landing(start, dir, visible)
      BY DEF Landing
    <3> HIDE DEF i
    <3> QED BY <2>4, <3>1, HopLands
  <2> HIDE DEF i
  <2>6. i \in Int /\ which \in Plain \cup Forms /\ which \notin Plain
    BY <2>5 DEF Plain, Forms
  <2> QED BY <1>1, <2>1, <2>2, <2>5, <2>6, CursorMoves
<1>10. CASE FilterKey
  <2>1. PICK new \in SUBSET {1, 2} : ListBecomes("events", new)
    BY <1>10 DEF FilterKey
  <2>2. UNCHANGED <<mode, tab, editKey, text, underflow, edit>> /\ View
    BY <1>10 DEF FilterKey, screen
  <2>3. "events" \in Plain
    BY DEF Plain
  <2> QED BY <1>2, <2>1, <2>2, <2>3, ListChanges
<1>11. CASE SwitchTab \/ Quit \/ LeaveHistory \/ OpenSearch \/ Leave
  <2>1. UNCHANGED <<rowsOf, cursor, edit, text>> /\ underflow' = underflow
    BY <1>11 DEF SwitchTab, Quit, LeaveHistory, OpenSearch, Leave
  <2>2. View \/ ended' # "panic"
    BY <1>11 DEF SwitchTab, Quit, LeaveHistory, OpenSearch, Leave
  <2>3. mode' # "edit"
    BY <1>11 DEF SwitchTab, Quit, LeaveHistory, OpenSearch, Leave, Pressed, screen
  <2>4. tab' \in Tabs
    BY <1>1, <1>11 DEF SwitchTab, Quit, LeaveHistory, OpenSearch, Leave, screen
  <2> QED BY <1>1, <2>1, <2>2, <2>3, <2>4, TerminalRests
<1>12. CASE SaveColor
  <2>1. /\ UNCHANGED <<mode, tab, editKey, rowsOf, cursor, edit, text>> /\ underflow' = underflow
        /\ ended' = IF cursor["colors"] < 0 THEN "panic" ELSE "no"
    BY <1>12 DEF SaveColor, screen
  <2>2. OnRows' => ended' # "panic"
    BY <2>1 DEF OnRows, Plain
  <2> QED BY <1>1, <2>1, <2>2, TerminalRests
<1>13. CASE ShowHistory
  <2>1. /\ mode' = "history" /\ rowsOf' = [rowsOf EXCEPT !["history"] = {}]
        /\ cursor' = [cursor EXCEPT !["history"] = 0]
        /\ UNCHANGED <<tab, text, underflow, edit>> /\ View
    BY <1>13 DEF ShowHistory
  <2>2. /\ DOMAIN rowsOf' = Plain /\ rowsOf'["history"] = {}
        /\ \A l \in Plain \ {"history"} : rowsOf'[l] = rowsOf[l]
        /\ cursor' \in Cursors /\ cursor'["history"] = 0
        /\ \A l \in (Plain \cup Forms) \ {"history"} : cursor'[l] = cursor[l]
    BY <2>1 DEF TerminalInv, Cursors, Plain
  <2>3. IsFiniteSet({}) /\ Cardinality({}) = 0
    BY FS_EmptySet
  <2>4. \A l \in Plain : IsFiniteSet(rowsOf'[l])
    BY <1>1, <2>2, <2>3
  <2>5. \A which \in Forms : cursor'[which] \in 0 .. 1
    BY <1>1, <2>2 DEF Forms
  <2>6. ~ underflow => OnRows'
    <3> SUFFICES ASSUME ~ underflow, NEW l \in Plain
                 PROVE  cursor'[l] \in 0 .. maxInt(0, Cardinality(rowsOf'[l]) - 1)
      BY DEF OnRows
    <3>1. CASE l = "history"
      BY <2>2, <2>3, <3>1 DEF maxInt
    <3>2. CASE l # "history"
      BY <2>2, <3>2 DEF TerminalInv, OnRows
    <3> QED BY <3>1, <3>2
  <2>7. /\ text' \in Texts /\ tab' \in Tabs /\ underflow' \in BOOLEAN /\ mode' # "edit"
        /\ edit' = [opened |-> edit'.opened, landed |-> edit'.landed,
                    answered |-> edit'.answered]
        /\ edit'.landed \in {0, edit'.opened} \/ edit'.answered
    BY <2>1 DEF TerminalInv
  <2> QED BY <2>1, <2>2, <2>4, <2>5, <2>6, <2>7, TerminalHolds
<1>14. CASE OpenEdit
  <2> DEFINE row == IF tab = "colors" THEN UnderCursor(tab) ELSE cursor[tab] + 1
  <2>1. /\ mode' = "edit" /\ editKey' = tab /\ UNCHANGED <<tab, rowsOf, text, cursor, underflow>>
        /\ edit' = [opened |-> row, landed |-> 0, answered |-> FALSE]
        /\ ended' = IF cursor[tab] < 0 THEN "panic" ELSE "no"
    BY <1>14 DEF OpenEdit
  <2>2. tab \in Forms \cup {"colors"}
    BY <1>14 DEF OpenEdit, OnScreen, Forms
  <2>3. OnRows' => ended' # "panic"
    BY <1>1, <2>1, <2>2 DEF OnRows, Plain
  <2>4. UnderCursor("colors")' = UnderCursor("colors")
    BY <2>1, SameRow
  <2>5. row = IF editKey' = "colors" THEN UnderCursor("colors")' ELSE cursor'[editKey'] + 1
    BY <2>1, <2>4
  <2> HIDE DEF row
  <2>6. /\ edit' = [opened |-> edit'.opened, landed |-> edit'.landed,
                    answered |-> edit'.answered]
        /\ edit'.landed = 0 /\ edit'.opened = row
    BY <2>1
  <2>7. /\ text' \in Texts /\ cursor' \in Cursors /\ DOMAIN rowsOf' = Plain
        /\ \A l \in Plain : IsFiniteSet(rowsOf'[l])
        /\ \A which \in Forms : cursor'[which] \in 0 .. 1
        /\ tab' \in Tabs /\ underflow' \in BOOLEAN /\ (~ underflow' => ~ underflow)
        /\ ~ underflow' => OnRows'
    BY <2>1 DEF TerminalInv, OnRows
  <2> QED BY <2>1, <2>2, <2>3, <2>5, <2>6, <2>7, TerminalHolds
<1>15. CASE ChangeField
  <2>1. /\ tab \in Forms /\ mode' # "edit" /\ View
        /\ UNCHANGED <<mode, tab, editKey, rowsOf, underflow, edit>>
    BY <1>15 DEF ChangeField, Pressed, OnScreen, Forms, screen
  <2>2. ASSUME NEW w \in Words, text' = [text EXCEPT ![tab][cursor[tab] + 1] = w],
               UNCHANGED cursor
        PROVE  TerminalInv'
    <3>1. text' \in Texts
      BY <1>1, <2>2 DEF Texts
    <3> QED BY <1>1, <2>1, <2>2, <3>1, TerminalRests
  <2>3. ASSUME NEW f \in [Fields -> Words], FormBecomes(tab, f)
        PROVE  TerminalInv'
    BY <2>1, <2>3, FormChanges
  <2> QED BY <1>15, <2>2, <2>3 DEF ChangeField
<1>16. CASE applyEditedValue
  <2> DEFINE row == IF editKey = "colors" THEN UnderCursor(editKey) ELSE cursor[editKey] + 1
  <2>1. /\ mode = "edit" /\ mode' = "normal" /\ View
        /\ UNCHANGED <<tab, editKey, rowsOf, cursor, underflow>>
        /\ edit' = [edit EXCEPT !.landed = row]
        /\ \/ UNCHANGED text
           \/ \E w \in Words : text' = [text EXCEPT ![editKey][cursor[editKey] + 1] = w]
    BY <1>16 DEF applyEditedValue
  <2>2. text' \in Texts
    BY <1>1, <2>1 DEF Texts
  <2>3. edit.answered \/ edit.opened = row
    BY <2>1 DEF TerminalInv
  <2>4. /\ edit' = [opened |-> edit'.opened, landed |-> edit'.landed,
                    answered |-> edit'.answered]
        /\ edit'.landed \in {0, edit'.opened} \/ edit'.answered
    <3> DEFINE a == edit.opened
               b == edit.landed
               n == edit.answered
               s == [opened |-> a, landed |-> b, answered |-> n]
    <3>1. edit = s
      BY DEF TerminalInv
    <3>2. [s EXCEPT !.landed = row] = [opened |-> a, landed |-> row, answered |-> n]
      <4> HIDE DEF a, b, n, row
      <4> QED OBVIOUS
    <3>3. n \/ a = row
      BY <2>3
    <3> HIDE DEF a, b, n, s, row
    <3>4. edit' = [opened |-> a, landed |-> row, answered |-> n]
      BY <2>1, <3>1, <3>2
    <3> QED BY <3>3, <3>4
  <2>5. /\ cursor' \in Cursors /\ DOMAIN rowsOf' = Plain
        /\ \A l \in Plain : IsFiniteSet(rowsOf'[l])
        /\ \A which \in Forms : cursor'[which] \in 0 .. 1
        /\ tab' \in Tabs /\ underflow' \in BOOLEAN /\ (~ underflow' => ~ underflow)
        /\ ~ underflow' => OnRows'
    BY <2>1 DEF TerminalInv, OnRows
  <2> QED BY <2>1, <2>2, <2>4, <2>5, TerminalHolds
<1>17. CASE applySearch
  <2>1. /\ mode' = "normal" /\ UNCHANGED <<tab, editKey, underflow, edit>> /\ View
    BY <1>17 DEF applySearch
  <2>2. CASE editKey \in Forms
    <3>0. editKey \notin {"objects", "events"}
      BY <2>2 DEF Forms
    <3>1. FormBecomes(editKey, text[editKey]) /\ UNCHANGED rowsOf
      BY <1>17, <2>2, <3>0 DEF applySearch
    <3>2. text[editKey] \in [Fields -> Words]
      BY <1>1, <2>2 DEF Texts
    <3> QED BY <2>1, <2>2, <3>1, <3>2, FormChanges
  <2>3. CASE editKey \in {"objects", "events"}
    <3>1. editKey \notin Forms /\ editKey \in Plain
      BY <2>3 DEF Forms, Plain
    <3>2. PICK new \in SUBSET {1, 2} : ListBecomes(editKey, new)
      BY <1>17, <2>3, <3>1 DEF applySearch
    <3>3. UNCHANGED text
      BY <1>17, <2>3, <3>1 DEF applySearch
    <3> QED BY <1>2, <2>1, <3>1, <3>2, <3>3, ListChanges
  <2>4. CASE editKey \notin Forms \cup {"objects", "events"}
    <3>1. UNCHANGED <<rowsOf, text, cursor>>
      BY <1>17, <2>4 DEF applySearch
    <3> QED BY <1>1, <2>1, <3>1, TerminalRests
  <2> QED BY <2>2, <2>3, <2>4
<1>18. CASE UNCHANGED terminalVars
  <2>1. /\ UNCHANGED <<mode, tab, editKey, rowsOf, text, cursor, ended, underflow, edit>>
    BY <1>18 DEF terminalVars, screen
  <2> QED BY <2>1 DEF TerminalInv, OnRows, UnderCursor
<1> QED BY <1>3, <1>4, <1>5, <1>6, <1>7, <1>8, <1>9, <1>10, <1>11, <1>12, <1>13, <1>14,
           <1>15, <1>16, <1>17, <1>18 DEF TerminalNext

LEMMA KeysFind == TerminalInv => KeysFindTheirRow
<1> SUFFICES ASSUME TerminalInv PROVE KeysFindTheirRow
  OBVIOUS
<1>1. \A which \in Forms : cursor[which] + 1 \in Fields
  BY DEF TerminalInv, Fields
<1> QED BY <1>1 DEF TerminalInv, KeysFindTheirRow, OnRows

-----------------------------------------------------------------------------
(* The status line.  First, remainders: only equal numbers less than one   *)
(* modulus apart have the same.                                            *)
LEMMA Division ==
  ASSUME NEW w \in Nat \ {0}, NEW a \in Int
  PROVE  /\ a % w \in 0 .. w - 1
         /\ a \div w \in Int
         /\ a = w * (a \div w) + (a % w)
OBVIOUS

LEMMA NoMultiple ==
  ASSUME NEW w \in Nat \ {0}, NEW d \in Int, NEW r \in Int, w * d = r, r < w, r > -w
  PROVE  d = 0
<1>1. d >= 1 => w * d >= w
  OBVIOUS
<1>2. d <= -1 => w * d <= -w
  OBVIOUS
<1> QED BY <1>1, <1>2

LEMMA OneRemainder ==
  ASSUME NEW w \in Nat \ {0}, NEW a \in Int, NEW q \in Int, NEW r \in 0 .. w - 1,
         a = w * q + r
  PROVE  a % w = r
<1> DEFINE p == a \div w
           m == a % w
<1>1. p \in Int /\ m \in 0 .. w - 1 /\ a = w * p + m
  BY Division
<1> HIDE DEF p, m
<1>2. w * (q - p) = m - r
  BY <1>1
<1>3. m - r \in Int /\ m - r < w /\ m - r > -w /\ q - p \in Int
  BY <1>1
<1>4. q - p = 0
  BY <1>2, <1>3, NoMultiple
<1>5. m - r = w * 0
  BY <1>2, <1>4
<1>6. m = r
  BY <1>5, <1>1
<1> QED BY <1>6 DEF m

LEMMA NearAndCongruent ==
  ASSUME NEW w \in Nat \ {0}, NEW a \in Int, NEW b \in Int,
         a % w = b % w, a - b < w, a - b > -w
  PROVE  a = b
<1>1. /\ a \div w \in Int /\ b \div w \in Int /\ b % w \in Int
      /\ a = w * (a \div w) + (b % w)
      /\ b = w * (b \div w) + (b % w)
  BY Division
<1>2. w * ((a \div w) - (b \div w)) = a - b
  BY <1>1
<1>3. (a \div w) - (b \div w) = 0
  BY <1>1, <1>2, NoMultiple
<1> QED BY <1>2, <1>3

(* Of any window of w seconds, one uses a given slot.                      *)
LEMMA SlotIsUsed ==
  ASSUME NEW w \in Nat \ {0}, NEW n \in Int, NEW i \in 0 .. w - 1
  PROVE  \E t \in n - w + 1 .. n : t % w = i
<1> DEFINE q == (n - i) \div w
           r == (n - i) % w
<1>1. q \in Int /\ r \in 0 .. w - 1 /\ n - i = w * q + r
  BY Division
<1> HIDE DEF q, r
<1>2. n - r \in n - w + 1 .. n /\ n - r = w * q + i
  BY <1>1
<1>3. (n - r) % w = i
  BY <1>1, <1>2, OneRemainder
<1> QED BY <1>2, <1>3

(* A set of natural numbers that is not empty has a least, so what passes  *)
(* from each number to the next is true of all of them.                    *)
LEMMA LeastNumber ==
  ASSUME NEW T \in SUBSET Nat, T # {}
  PROVE  \E m \in T : \A k \in T : m <= k
<1> DEFINE R == {p \in Nat \X Nat : p[1] < p[2]}
<1>1. IsWellFoundedOn(OpToRel(<, Nat), Nat)
  BY NatLessThanWellFounded, Zenon
<1>2. IsWellFoundedOn(R, Nat)
  BY <1>1, Zenon DEF OpToRel
<1>3. ASSUME NEW x \in Nat, NEW y \in Nat, y < x
      PROVE  <<y, x>> \in R
  <2> DEFINE p == <<y, x>>
  <2>1. p \in Nat \X Nat /\ p[1] = y /\ p[2] = x
    OBVIOUS
  <2> HIDE DEF p
  <2>2. p \in R
    BY <1>3, <2>1
  <2> QED BY <2>2 DEF p
<1> HIDE DEF R
<1>4. \E x \in T : \A y \in T : <<y, x>> \notin R
  BY <1>2, WFMin, Zenon
<1>5. \A x, y \in T : <<y, x>> \notin R => x <= y
  BY <1>3
<1> QED BY <1>4, <1>5

LEMMA UpTo ==
  ASSUME NEW n \in Nat, NEW Good, 0 \in Good,
         \A m \in 1 .. n : m - 1 \in Good => m \in Good
  PROVE  \A m \in 0 .. n : m \in Good
<1> DEFINE T == {m \in 0 .. n : m \notin Good}
<1> SUFFICES ASSUME T # {} PROVE FALSE
  OBVIOUS
<1>1. T \in SUBSET Nat
  OBVIOUS
<1>2. PICK m \in T : \A k \in T : m <= k
  BY <1>1, LeastNumber
<1>3. m \in 1 .. n /\ m - 1 \in 0 .. n /\ m - 1 \notin T
  BY <1>2
<1> QED BY <1>2, <1>3

(* A sum over the slots counts the ones among those that are gone.         *)
Ones(ring) == {i \in Slots : ring[i] = 1}
Sums(sum, ring, gone) ==
  sum = [i \in 0 .. WindowSize |->
           IF i = 0 THEN 0
           ELSE sum[i - 1] + (IF i - 1 \in gone THEN ring[i - 1] ELSE 0)]

LEMMA OnesFinite == ASSUME NEW ring PROVE IsFiniteSet(Ones(ring))
<1>1. Slots \in SUBSET Nat /\ WindowSize \in Nat /\ \A i \in Slots : i <= WindowSize
  BY StatsAssumption DEF Slots
<1>2. IsFiniteSet(Slots)
  BY <1>1, FS_BoundedSetOfNaturals
<1>3. Ones(ring) \subseteq Slots
  BY DEF Ones
<1> QED BY <1>2, <1>3, FS_Subset

LEMMA SumCounts ==
  ASSUME NEW ring \in [Slots -> {0, 1}], NEW gone
  PROVE  /\ \E sum : Sums(sum, ring, gone)
         /\ \A sum : Sums(sum, ring, gone) =>
              sum[WindowSize] = Cardinality(Ones(ring) \cap gone)
<1> DEFINE Below(k) == {i \in Ones(ring) \cap gone : i < k}
           Count == [k \in 0 .. WindowSize |-> Cardinality(Below(k))]
<1>0. WindowSize \in Nat /\ Slots = 0 .. WindowSize - 1
  BY StatsAssumption DEF Slots
<1>1. ASSUME NEW k
      PROVE  IsFiniteSet(Below(k))
  <2>1. Below(k) \subseteq Ones(ring)
    OBVIOUS
  <2> QED BY <2>1, OnesFinite, FS_Subset
<1>2. Below(0) = {}
  BY <1>0 DEF Ones
<1>3. ASSUME NEW k \in 1 .. WindowSize
      PROVE  Cardinality(Below(k)) =
               Cardinality(Below(k - 1)) + (IF k - 1 \in gone THEN ring[k - 1] ELSE 0)
  <2>1. k - 1 \in Slots /\ ring[k - 1] \in {0, 1} /\ k - 1 \notin Below(k - 1)
    BY <1>0
  <2>2. CASE k - 1 \in gone /\ ring[k - 1] = 1
    <3>1. Below(k) = Below(k - 1) \cup {k - 1}
      BY <1>0, <2>1, <2>2 DEF Ones
    <3>2. Cardinality(Below(k)) = Cardinality(Below(k - 1)) + 1
      <4> HIDE DEF Below
      <4> QED BY <1>1, <2>1, <3>1, FS_AddElement
    <3> QED BY <2>2, <3>2
  <2>3. CASE ~ (k - 1 \in gone /\ ring[k - 1] = 1)
    <3>1. Below(k) = Below(k - 1)
      BY <1>0, <2>1, <2>3 DEF Ones
    <3>2. Cardinality(Below(k - 1)) \in Nat
      BY <1>1, FS_CardinalityType
    <3> QED BY <2>1, <2>3, <3>1, <3>2
  <2> QED BY <2>2, <2>3
<1>4. Cardinality(Below(0)) = 0
  BY <1>2, FS_EmptySet
<1> HIDE DEF Below
<1>5. Sums(Count, ring, gone)
  <2>1. \A i \in 0 .. WindowSize :
          Count[i] = IF i = 0 THEN 0
                     ELSE Count[i - 1] + (IF i - 1 \in gone THEN ring[i - 1] ELSE 0)
    BY <1>0, <1>3, <1>4
  <2> QED BY <2>1 DEF Sums
<1>6. ASSUME NEW sum, Sums(sum, ring, gone)
      PROVE  sum[WindowSize] = Cardinality(Ones(ring) \cap gone)
  <2> DEFINE Good == {m \in 0 .. WindowSize : sum[m] = Cardinality(Below(m))}
  <2>1. \A i \in 0 .. WindowSize :
          sum[i] = IF i = 0 THEN 0
                   ELSE sum[i - 1] + (IF i - 1 \in gone THEN ring[i - 1] ELSE 0)
    BY <1>6 DEF Sums
  <2>2. 0 \in Good
    BY <1>0, <1>4, <2>1
  <2>3. \A m \in 1 .. WindowSize : m - 1 \in Good => m \in Good
    BY <1>0, <1>3, <2>1
  <2> HIDE DEF Good
  <2>4. \A m \in 0 .. WindowSize : m \in Good
    BY <1>0, <2>2, <2>3, UpTo
  <2>5. sum[WindowSize] = Cardinality(Below(WindowSize))
    BY <1>0, <2>4 DEF Good
  <2>6. Below(WindowSize) = Ones(ring) \cap gone
    BY <1>0 DEF Below, Ones
  <2> QED BY <2>5, <2>6
<1> QED BY <1>5, <1>6

-----------------------------------------------------------------------------
(* The window of received frames.  Unless the clock was set back, the slot *)
(* of every second of the window holds the frames of that second, and the  *)
(* total counts the slots.                                                 *)
FramesAt(t) == IF t \in 1 .. MaxTime THEN arrivals[t] ELSE 0
Window(ring, sec) ==
  /\ ring \in [Slots -> {0, 1}]
  /\ \A t \in sec - WindowSize + 1 .. sec : ring[t % WindowSize] = FramesAt(t)

RingInv ==
  /\ now \in 1 .. MaxTime /\ setBack \in BOOLEAN
  /\ arrivals \in [1 .. MaxTime -> {0, 1}]
  /\ ~ setBack =>
       /\ receivedSec \in 0 .. now
       /\ \A t \in 1 .. MaxTime : t > receivedSec => arrivals[t] = 0
       /\ Window(receivedRing, receivedSec)
       /\ receivedTotal = Cardinality(Ones(receivedRing))
       /\ receivedSec = 0 => Ones(receivedRing) = {}

LEMMA SlotOfSecond == \A t \in Int : t % WindowSize \in Slots
BY StatsAssumption DEF Slots

(* The window moved to the present holds the frames of its seconds too.    *)
LEMMA AdvancedHolds ==
  ASSUME RingInv, ~ setBack
  PROVE  /\ Advanced.sec = now
         /\ Window(Advanced.ring, now)
         /\ Advanced.total = Cardinality(Ones(Advanced.ring))
<1> DEFINE gap == now - receivedSec
           gone == {(receivedSec + step) % WindowSize : step \in 1 .. gap}
           ring == [i \in Slots |-> IF i \in gone THEN 0 ELSE receivedRing[i]]
           sum == CHOOSE s : Sums(s, receivedRing, gone)
<1>1. /\ WindowSize \in Nat \ {0} /\ MaxTime \in Nat
      /\ now \in 1 .. MaxTime /\ receivedSec \in 0 .. now
      /\ arrivals \in [1 .. MaxTime -> {0, 1}]
      /\ \A t \in 1 .. MaxTime : t > receivedSec => arrivals[t] = 0
      /\ receivedRing \in [Slots -> {0, 1}]
      /\ \A t \in receivedSec - WindowSize + 1 .. receivedSec :
           receivedRing[t % WindowSize] = FramesAt(t)
      /\ receivedTotal = Cardinality(Ones(receivedRing))
      /\ receivedSec = 0 => Ones(receivedRing) = {}
  BY StatsAssumption DEF RingInv, Window
<1>2. \A t \in Int : t > receivedSec => FramesAt(t) = 0
  BY <1>1 DEF FramesAt
<1>3. Advanced =
        IF receivedSec = 0 \/ gap <= 0
        THEN [sec |-> IF receivedSec = 0 THEN now ELSE receivedSec,
              total |-> receivedTotal, ring |-> receivedRing]
        ELSE IF gap >= WindowSize
             THEN [sec |-> now, total |-> 0, ring |-> [i \in Slots |-> 0]]
             ELSE [sec |-> now, total |-> receivedTotal - sum[WindowSize], ring |-> ring]
  BY DEF Advanced, Sums
<1> HIDE DEF ring, sum, gone
<1>4. CASE receivedSec = 0
  <2>1. /\ Advanced.sec = now /\ Advanced.ring = receivedRing
        /\ Advanced.total = receivedTotal
    BY <1>3, <1>4
  <2>2. \A i \in Slots : receivedRing[i] = 0
    BY <1>1, <1>4 DEF Ones
  <2>3. \A t \in Int : FramesAt(t) = 0
    BY <1>1, <1>4 DEF FramesAt
  <2>4. \A t \in now - WindowSize + 1 .. now : t \in Int
    BY <1>1
  <2>5. \A t \in now - WindowSize + 1 .. now : receivedRing[t % WindowSize] = FramesAt(t)
    BY <2>2, <2>3, <2>4, SlotOfSecond
  <2>6. Window(receivedRing, now)
    BY <1>1, <2>5 DEF Window
  <2> QED BY <1>1, <2>1, <2>6
<1>5. CASE receivedSec # 0 /\ gap <= 0
  <2>1. /\ Advanced.sec = receivedSec /\ Advanced.ring = receivedRing
        /\ Advanced.total = receivedTotal /\ receivedSec = now
    BY <1>1, <1>3, <1>5
  <2>2. Window(receivedRing, now)
    BY <1>1, <2>1 DEF Window
  <2> QED BY <1>1, <2>1, <2>2
<1>6. CASE receivedSec # 0 /\ gap > 0 /\ gap >= WindowSize
  <2> DEFINE zero == [i \in Slots |-> 0]
  <2>1. Advanced.sec = now /\ Advanced.ring = zero /\ Advanced.total = 0
    BY <1>1, <1>3, <1>6
  <2>2. \A t \in now - WindowSize + 1 .. now : t \in Int /\ t > receivedSec
    BY <1>1, <1>6
  <2>3. Window(zero, now)
    BY <1>1, <1>2, <2>2, SlotOfSecond DEF Window
  <2>4. Ones(zero) = {}
    BY DEF Ones
  <2> QED BY <2>1, <2>3, <2>4, FS_EmptySet
<1>7. CASE receivedSec # 0 /\ gap > 0 /\ gap < WindowSize
  <2>1. /\ Advanced.sec = now /\ Advanced.ring = ring
        /\ Advanced.total = receivedTotal - sum[WindowSize]
    BY <1>1, <1>3, <1>7
  <2>2. ring \in [Slots -> {0, 1}]
    BY <1>1 DEF ring
  <2>3. ASSUME NEW t \in now - WindowSize + 1 .. now
        PROVE  ring[t % WindowSize] = FramesAt(t)
    <3>a. t \in Int
      BY <1>1
    <3>0. t \in Int /\ t % WindowSize \in Slots
      BY <3>a, SlotOfSecond
    <3>1. CASE t > receivedSec
      <4>1. t - receivedSec \in 1 .. gap /\ receivedSec + (t - receivedSec) = t
        BY <1>1, <3>1
      <4>2. t % WindowSize \in gone
        BY <4>1 DEF gone
      <4> QED BY <1>2, <3>0, <3>1, <4>2 DEF ring
    <3>2. CASE t <= receivedSec
      <4>1. t \in receivedSec - WindowSize + 1 .. receivedSec
        BY <1>1, <1>7, <3>0, <3>2
      <4>2. ASSUME NEW step \in 1 .. gap,
                   (receivedSec + step) % WindowSize = t % WindowSize
            PROVE  FALSE
        <5> DEFINE s == receivedSec + step
        <5>1. s \in Int /\ s - t > 0 /\ s - t < WindowSize /\ s - t > -WindowSize
          BY <1>1, <3>0, <3>2
        <5>2. s % WindowSize = t % WindowSize
          BY <4>2
        <5> HIDE DEF s
        <5>3. s = t
          BY <1>1, <3>0, <5>1, <5>2, NearAndCongruent
        <5> QED BY <3>0, <5>1, <5>3
      <4>3. t % WindowSize \notin gone
        BY <4>2 DEF gone
      <4> QED BY <1>1, <3>0, <4>1, <4>3 DEF ring
    <3> QED BY <1>1, <3>0, <3>1, <3>2
  <2>4. Window(ring, now)
    BY <2>2, <2>3 DEF Window
  <2>5. sum[WindowSize] = Cardinality(Ones(receivedRing) \cap gone)
    <3>1. Sums(sum, receivedRing, gone)
      BY <1>1, SumCounts DEF sum
    <3> QED BY <1>1, <3>1, SumCounts
  <2>6. Ones(ring) = Ones(receivedRing) \ gone
    BY DEF Ones, ring
  <2>7. /\ Cardinality(Ones(ring)) =
             Cardinality(Ones(receivedRing)) - Cardinality(Ones(receivedRing) \cap gone)
    BY <2>6, OnesFinite, FS_Difference
  <2> QED BY <1>1, <2>1, <2>4, <2>5, <2>7
<1> QED BY <1>1, <1>4, <1>5, <1>6, <1>7

LEMMA RingStarts == StatsInit => RingInv
<1> SUFFICES ASSUME StatsInit PROVE RingInv
  OBVIOUS
<1>1. /\ now = 1 /\ receivedSec = 0 /\ receivedTotal = 0 /\ setBack = FALSE
      /\ receivedRing = [i \in Slots |-> 0] /\ arrivals = [t \in 1 .. MaxTime |-> 0]
      /\ WindowSize \in Nat \ {0} /\ MaxTime \in Nat \ {0}
  BY StatsAssumption DEF StatsInit
<1>2. Ones(receivedRing) = {} /\ receivedRing \in [Slots -> {0, 1}]
  BY <1>1 DEF Ones
<1>3. \A t \in -WindowSize + 1 .. 0 : FramesAt(t) = 0 /\ t \in Int
  BY <1>1 DEF FramesAt
<1>4. \A t \in -WindowSize + 1 .. 0 : receivedRing[t % WindowSize] = FramesAt(t)
  BY <1>1, <1>3, SlotOfSecond
<1>5. Window(receivedRing, 0)
  BY <1>1, <1>2, <1>4 DEF Window
<1>6. Cardinality(Ones(receivedRing)) = 0
  BY <1>2, FS_EmptySet
<1>7. Window(receivedRing, receivedSec)
  BY <1>1, <1>5
<1>8. now \in 1 .. MaxTime /\ receivedSec \in 0 .. now
  BY <1>1
<1>9. /\ arrivals \in [1 .. MaxTime -> {0, 1}]
      /\ \A t \in 1 .. MaxTime : t > receivedSec => arrivals[t] = 0
  BY <1>1
<1>10. setBack \in BOOLEAN
  BY <1>1
<1> QED BY <1>1, <1>2, <1>6, <1>7, <1>8, <1>9, <1>10 DEF RingInv

LEMMA RingMoves ==
  ASSUME RingInv, IncReceived \/ Snapshot \/ ClockMoves \/ UNCHANGED <<now, received, arrivals, setBack>>
  PROVE  RingInv'
<1>1. /\ WindowSize \in Nat \ {0} /\ MaxTime \in Nat \ {0}
      /\ now \in 1 .. MaxTime /\ setBack \in BOOLEAN
      /\ arrivals \in [1 .. MaxTime -> {0, 1}]
  BY StatsAssumption DEF RingInv
<1>2. CASE IncReceived
  <2>1. /\ arrivals[now] = 0 /\ arrivals' = [arrivals EXCEPT ![now] = 1]
        /\ receivedSec' = Advanced.sec /\ receivedTotal' = Advanced.total + 1
        /\ receivedRing' = [Advanced.ring EXCEPT ![now % WindowSize] = @ + 1]
        /\ now' = now /\ setBack' = setBack
    BY <1>2 DEF IncReceived
  <2>2. arrivals' \in [1 .. MaxTime -> {0, 1}]
    BY <1>1, <2>1
  <2>3. ASSUME ~ setBack
        PROVE  /\ receivedSec' \in 0 .. now'
               /\ \A t \in 1 .. MaxTime : t > receivedSec' => arrivals'[t] = 0
               /\ Window(receivedRing, receivedSec)'
               /\ receivedTotal' = Cardinality(Ones(receivedRing'))
               /\ receivedSec' # 0
    <3> DEFINE ring == Advanced.ring
               slot == now % WindowSize
    <3>1. /\ Advanced.sec = now /\ Window(ring, now)
          /\ Advanced.total = Cardinality(Ones(ring))
      BY <2>3, AdvancedHolds
    <3> HIDE DEF ring
    <3>2. /\ receivedSec \in 0 .. now
          /\ \A t \in 1 .. MaxTime : t > receivedSec => arrivals[t] = 0
      BY <2>3 DEF RingInv
    <3>a. now \in Int
      BY <1>1
    <3>3. slot \in Slots
      BY <3>a, SlotOfSecond
    <3>4. /\ ring \in [Slots -> {0, 1}]
          /\ \A t \in now - WindowSize + 1 .. now : ring[t % WindowSize] = FramesAt(t)
      BY <3>1 DEF Window
    <3>5. ring[slot] = 0
      BY <1>1, <2>1, <3>4 DEF FramesAt
    <3>6. receivedRing' = [ring EXCEPT ![slot] = 1]
      BY <2>1, <3>3, <3>4, <3>5 DEF ring
    <3> HIDE DEF slot
    <3>7. receivedRing' \in [Slots -> {0, 1}]
      BY <3>4, <3>6
    <3>8. ASSUME NEW t \in now - WindowSize + 1 .. now
          PROVE  receivedRing'[t % WindowSize] = FramesAt(t)'
      <4>1. t \in Int
        BY <1>1
      <4>2. t % WindowSize \in Slots
        BY <4>1, SlotOfSecond
      <4>3. CASE t = now
        <5>1. FramesAt(t)' = 1 /\ t % WindowSize = slot
          BY <1>1, <2>1, <4>3 DEF FramesAt, slot
        <5> QED BY <3>3, <3>4, <3>6, <5>1
      <4>4. CASE t # now
        <5>1. now \in Int /\ now - t < WindowSize /\ now - t > -WindowSize
          BY <1>1, <4>1
        <5>2. t % WindowSize # slot
          BY <1>1, <4>1, <4>4, <5>1, NearAndCongruent DEF slot
        <5>3. FramesAt(t)' = FramesAt(t)
          BY <1>1, <2>1, <4>4 DEF FramesAt
        <5> QED BY <3>4, <3>6, <4>2, <5>2, <5>3
      <4> QED BY <4>3, <4>4
    <3>9. Window(receivedRing, receivedSec)'
      BY <2>1, <3>1, <3>7, <3>8 DEF Window
    <3>10. receivedTotal' = Cardinality(Ones(receivedRing'))
      <4>1. Ones(receivedRing') = Ones(ring) \cup {slot} /\ slot \notin Ones(ring)
        BY <3>3, <3>4, <3>5, <3>6 DEF Ones
      <4>2. IsFiniteSet(Ones(ring))
        BY OnesFinite
      <4>3. Cardinality(Ones(receivedRing')) = Cardinality(Ones(ring)) + 1
        BY <4>1, <4>2, FS_AddElement
      <4> QED BY <2>1, <3>1, <4>3
    <3> QED BY <1>1, <2>1, <3>1, <3>2, <3>9, <3>10
  <2> QED BY <1>1, <2>1, <2>2, <2>3 DEF RingInv
<1>3. CASE Snapshot
  <2>1. /\ receivedSec' = Advanced.sec /\ receivedTotal' = Advanced.total
        /\ receivedRing' = Advanced.ring
        /\ UNCHANGED <<now, setBack, arrivals>>
    BY <1>3 DEF Snapshot
  <2>2. ASSUME ~ setBack
        PROVE  /\ receivedSec' \in 0 .. now'
               /\ \A t \in 1 .. MaxTime : t > receivedSec' => arrivals'[t] = 0
               /\ Window(receivedRing, receivedSec)'
               /\ receivedTotal' = Cardinality(Ones(receivedRing'))
               /\ receivedSec' # 0
    <3>1. /\ Advanced.sec = now /\ Window(Advanced.ring, now)
          /\ Advanced.total = Cardinality(Ones(Advanced.ring))
      BY <2>2, AdvancedHolds
    <3>2. /\ receivedSec \in 0 .. now
          /\ \A t \in 1 .. MaxTime : t > receivedSec => arrivals[t] = 0
      BY <2>2 DEF RingInv
    <3>3. Window(receivedRing, receivedSec)'
      BY <2>1, <3>1 DEF Window, FramesAt
    <3>4. receivedTotal' = Cardinality(Ones(receivedRing'))
      BY <2>1, <3>1
    <3> QED BY <1>1, <2>1, <3>1, <3>2, <3>3, <3>4
  <2> QED BY <1>1, <2>1, <2>2 DEF RingInv
<1>4. CASE ClockMoves
  <2>1. PICK t \in 1 .. MaxTime \ {now} : now' = t /\ setBack' = (setBack \/ t < now)
    BY <1>4 DEF ClockMoves
  <2>2. UNCHANGED <<receivedSec, receivedTotal, receivedRing, arrivals>>
    BY <1>4 DEF ClockMoves, received
  <2>a. setBack' \in BOOLEAN /\ (~ setBack' => ~ setBack /\ ~ (t < now))
    BY <2>1, Zenon
  <2>3. /\ now' \in 1 .. MaxTime /\ setBack' \in BOOLEAN
        /\ ~ setBack' => ~ setBack /\ now' >= now
    BY <1>1, <2>1, <2>a
  <2>4. Window(receivedRing, receivedSec)' = Window(receivedRing, receivedSec)
    BY <2>2 DEF Window, FramesAt
  <2> QED BY <1>1, <2>2, <2>3, <2>4 DEF RingInv
<1>5. CASE UNCHANGED <<now, received, arrivals, setBack>>
  <2>1. UNCHANGED <<now, receivedSec, receivedTotal, receivedRing, arrivals, setBack>>
    BY <1>5 DEF received
  <2>2. Window(receivedRing, receivedSec)' = Window(receivedRing, receivedSec)
    BY <2>1 DEF Window, FramesAt
  <2> QED BY <2>1, <2>2 DEF RingInv
<1> QED BY <1>2, <1>3, <1>4, <1>5

(* The slots that hold a frame are the seconds of the last WindowSize that *)
(* had one.                                                                *)
LEMMA RingShown ==
  ASSUME RingInv, ~ setBack
  PROVE  Advanced.total =
           Cardinality({t \in 1 .. now : t > now - WindowSize /\ arrivals[t] = 1})
<1> DEFINE T == {t \in 1 .. now : t > now - WindowSize /\ arrivals[t] = 1}
           ring == Advanced.ring
           f == [t \in T |-> t % WindowSize]
<1>1. /\ WindowSize \in Nat \ {0} /\ MaxTime \in Nat \ {0}
      /\ now \in 1 .. MaxTime /\ arrivals \in [1 .. MaxTime -> {0, 1}]
  BY StatsAssumption DEF RingInv
<1>2. /\ Window(ring, now) /\ Advanced.total = Cardinality(Ones(ring))
  BY AdvancedHolds
<1> HIDE DEF ring
<1>3. \A t \in now - WindowSize + 1 .. now : ring[t % WindowSize] = FramesAt(t)
  BY <1>2 DEF Window
<1>4. \A t \in T : /\ t \in Int /\ t \in now - WindowSize + 1 .. now
                   /\ FramesAt(t) = 1
  BY <1>1 DEF FramesAt
<1>5. \A t \in now - WindowSize + 1 .. now : FramesAt(t) = 1 => t \in T
  BY <1>1 DEF FramesAt
<1> HIDE DEF T
<1>6. \A t \in T : f[t] \in Ones(ring)
  BY <1>3, <1>4, SlotOfSecond DEF Ones
<1>7. ASSUME NEW a \in T, NEW b \in T, f[a] = f[b]
      PROVE  a = b
  <2>1. /\ a \in Int /\ b \in Int /\ a - b < WindowSize /\ a - b > -WindowSize
    BY <1>1, <1>4
  <2>2. a % WindowSize = b % WindowSize
    BY <1>7
  <2> QED BY <1>1, <2>1, <2>2, NearAndCongruent
<1>8. ASSUME NEW i \in Ones(ring)
      PROVE  \E t \in T : f[t] = i
  <2>1. i \in 0 .. WindowSize - 1 /\ ring[i] = 1 /\ now \in Int
    BY <1>1 DEF Ones, Slots
  <2>2. PICK t \in now - WindowSize + 1 .. now : t % WindowSize = i
    BY <1>1, <2>1, SlotIsUsed
  <2>3. t \in T
    BY <1>3, <1>5, <2>1, <2>2
  <2> QED BY <2>2, <2>3
<1>9. f \in [T -> Ones(ring)]
  BY <1>6
<1>10. DOMAIN f = T
  OBVIOUS
<1> HIDE DEF f
<1>11. f \in Bijection(T, Ones(ring))
  BY <1>7, <1>8, <1>9, <1>10 DEF Bijection, Injection, Surjection, IsInjective
<1>12. ExistsBijection(T, Ones(ring))
  BY <1>11 DEF ExistsBijection
<1>13. IsFiniteSet(T)
  <2>1. T \in SUBSET Nat /\ now \in Nat /\ \A t \in T : t <= now
    BY <1>1 DEF T
  <2> QED BY <2>1, FS_BoundedSetOfNaturals
<1>14. Cardinality(Ones(ring)) = Cardinality(T)
  BY <1>12, <1>13, FS_Bijection
<1> QED BY <1>2, <1>14 DEF T

-----------------------------------------------------------------------------
(* The number of clients.  Unless two handlers met between the lock and    *)
(* the publication, or the last was an older server's, at most one is      *)
(* about to publish, and what it publishes is the number of connections of *)
(* the server that runs.  A server to come has none.                       *)
Telling(c) == publishing[c] # Silent
Servers == 1 .. MaxServers

ServersTyped ==
  /\ server \in Servers /\ conns = [s \in Servers |-> conns[s]]
  /\ \A s \in Servers : IsFiniteSet(conns[s]) /\ (s > server => conns[s] = {})

ClientsInv ==
  /\ ServersTyped /\ publishing \in [Clients -> Int]
  /\ ~ collided =>
       /\ \A c, k \in Clients : Telling(c) /\ Telling(k) => c = k
       /\ \A c \in Clients : Telling(c) => publishing[c] = Cardinality(conns[server])
       /\ (\A c \in Clients : ~ Telling(c)) => clients = Cardinality(conns[server])

LEMMA ClientsStart == StatsInit => ClientsInv
<1> SUFFICES ASSUME StatsInit PROVE ClientsInv
  OBVIOUS
<1>1. /\ server = 1 /\ conns = [s \in Servers |-> {}] /\ publishing = [c \in Clients |-> Silent]
      /\ clients = 0 /\ collided = FALSE
  BY DEF StatsInit, Servers
<1>2. \A c \in Clients : ~ Telling(c)
  BY <1>1 DEF Telling
<1>3. 1 \in Servers
  BY StatsAssumption DEF Servers
<1>4. ServersTyped /\ Cardinality(conns[server]) = 0
  BY <1>1, <1>3, FS_EmptySet DEF ServersTyped
<1> QED BY <1>1, <1>2, <1>4 DEF ClientsInv, Silent

LEMMA ClientsTrack ==
  ASSUME ClientsInv, NEW s \in 1 .. server, NEW c \in Clients, NEW new, IsFiniteSet(new),
         Tracked(s, c, new)
  PROVE  ClientsInv'
<1> DEFINE n == Cardinality(new)
<1>1. n \in Nat
  BY FS_CardinalityType
<1>2. /\ publishing[c] = Silent /\ conns' = [conns EXCEPT ![s] = new]
      /\ publishing' = [publishing EXCEPT ![c] = n]
      /\ collided' = (s # server \/ ~ Published)
      /\ publishing \in [Clients -> Int] /\ server' = server
  BY DEF Tracked, ClientsInv
<1>3. publishing' \in [Clients -> Int] /\ publishing'[c] = n
  BY <1>1, <1>2
<1>4. \A k \in Clients \ {c} : publishing'[k] = publishing[k]
  BY <1>2
<1>5. ~ collided' => s = server /\ \A k \in Clients : publishing[k] = Silent
  BY <1>2, Zenon DEF Published
<1>6. n # Silent
  BY <1>1 DEF Silent
<1>7. ServersTyped' /\ conns'[s] = new
  <2>1. server \in Servers /\ server \in Nat /\ MaxServers \in Nat
    BY StatsAssumption DEF ClientsInv, ServersTyped, Servers
  <2>2. s \in Servers /\ ~ (s > server)
    BY <2>1 DEF Servers
  <2> QED BY <1>2, <2>1, <2>2 DEF ClientsInv, ServersTyped
<1> HIDE DEF n
<1>8. ~ collided' => \A k \in Clients : Telling(k)' => k = c
  BY <1>4, <1>5 DEF Telling
<1>9. Telling(c)'
  BY <1>3, <1>6 DEF Telling
<1>10. ~ collided' => publishing'[c] = Cardinality(conns'[server'])
  BY <1>2, <1>3, <1>5, <1>7 DEF n
<1> QED BY <1>3, <1>7, <1>8, <1>9, <1>10 DEF ClientsInv

LEMMA ClientsTell ==
  ASSUME ClientsInv, NEW c \in Clients, SetClients(c)
  PROVE  ClientsInv'
<1>1. /\ publishing[c] # Silent /\ clients' = publishing[c]
      /\ publishing' = [publishing EXCEPT ![c] = Silent]
      /\ UNCHANGED <<server, conns, collided>>
      /\ publishing \in [Clients -> Int] /\ ServersTyped
  BY DEF SetClients, ClientsInv
<1>2. publishing' \in [Clients -> Int] /\ Silent \in Int
  BY <1>1 DEF Silent
<1>3. ~ Telling(c)' /\ \A k \in Clients \ {c} : publishing'[k] = publishing[k]
  BY <1>1 DEF Telling
<1>4. ASSUME ~ collided
      PROVE  /\ \A k \in Clients : ~ Telling(k)'
             /\ clients' = Cardinality(conns'[server'])
  <2>1. Telling(c)
    BY <1>1 DEF Telling
  <2>2. \A k \in Clients : Telling(k) => k = c
    BY <1>4, <2>1 DEF ClientsInv
  <2>3. publishing[c] = Cardinality(conns[server])
    BY <1>4, <2>1 DEF ClientsInv
  <2>4. \A k \in Clients : ~ Telling(k)'
    BY <1>3, <2>2 DEF Telling
  <2> QED BY <1>1, <2>3, <2>4
<1>5. ServersTyped'
  BY <1>1 DEF ServersTyped
<1> QED BY <1>1, <1>2, <1>4, <1>5 DEF ClientsInv

LEMMA ClientsRestart ==
  ASSUME ClientsInv, NewTCPServer
  PROVE  ClientsInv'
<1>1. /\ server < MaxServers /\ server' = server + 1 /\ UNCHANGED <<conns, publishing, clients>>
      /\ collided' = (clients # 0 \/ ~ Published)
      /\ publishing \in [Clients -> Int] /\ ServersTyped
  BY DEF NewTCPServer, ClientsInv
<1>2. server' \in Servers /\ server' > server /\ \A s \in Servers : s > server' => s > server
  BY <1>1, StatsAssumption DEF ServersTyped, Servers
<1>3. ServersTyped' /\ conns'[server'] = {}
  BY <1>1, <1>2 DEF ServersTyped
<1>4. ~ collided' => clients' = 0 /\ \A c \in Clients : ~ Telling(c)'
  BY <1>1, Zenon DEF Published, Telling
<1> QED BY <1>1, <1>3, <1>4, FS_EmptySet DEF ClientsInv

-----------------------------------------------------------------------------
(* The two numbers together.                                               *)
StatsInv == RingInv /\ ClientsInv

LEMMA StatsStart == StatsInit => StatsInv
BY RingStarts, ClientsStart DEF StatsInv

LEMMA StatsStep ==
  ASSUME StatsInv, StatsNext \/ UNCHANGED statsVars
  PROVE  StatsInv'
<1> USE DEF StatsInv
<1>1. CASE (IncReceived \/ Snapshot \/ ClockMoves) \/ UNCHANGED statsVars
  <2>1. UNCHANGED <<server, conns, publishing, clients, collided>>
    BY <1>1 DEF IncReceived, Snapshot, ClockMoves, statsVars
  <2>2. IncReceived \/ Snapshot \/ ClockMoves \/ UNCHANGED <<now, received, arrivals, setBack>>
    BY <1>1 DEF statsVars
  <2>3. RingInv'
    BY <2>2, RingMoves
  <2>4. ClientsInv'
    BY <2>1 DEF ClientsInv, ServersTyped, Telling
  <2> QED BY <2>3, <2>4
<1>2. ASSUME NEW c \in Clients, NEW s \in 1 .. server, trackConn(s, c) \/ untrackConn(s, c)
      PROVE  StatsInv'
  <2>1. UNCHANGED <<now, received, arrivals, setBack>>
    BY <1>2 DEF trackConn, untrackConn, Tracked
  <2>2. RingInv'
    BY <2>1, RingMoves
  <2>3. IsFiniteSet(conns[s])
    <3>1. server \in Servers /\ MaxServers \in Nat /\ \A t \in Servers : IsFiniteSet(conns[t])
      BY StatsAssumption DEF ClientsInv, ServersTyped
    <3>2. s \in Servers
      BY <3>1 DEF Servers
    <3> QED BY <3>1, <3>2
  <2>4. IsFiniteSet(conns[s] \cup {c}) /\ IsFiniteSet(conns[s] \ {c})
    BY <2>3, FS_AddElement, FS_RemoveElement
  <2>5. ClientsInv'
    BY <1>2, <2>4, ClientsTrack DEF trackConn, untrackConn
  <2> QED BY <2>2, <2>5
<1>3. ASSUME NewTCPServer \/ \E c \in Clients : SetClients(c)
      PROVE  StatsInv'
  <2>1. UNCHANGED <<now, received, arrivals, setBack>>
    BY <1>3 DEF NewTCPServer, SetClients
  <2>2. RingInv'
    BY <2>1, RingMoves
  <2>3. ClientsInv'
    BY <1>3, ClientsTell, ClientsRestart
  <2> QED BY <2>2, <2>3
<1> QED BY <1>1, <1>2, <1>3 DEF StatsNext

LEMMA CountsShown == StatsInv => StatsAreCounts
BY RingShown DEF StatsInv, ClientsInv, Telling, Published, StatsAreCounts

-----------------------------------------------------------------------------
(* The lists.  First, the newest of a set of numbers: a sequence that      *)
(* falls, with nothing left out above its end.                             *)
Falls(s) == \A i, j \in DOMAIN s : i < j => s[i] > s[j]
Heads(s, S) ==
  /\ s \in Seq(Nat) /\ Falls(s) /\ Elements(s) \subseteq S
  /\ \A n \in S \ Elements(s) : \A i \in DOMAIN s : s[i] > n

LEMMA GreatestNumber ==
  ASSUME NEW n \in Nat, NEW T \in SUBSET (0 .. n), T # {}
  PROVE  \E m \in T : \A k \in T : k <= m
<1> DEFINE R == {n - k : k \in T}
<1>0. \A k \in T : k \in Nat /\ n - k \in Nat
  OBVIOUS
<1>1. R \in SUBSET Nat /\ R # {}
  BY <1>0
<1>2. PICK r \in R : \A k \in R : r <= k
  BY <1>1, LeastNumber
<1>3. PICK m \in T : r = n - m
  OBVIOUS
<1>4. ASSUME NEW k \in T
      PROVE  k <= m
  <2>1. n - k \in R
    OBVIOUS
  <2>2. n - m <= n - k
    BY <1>2, <1>3, <2>1
  <2> QED BY <1>0, <2>2
<1> QED BY <1>4

LEMMA FirstsCounted ==
  ASSUME NEW s \in Seq(Nat), Falls(s), NEW i \in 0 .. Len(s)
  PROVE  /\ IsFiniteSet({s[j] : j \in 1 .. i})
         /\ Cardinality({s[j] : j \in 1 .. i}) = i
<1> DEFINE T == {s[j] : j \in 1 .. i}
           f == [j \in 1 .. i |-> s[j]]
<1>1. \A a, b \in 1 .. i : s[a] = s[b] => a = b
  BY DEF Falls
<1>2. f \in Bijection(1 .. i, T)
  BY <1>1 DEF Bijection, Injection, Surjection, IsInjective
<1> HIDE DEF T, f
<1>3. ExistsBijection(1 .. i, T)
  BY <1>2 DEF ExistsBijection
<1>a. i \in Nat
  OBVIOUS
<1>4. Cardinality(T) = i
  BY <1>3, <1>a, FS_CountingElements
<1>5. IsFiniteSet(T)
  BY <1>3, <1>a, FS_NatBijection
<1> QED BY <1>4, <1>5 DEF T

LEMMA ElementsCounted ==
  ASSUME NEW s \in Seq(Nat), Falls(s)
  PROVE  IsFiniteSet(Elements(s)) /\ Cardinality(Elements(s)) = Len(s)
<1>1. Elements(s) = {s[j] : j \in 1 .. Len(s)} /\ Len(s) \in 0 .. Len(s)
  BY DEF Elements
<1> QED BY <1>1, FirstsCounted

LEMMA HeadsAreNewest ==
  ASSUME NEW S \in SUBSET Nat, IsFiniteSet(S), NEW s, Heads(s, S)
  PROVE  /\ s = Newest(S, Len(s))
         /\ Len(s) <= Cardinality(S)
         /\ Len(s) = Cardinality(S) <=> S \subseteq Elements(s)
<1> DEFINE Above(n) == {k \in S : k >= n}
           P(n, i) == Cardinality(Above(n)) = i
<1>1. s \in Seq(Nat) /\ Falls(s) /\ Elements(s) \subseteq S /\ Len(s) \in Nat
  BY DEF Heads
<1>2. ASSUME NEW i \in 1 .. Len(s)
      PROVE  Cardinality(Above(s[i])) = i /\ s[i] \in S
  <2>1. Above(s[i]) = {s[j] : j \in 1 .. i}
    <3>1. ASSUME NEW k \in S, k >= s[i]
          PROVE  \E j \in 1 .. i : k = s[j]
      <4>1. k \in Elements(s)
        BY <3>1 DEF Heads
      <4>2. PICK j \in 1 .. Len(s) : k = s[j]
        BY <1>1, <4>1 DEF Elements
      <4>3. j <= i
        BY <1>1, <3>1, <4>2 DEF Falls
      <4> QED BY <4>2, <4>3
    <3>2. \A j \in 1 .. i : s[j] \in S /\ s[j] >= s[i]
      BY <1>1 DEF Falls, Elements
    <3> QED BY <3>1, <3>2
  <2>2. s[i] \in S
    BY <1>1 DEF Elements
  <2>3. Cardinality({s[j] : j \in 1 .. i}) = i
    <3>1. i \in 0 .. Len(s)
      BY <1>1
    <3> QED BY <1>1, <3>1, FirstsCounted
  <2> HIDE DEF Above
  <2> QED BY <2>1, <2>2, <2>3
<1>3. ASSUME NEW i \in 1 .. Len(s), NEW n \in S, Cardinality(Above(n)) = i
      PROVE  n = s[i]
  <2>1. IsFiniteSet(Above(n)) /\ IsFiniteSet(Above(s[i]))
    BY FS_Subset
  <2>2. Cardinality(Above(n)) = Cardinality(Above(s[i])) /\ s[i] \in S
    <3> HIDE DEF Above
    <3> QED BY <1>2, <1>3
  <2>a. n \in Nat /\ s[i] \in Nat /\ \A k \in S : k \in Nat
    BY <2>2
  <2>3. CASE n < s[i]
    <3>1. \A k \in S : k >= s[i] => k >= n
      BY <2>a, <2>3
    <3>2. n >= n /\ ~ (n >= s[i])
      BY <2>a, <2>3
    <3>3. Above(s[i]) \subseteq Above(n) /\ n \in Above(n) /\ n \notin Above(s[i])
      BY <2>2, <3>1, <3>2
    <3> HIDE DEF Above
    <3> QED BY <2>1, <2>2, <3>3, FS_Subset
  <2>4. CASE n > s[i]
    <3>1. \A k \in S : k >= n => k >= s[i]
      BY <2>a, <2>4
    <3>2. s[i] >= s[i] /\ ~ (s[i] >= n)
      BY <2>a, <2>4
    <3>3. Above(n) \subseteq Above(s[i]) /\ s[i] \in Above(s[i]) /\ s[i] \notin Above(n)
      BY <2>2, <3>1, <3>2
    <3> HIDE DEF Above
    <3> QED BY <2>1, <2>2, <3>3, FS_Subset
  <2> QED BY <2>a, <2>3, <2>4
<1>4. /\ Len(s) <= Cardinality(S)
      /\ Len(s) = Cardinality(S) <=> S \subseteq Elements(s)
  <2>1. Cardinality(Elements(s)) = Len(s)
    BY <1>1, ElementsCounted
  <2>2. /\ Cardinality(Elements(s)) <= Cardinality(S)
        /\ Cardinality(S) = Cardinality(Elements(s)) => S = Elements(s)
    BY <1>1, FS_Subset
  <2>3. S \subseteq Elements(s) => S = Elements(s)
    BY <1>1
  <2> QED BY <2>1, <2>2, <2>3
<1>5. ASSUME NEW i \in 1 .. Len(s)
      PROVE  (CHOOSE n \in S : P(n, i)) = s[i]
  <2>1. s[i] \in S /\ P(s[i], i) /\ \A n \in S : P(n, i) => n = s[i]
    BY <1>2, <1>3
  <2> HIDE DEF P
  <2> QED BY <2>1
<1>6. Newest(S, Len(s)) = [i \in 1 .. Len(s) |-> CHOOSE n \in S : P(n, i)]
  <2>1. Cardinality(S) \in Nat
    BY FS_CardinalityType
  <2>2. (IF Cardinality(S) < Len(s) THEN Cardinality(S) ELSE Len(s)) = Len(s)
    BY <1>1, <1>4, <2>1
  <2> QED BY <2>2 DEF Newest
<1> HIDE DEF P
<1>7. s = [i \in 1 .. Len(s) |-> CHOOSE n \in S : P(n, i)]
  BY <1>1, <1>5
<1> QED BY <1>4, <1>6, <1>7

LEMMA HeadsExist ==
  ASSUME NEW n \in Nat, NEW S \in SUBSET (0 .. n), IsFiniteSet(S), NEW m \in 0 .. Cardinality(S)
  PROVE  \E s : Heads(s, S) /\ Len(s) = m
<1> DEFINE Reached == {k \in 0 .. Cardinality(S) : \E s : Heads(s, S) /\ Len(s) = k}
<1>0. Cardinality(S) \in Nat
  BY FS_CardinalityType
<1>1. 0 \in Reached
  <2> DEFINE s == <<>>
  <2>1. s \in Seq(Nat) /\ Len(s) = 0 /\ DOMAIN s = {}
    OBVIOUS
  <2> HIDE DEF s
  <2>2. Heads(s, S)
    BY <2>1 DEF Heads, Falls, Elements
  <2> QED BY <1>0, <2>1, <2>2
<1>2. ASSUME NEW k \in 1 .. Cardinality(S), k - 1 \in Reached
      PROVE  k \in Reached
  <2>1. PICK s : Heads(s, S) /\ Len(s) = k - 1
    BY <1>2
  <2>2. s \in Seq(Nat) /\ Falls(s) /\ Elements(s) \subseteq S
    BY <2>1 DEF Heads
  <2>3. S \ Elements(s) # {}
    <3>1. IsFiniteSet(Elements(s)) /\ Cardinality(Elements(s)) = k - 1
      BY <2>1, <2>2, ElementsCounted
    <3>2. SUFFICES ASSUME S \ Elements(s) = {} PROVE FALSE
      OBVIOUS
    <3>3. S = Elements(s)
      BY <2>2, <3>2
    <3> QED BY <1>0, <3>1, <3>3
  <2>4. S \ Elements(s) \in SUBSET (0 .. n)
    OBVIOUS
  <2>5. PICK top \in S \ Elements(s) : \A j \in S \ Elements(s) : j <= top
    BY <2>3, <2>4, GreatestNumber
  <2> DEFINE t == Append(s, top)
  <2>6. /\ t \in Seq(Nat) /\ Len(t) = k /\ t[k] = top
        /\ DOMAIN s = 1 .. k - 1 /\ DOMAIN t = 1 .. k
        /\ \A i \in 1 .. k - 1 : t[i] = s[i]
    BY <2>1, <2>2
  <2>7. top \in Nat /\ k \in Nat /\ \A i \in 1 .. k - 1 : s[i] > top /\ s[i] \in Nat
    <3>1. \A i \in DOMAIN s : s[i] > top
      BY <2>1 DEF Heads
    <3>2. top \in Nat /\ k \in Nat
      BY <1>0
    <3>3. \A i \in 1 .. k - 1 : s[i] \in Nat
      BY <2>2, <2>6
    <3> QED BY <2>6, <3>1, <3>2, <3>3
  <2> HIDE DEF t
  <2>8. Falls(t)
    <3> SUFFICES ASSUME NEW i \in 1 .. k, NEW j \in 1 .. k, i < j PROVE t[i] > t[j]
      BY <2>6 DEF Falls
    <3>1. i \in 1 .. k - 1 /\ t[i] = s[i]
      BY <2>6, <2>7
    <3>2. CASE j = k
      BY <2>6, <2>7, <3>1, <3>2
    <3>3. CASE j # k
      <4>1. j \in 1 .. k - 1 /\ t[j] = s[j]
        BY <2>6, <2>7, <3>3
      <4> QED BY <2>2, <2>6, <3>1, <4>1 DEF Falls
    <3> QED BY <3>2, <3>3
  <2>9. Elements(t) = Elements(s) \cup {top}
    <3>1. \A i \in 1 .. k : i \in 1 .. k - 1 \/ i = k
      BY <2>7
    <3>2. k \in 1 .. k /\ 1 .. k - 1 \subseteq 1 .. k
      BY <2>7
    <3> QED BY <2>6, <3>1, <3>2 DEF Elements
  <2>10. \A j \in S \ Elements(t) : \A i \in DOMAIN t : t[i] > j
    <3> SUFFICES ASSUME NEW j \in S \ Elements(t), NEW i \in 1 .. k
                 PROVE  t[i] > j
      BY <2>6
    <3>1. j \in Nat /\ j < top /\ j \in S \ Elements(s)
      BY <2>5, <2>7, <2>9
    <3> QED BY <2>6, <2>7, <3>1
  <2>11. Heads(t, S)
    BY <2>2, <2>5, <2>6, <2>8, <2>9, <2>10 DEF Heads
  <2> QED BY <2>6, <2>11
<1> HIDE DEF Reached
<1>3. m \in Reached
  BY <1>0, <1>1, <1>2, UpTo
<1> QED BY <1>3 DEF Reached

LEMMA NewestHeads ==
  ASSUME NEW n \in Nat, NEW S \in SUBSET (0 .. n), NEW lim \in Nat
  PROVE  /\ IsFiniteSet(S)
         /\ Heads(Newest(S, lim), S)
         /\ Len(Newest(S, lim)) >= lim \/ S \subseteq Elements(Newest(S, lim))
         /\ Len(Newest(S, lim)) \in Nat /\ Len(Newest(S, lim)) <= lim
<1>1. IsFiniteSet(S)
  <2>1. S \in SUBSET Nat /\ \A x \in S : x <= n
    OBVIOUS
  <2> QED BY <2>1, FS_BoundedSetOfNaturals
<1> DEFINE m == IF Cardinality(S) < lim THEN Cardinality(S) ELSE lim
<1>2. Cardinality(S) \in Nat
  BY <1>1, FS_CardinalityType
<1>3. m \in 0 .. Cardinality(S) /\ m <= lim
  BY <1>2
<1>4. PICK s : Heads(s, S) /\ Len(s) = m
  BY <1>1, <1>3, HeadsExist
<1>5. /\ s = Newest(S, m)
      /\ m = Cardinality(S) <=> S \subseteq Elements(s)
  BY <1>1, <1>4, HeadsAreNewest
<1>6. Newest(S, m) = Newest(S, lim)
  <2>1. (IF Cardinality(S) < m THEN Cardinality(S) ELSE m) = m
    BY <1>2
  <2> HIDE DEF m
  <2>2. Newest(S, m) = [i \in 1 .. m |-> CHOOSE x \in S : Cardinality({k \in S : k >= x}) = i]
    BY <2>1 DEF Newest
  <2>3. Newest(S, lim) = [i \in 1 .. m |-> CHOOSE x \in S : Cardinality({k \in S : k >= x}) = i]
    BY DEF Newest, m
  <2> QED BY <2>2, <2>3
<1>7. m >= lim \/ m = Cardinality(S)
  BY <1>2
<1> QED BY <1>1, <1>3, <1>4, <1>5, <1>6, <1>7

-----------------------------------------------------------------------------
(* What a query in flight is made of, and what a step does to it.          *)
LoadParts == {"at", "devices", "events", "limit", "newest", "quiet", "halfway", "passed"}
ALoad(r) == r = [part \in LoadParts |-> r[part]]
SameLoad(r, s) ==
  /\ r.at = s.at /\ r.devices = s.devices /\ r.events = s.events /\ r.limit = s.limit
  /\ r.quiet = s.quiet /\ r.halfway = s.halfway

LEMMA LoadPasses ==
  ASSUME NEW r, ALoad(r), NEW x, NEW s, s = [r EXCEPT !.passed = x]
  PROVE  ALoad(s) /\ SameLoad(s, r) /\ s.passed = x
BY DEF ALoad, LoadParts, SameLoad

LEMMA LoadOlder ==
  ASSUME NEW r, ALoad(r), NEW x, NEW s, s = [r EXCEPT !.newest = x]
  PROVE  ALoad(s) /\ SameLoad(s, r) /\ s.passed = r.passed
BY DEF ALoad, LoadParts, SameLoad

AsLoad(r, s) ==
  /\ r.at = s.at /\ r.devices = s.devices /\ r.events = s.events /\ r.limit = s.limit
  /\ r.quiet = s.quiet /\ r.passed = s.passed

LEMMA LoadHalfway ==
  ASSUME NEW r, ALoad(r), NEW x, NEW s, s = [r EXCEPT !.halfway = x]
  PROVE  ALoad(s) /\ AsLoad(s, r) /\ s.halfway = x
BY DEF ALoad, LoadParts, AsLoad

LEMMA NoLoadIs ==
  /\ ALoad(NoLoad) /\ NoLoad.at = "none" /\ NoLoad.passed = FALSE /\ NoLoad.limit = 0
  /\ NoLoad.devices \in [Objects -> Int]
<1>1. ALoad(NoLoad)
  BY DEF ALoad, LoadParts, NoLoad
<1>2. NoLoad.at = "none" /\ NoLoad.limit = 0
  BY DEF NoLoad
<1>3. NoLoad.passed = FALSE
  BY DEF NoLoad
<1>4. NoLoad.devices = [d \in Objects |-> 0]
  BY DEF NoLoad
<1> QED BY <1>1, <1>2, <1>3, <1>4

LEMMA ReloadingIs ==
  ASSUME NEW size, NEW s, s = Reloading(size)
  PROVE  /\ ALoad(s) /\ s.at = "events" /\ s.devices = stored /\ s.limit = size
         /\ s.quiet = Quiet /\ s.passed = FALSE
<1> HIDE DEF NoLoad
<1> QED BY NoLoadIs DEF ALoad, LoadParts, Reloading

LoadingMore(g, size, f) ==
  [NoLoad EXCEPT !.at = "more", !.events = g, !.limit = size, !.halfway = f]

(* Types.                                                                  *)
Updates == Seq(Objects \X Int)
Channels == {"update", "event", "deleted"}
Stages == {"none", "events", "read", "more"}

TablesTyped(t, s, n, k, em) ==
  /\ t \in [Objects -> Int]
  /\ s \in 0 .. Len(Owner) /\ n \in 0 .. Len(Owner) /\ k \in SUBSET (1 .. s)
  /\ em = [update |-> em.update, deleted |-> em.deleted]
  /\ em.update \in {NoUpdate} \cup (Objects \X Int) /\ em.deleted \in Objects \cup {0}
QueuesTyped(q, ph) ==
  /\ q = [c \in Channels |-> q[c]]
  /\ q.update \in Updates /\ q.event \in Seq(Nat) /\ q.deleted \in Seq(Objects)
  /\ ph # "running" => q.event = <<>>
TypedLoad(r, ph) ==
  /\ ALoad(r) /\ r.at \in Stages /\ r.passed \in BOOLEAN
  /\ r.limit \in Nat
  /\ r.devices \in [Objects -> Int]
  /\ ph # "running" => r.at = "none"
LoadsTyped(ls, ph) == DOMAIN ls = Requests /\ \A c \in Requests : TypedLoad(ls[c], ph)

ListsTypes ==
  /\ TablesTyped(stored, saved, told, kept, emitting)
  /\ QueuesTyped(queued, phase) /\ LoadsTyped(loads, phase)
  /\ phase \in {"events", "subscribe", "running"}
  /\ shown \in [Objects -> Int] /\ limit \in Nat
  /\ removed \in Objects \cup {0} /\ (ui # "fyne" => removed = 0)
  /\ changes \in Int

LEMMA ListsTypesStart == ListsInit => ListsTypes
<1> SUFFICES ASSUME ListsInit PROVE ListsTypes
  OBVIOUS
<1>1. PICK b \in Beginnings : changes = b[1] /\ asked = b[2] /\ saved = b[3] /\ limit = b[4]
  BY DEF ListsInit
<1>2. /\ kept = 1 .. saved /\ told = saved
      /\ emitting = [update |-> NoUpdate, deleted |-> 0] /\ phase = "events"
      /\ stored \in [Objects -> {0, 1}] /\ shown = stored
      /\ queued = [update |-> <<>>, event |-> <<>>, deleted |-> <<>>] /\ removed = 0
      /\ loads = [c \in Requests |-> NoLoad]
  BY DEF ListsInit
<1>3. /\ changes \in Int /\ saved \in 0 .. Len(Owner) /\ limit \in Nat
  BY <1>1, ListsAssumption
<1>4. TablesTyped(stored, saved, told, kept, emitting)
  BY <1>2, <1>3 DEF TablesTyped
<1>5. QueuesTyped(queued, phase)
  BY <1>2 DEF QueuesTyped, Channels, Updates
<1>6. LoadsTyped(loads, phase)
  <2>0. NoLoad.passed \in BOOLEAN
    BY NoLoadIs
  <2>1. TypedLoad(NoLoad, phase)
    BY <2>0, NoLoadIs DEF TypedLoad, Stages
  <2> QED BY <1>2, <2>1 DEF LoadsTyped
<1> QED BY <1>2, <1>3, <1>4, <1>5, <1>6 DEF ListsTypes

LEMMA PassesAll ==
  ASSUME LoadsTyped(loads, phase), loads' = Passed
  PROVE  /\ LoadsTyped(loads', phase)
         /\ \A c \in Requests : /\ SameLoad(loads'[c], loads[c])
                                /\ loads'[c].passed = (loads[c].at # "none")
<1>1. ASSUME NEW c \in Requests
      PROVE  /\ ALoad(loads'[c]) /\ SameLoad(loads'[c], loads[c])
             /\ loads'[c].passed = (loads[c].at # "none")
  <2>1. loads'[c] = [loads[c] EXCEPT !.passed = loads[c].at # "none"]
    BY DEF Passed
  <2>2. ALoad(loads[c])
    BY DEF LoadsTyped, TypedLoad
  <2> QED BY <2>1, <2>2, LoadPasses
<1>2. DOMAIN loads' = Requests
  BY DEF Passed
<1>3. ASSUME NEW c \in Requests
      PROVE  TypedLoad(loads'[c], phase)
  <2>1. TypedLoad(loads[c], phase)
    BY DEF LoadsTyped
  <2>2. loads'[c].passed \in BOOLEAN
    BY <1>1, Zenon
  <2> QED BY <1>1, <2>1, <2>2 DEF TypedLoad, SameLoad
<1> QED BY <1>1, <1>2, <1>3 DEF LoadsTyped

LEMMA Overtakes ==
  ASSUME LoadsTyped(loads, phase), NEW ls, ls = Overtaken
  PROVE  /\ LoadsTyped(ls, phase)
         /\ \A c \in Requests : /\ AsLoad(ls[c], loads[c])
                                /\ ls[c].at \in {"read", "more"} => ls[c].halfway
<1>1. ASSUME NEW c \in Requests
      PROVE  /\ TypedLoad(ls[c], phase) /\ AsLoad(ls[c], loads[c])
             /\ ls[c].at \in {"read", "more"} => ls[c].halfway
  <2> DEFINE r == loads[c]
             x == r.halfway \/ r.at \in {"read", "more"}
  <2>1. ls[c] = [r EXCEPT !.halfway = x]
    BY DEF Overtaken
  <2>2. TypedLoad(r, phase)
    BY DEF LoadsTyped
  <2>3. r.at \in {"read", "more"} => x
    OBVIOUS
  <2> HIDE DEF r, x
  <2>4. ALoad(ls[c]) /\ AsLoad(ls[c], r) /\ ls[c].halfway = x
    BY <2>1, <2>2, LoadHalfway DEF TypedLoad
  <2>5. TypedLoad(ls[c], phase)
    BY <2>2, <2>4 DEF TypedLoad, AsLoad
  <2>6. ls[c].at \in {"read", "more"} => ls[c].halfway
    BY <2>3, <2>4 DEF AsLoad
  <2> QED BY <2>4, <2>5, <2>6 DEF r
<1>2. DOMAIN ls = Requests
  BY DEF Overtaken
<1> QED BY <1>1, <1>2 DEF LoadsTyped

LEMMA Lost ==
  ASSUME NEW what, Loses(what)
  PROVE  /\ lost' = lost \cup what
         /\ what = {} => loads' = loads
         /\ what # {} => loads' = Passed
BY DEF Loses

(* What becomes of an item offered to a channel.                           *)
Kind(channel) == IF channel = "event" THEN "events" ELSE "objects"

LEMMA Offered ==
  ASSUME QueuesTyped(queued, phase), NEW channel \in Channels, NEW item,
         NEW subscribed \in BOOLEAN, NEW gap \in BOOLEAN,
         Offer(channel, item, subscribed, gap)
  PROVE  /\ \/ queued' = queued
            \/ queued' = [queued EXCEPT ![channel] = Append(@, item)] /\ subscribed
         /\ \/ lost' = lost \cup {Kind(channel)} /\ loads' = Passed
            \/ /\ lost' = lost /\ loads' = loads
               /\ \/ /\ subscribed /\ (ui # "fyne" \/ channel = "deleted")
                     /\ queued' = [queued EXCEPT ![channel] = Append(@, item)]
                  \/ ~ subscribed /\ ~ gap /\ queued' = queued
<1> DEFINE full == ~ subscribed \/ Len(queued[channel]) = PendingCap
<1>1. CASE full
  <2>1. queued' = queued /\ Loses(If(subscribed \/ gap, Kind(channel)))
    BY <1>1 DEF Offer, Kind
  <2>2. CASE subscribed \/ gap
    <3>1. If(subscribed \/ gap, Kind(channel)) = {Kind(channel)}
      BY <2>2 DEF If
    <3> QED BY <2>1, <3>1, Lost
  <2>3. CASE ~ (subscribed \/ gap)
    <3>1. If(subscribed \/ gap, Kind(channel)) = {}
      BY <2>3 DEF If
    <3>2. lost' = lost /\ loads' = loads
      BY <2>1, <3>1, Lost
    <3> QED BY <2>1, <2>3, <3>2
  <2> QED BY <2>2, <2>3
<1>2. CASE ~ full
  <2>1. /\ queued' = [queued EXCEPT ![channel] = Append(@, item)]
        /\ Loses(IF ui # "fyne" \/ channel = "deleted" THEN {} ELSE {Kind(channel)})
    BY <1>2 DEF Offer, Kind
  <2>2. subscribed
    BY <1>2
  <2>3. CASE ui # "fyne" \/ channel = "deleted"
    <3>1. Loses({})
      BY <2>1, <2>3
    <3>2. lost' = lost /\ loads' = loads
      BY <3>1, Lost
    <3> QED BY <2>1, <2>2, <2>3, <3>2
  <2>4. CASE ~ (ui # "fyne" \/ channel = "deleted")
    <3>1. Loses({Kind(channel)})
      BY <2>1, <2>4
    <3> QED BY <2>1, <2>2, <3>1, Lost
  <2> QED BY <2>3, <2>4
<1> QED BY <1>1, <1>2

LEMMA QueueGrows ==
  ASSUME NEW q, q = [c \in Channels |-> q[c]], NEW channel \in Channels, NEW item,
         NEW r, r = [q EXCEPT ![channel] = Append(@, item)]
  PROVE  /\ r = [c \in Channels |-> r[c]] /\ r[channel] = Append(q[channel], item)
         /\ \A c \in Channels \ {channel} : r[c] = q[c]
OBVIOUS

-----------------------------------------------------------------------------
(* The objects.  What is due for an object is what the screen will show of *)
(* it once everything on its way has come: the update or the deletion      *)
(* being reported, else what the channels hold, else what a list has.      *)
Landed(dev, q) == Applied(Without(dev, Elements(q.deleted)), q.update)
Conflict(q, d) == d \in Elements(q.deleted) /\ \E u \in Elements(q.update) : u[1] = d
Both(em) == em.update # NoUpdate /\ em.update[1] = em.deleted
Due(dev, em, q, d) ==
  IF em.update # NoUpdate /\ em.update[1] = d THEN em.update[2]
  ELSE IF em.deleted = d THEN 0 ELSE Landed(dev, q)[d]
Settled(x, y) == x = y \/ (y = Bare /\ x = 0)

Sound(u, dev, tbl, em, q, rem) ==
  IF u = "fyne"
  THEN em.update = NoUpdate => \A d \in Objects : d = rem \/ Settled(dev[d], tbl[d])
  ELSE /\ ~ Both(em)
       /\ \A d \in Objects : Conflict(q, d) \/ Settled(Due(dev, em, q, d), tbl[d])

ObjectsInv ==
  /\ "objects" \notin lost => Sound(ui, shown, stored, emitting, queued, removed)
  /\ \A c \in Requests :
       /\ loads[c].at \in {"events", "read"} /\ ~ loads[c].passed
       /\ loads[c].quiet \/ "objects" \notin lost
       => Sound(ui, loads[c].devices, stored, emitting, queued, removed)

(* The last update of an object in a channel.                              *)
Of(us, k) == {i \in DOMAIN us : us[i][1] = k}

LEMMA LastOf ==
  ASSUME NEW us \in Updates, NEW k, Of(us, k) # {}
  PROVE  LET last == CHOOSE i \in Of(us, k) : \A j \in Of(us, k) : j <= i
         IN last \in Of(us, k) /\ last \in DOMAIN us
<1>1. Of(us, k) \in SUBSET (0 .. Len(us)) /\ Len(us) \in Nat
  BY DEF Of, Updates
<1>2. \E i \in Of(us, k) : \A j \in Of(us, k) : j <= i
  BY <1>1, GreatestNumber
<1> QED BY <1>2 DEF Of

Appended(vs, us, d, v) == vs = Append(us, <<d, v>>)

LEMMA AppliedAppend ==
  ASSUME NEW us \in Updates, NEW d \in Objects, NEW v \in Int, NEW dev,
         NEW k \in Objects, NEW vs, Appended(vs, us, d, v)
  PROVE  /\ k = d => Applied(dev, vs)[k] = v
         /\ k # d => Applied(dev, vs)[k] = Applied(dev, us)[k]
<1> DEFINE n == Len(us)
           last(ws) == CHOOSE i \in Of(ws, k) : \A j \in Of(ws, k) : j <= i
<1>1. \A ws : Applied(dev, ws)[k] = IF Of(ws, k) = {} THEN dev[k] ELSE ws[last(ws)][2]
  BY DEF Applied, Of
<1>2. /\ n \in Nat /\ DOMAIN us = 1 .. n /\ DOMAIN vs = 1 .. n + 1
      /\ vs[n + 1] = <<d, v>> /\ \A i \in 1 .. n : vs[i] = us[i]
  BY DEF Appended, Updates
<1>3. CASE k = d
  <2>1. n + 1 \in Of(vs, k)
    BY <1>2, <1>3 DEF Of
  <2>2. \A j \in Of(vs, k) : j \in Int /\ j <= n + 1
    BY <1>2 DEF Of
  <2>3. last(vs) = n + 1
    BY <1>2, <2>1, <2>2
  <2> HIDE DEF last
  <2>4. Applied(dev, vs)[k] = vs[n + 1][2]
    BY <1>1, <2>1, <2>3
  <2> QED BY <1>2, <1>3, <2>4
<1>4. CASE k # d
  <2>1. Of(vs, k) = Of(us, k)
    BY <1>2, <1>4 DEF Of
  <2>2. Of(us, k) # {} => last(us) \in DOMAIN us
    BY LastOf
  <2>3. last(vs) = last(us)
    BY <2>1
  <2> HIDE DEF last
  <2>4. Of(us, k) # {} => vs[last(vs)] = us[last(us)]
    BY <1>2, <2>2, <2>3
  <2>5. Applied(dev, vs)[k] = Applied(dev, us)[k]
    BY <1>1, <2>1, <2>4
  <2> QED BY <1>4, <2>5
<1> QED BY <1>3, <1>4

LEMMA LandedUpdate ==
  ASSUME NEW q, NEW r, q.update \in Updates, NEW d \in Objects, NEW v \in Int,
         r.update = Append(q.update, <<d, v>>), r.deleted = q.deleted, NEW dev
  PROVE  /\ \A k \in Objects : Landed(dev, r)[k] = IF k = d THEN v ELSE Landed(dev, q)[k]
         /\ \A k \in Objects : Conflict(q, k) => Conflict(r, k)
<1>1. Elements(q.update) \subseteq Elements(r.update)
  <2>1. \A i \in DOMAIN q.update : i \in DOMAIN r.update /\ r.update[i] = q.update[i]
    BY DEF Updates
  <2> QED BY <2>1 DEF Elements
<1>2. \A k \in Objects : Conflict(q, k) => Conflict(r, k)
  BY <1>1 DEF Conflict
<1> DEFINE D == Without(dev, Elements(q.deleted))
<1>3. ASSUME NEW k \in Objects
      PROVE  Landed(dev, r)[k] = IF k = d THEN v ELSE Landed(dev, q)[k]
  <2>1. Landed(dev, r) = Applied(D, r.update) /\ Landed(dev, q) = Applied(D, q.update)
    BY DEF Landed
  <2> DEFINE us == q.update
             vs == r.update
  <2>2. us \in Updates /\ Appended(vs, us, d, v)
    BY DEF Appended
  <2> HIDE DEF D, us, vs
  <2>3. /\ k = d => Applied(D, vs)[k] = v
        /\ k # d => Applied(D, vs)[k] = Applied(D, us)[k]
    BY <2>2, AppliedAppend
  <2> QED BY <2>1, <2>3 DEF us, vs
<1> QED BY <1>2, <1>3

LEMMA AppliedTo ==
  ASSUME NEW us, NEW dev, NEW k \in Objects
  PROVE  /\ Of(us, k) = {} => Applied(dev, us)[k] = dev[k]
         /\ \A other : Of(us, k) # {} => Applied(dev, us)[k] = Applied(other, us)[k]
         /\ Of(us, k) # {} <=> \E u \in Elements(us) : u[1] = k
BY DEF Applied, Of, Elements

LEMMA LandedDeletion ==
  ASSUME NEW q, NEW r, q.deleted \in Seq(Objects), NEW d \in Objects,
         r.deleted = Append(q.deleted, d), r.update = q.update, NEW dev
  PROVE  /\ \A k \in Objects \ {d} : Landed(dev, r)[k] = Landed(dev, q)[k]
         /\ Conflict(r, d) \/ Landed(dev, r)[d] = 0
         /\ \A k \in Objects : Conflict(q, k) => Conflict(r, k)
<1>1. Elements(r.deleted) = Elements(q.deleted) \cup {d}
  <2> DEFINE n == Len(q.deleted)
  <2>1. /\ n \in Nat /\ DOMAIN q.deleted = 1 .. n /\ DOMAIN r.deleted = 1 .. n + 1
        /\ r.deleted[n + 1] = d /\ \A i \in 1 .. n : r.deleted[i] = q.deleted[i]
    OBVIOUS
  <2>2. \A i \in 1 .. n + 1 : i \in 1 .. n \/ i = n + 1
    BY <2>1
  <2>3. n + 1 \in 1 .. n + 1 /\ 1 .. n \subseteq 1 .. n + 1
    BY <2>1
  <2> HIDE DEF n
  <2> QED BY <2>1, <2>2, <2>3 DEF Elements
<1> DEFINE D == Without(dev, Elements(q.deleted))
           E == Without(dev, Elements(r.deleted))
<1>2. \A k \in Objects \ {d} : E[k] = D[k]
  BY <1>1 DEF Without
<1>3. E[d] = 0
  BY <1>1 DEF Without
<1>4. \A k \in Objects \ {d} : Applied(E, r.update)[k] = Applied(D, q.update)[k]
  BY <1>2, AppliedTo
<1>5. Conflict(r, d) \/ Applied(E, r.update)[d] = 0
  BY <1>1, <1>3, AppliedTo DEF Conflict
<1>6. \A k \in Objects : Conflict(q, k) => Conflict(r, k)
  BY <1>1 DEF Conflict
<1> QED BY <1>4, <1>5, <1>6 DEF Landed

LEMMA LandedNothing ==
  ASSUME NEW q, q.update = <<>>, q.deleted = <<>>, NEW dev, NEW k \in Objects
  PROVE  Landed(dev, q)[k] = dev[k] /\ ~ Conflict(q, k)
<1>1. Elements(<<>>) = {} /\ Of(<<>>, k) = {}
  BY DEF Elements, Of
<1> QED BY <1>1, AppliedTo DEF Landed, Conflict, Without

LEMMA LandedOver ==
  ASSUME NEW q, NEW dev, NEW other, NEW k \in Objects
  PROVE  \/ Landed(dev, q)[k] = Landed(other, q)[k]
         \/ Landed(dev, q)[k] = dev[k]
<1>1. CASE Of(q.update, k) # {}
  BY <1>1, AppliedTo DEF Landed
<1>2. CASE Of(q.update, k) = {}
  BY <1>2, AppliedTo DEF Landed, Without
<1> QED BY <1>1, <1>2

-----------------------------------------------------------------------------
(* Types are kept.                                                         *)
LEMMA LosesTyped ==
  ASSUME LoadsTyped(loads, phase), NEW what, Loses(what)
  PROVE  LoadsTyped(loads', phase)
<1>1. loads' = loads \/ loads' = Passed
  BY Lost
<1> QED BY <1>1, PassesAll

LEMMA OfferTyped ==
  ASSUME QueuesTyped(queued, phase), LoadsTyped(loads, phase), NEW channel \in Channels,
         NEW item, NEW subscribed \in BOOLEAN, NEW gap \in BOOLEAN,
         Offer(channel, item, subscribed, gap),
         channel = "update" => item \in Objects \X Int,
         channel = "event" => item \in Nat /\ (subscribed => phase = "running"),
         channel = "deleted" => item \in Objects
  PROVE  QueuesTyped(queued', phase) /\ LoadsTyped(loads', phase)
<1>1. LoadsTyped(loads', phase)
  <2>1. loads' = loads \/ loads' = Passed
    BY Offered
  <2> QED BY <2>1, PassesAll
<1>2. QueuesTyped(queued', phase)
  <2>1. CASE queued' = queued
    BY <2>1
  <2>2. CASE queued' = [queued EXCEPT ![channel] = Append(@, item)] /\ subscribed
    <3> DEFINE r == queued'
    <3>1. /\ queued = [c \in Channels |-> queued[c]]
          /\ queued.update \in Updates /\ queued.event \in Seq(Nat)
          /\ queued.deleted \in Seq(Objects)
          /\ phase # "running" => queued.event = <<>>
      BY DEF QueuesTyped
    <3>2. r = [queued EXCEPT ![channel] = Append(@, item)]
      BY <2>2
    <3> HIDE DEF r
    <3>3. /\ r = [c \in Channels |-> r[c]] /\ r[channel] = Append(queued[channel], item)
          /\ \A c \in Channels \ {channel} : r[c] = queued[c]
      BY <3>1, <3>2, QueueGrows
    <3>4. r.update \in Updates
      <4>1. CASE channel = "update"
        <5>1. r.update = Append(queued.update, item)
          BY <3>3, <4>1
        <5> QED BY <3>1, <4>1, <5>1 DEF Updates
      <4>2. CASE channel # "update"
        <5>1. r.update = queued.update
          BY <3>3, <4>2 DEF Channels
        <5> QED BY <3>1, <5>1
      <4> QED BY <4>1, <4>2
    <3>5. r.event \in Seq(Nat)
      <4>1. CASE channel = "event"
        <5>1. r.event = Append(queued.event, item)
          BY <3>3, <4>1
        <5> QED BY <3>1, <4>1, <5>1
      <4>2. CASE channel # "event"
        <5>1. r.event = queued.event
          BY <3>3, <4>2 DEF Channels
        <5> QED BY <3>1, <5>1
      <4> QED BY <4>1, <4>2
    <3>6. r.deleted \in Seq(Objects)
      <4>1. CASE channel = "deleted"
        <5>1. r.deleted = Append(queued.deleted, item)
          BY <3>3, <4>1
        <5> QED BY <3>1, <4>1, <5>1
      <4>2. CASE channel # "deleted"
        <5>1. r.deleted = queued.deleted
          BY <3>3, <4>2 DEF Channels
        <5> QED BY <3>1, <5>1
      <4> QED BY <4>1, <4>2
    <3>7. phase # "running" => r.event = <<>>
      BY <2>2, <3>1, <3>3 DEF Channels
    <3>8. QueuesTyped(r, phase)
      BY <3>3, <3>4, <3>5, <3>6, <3>7 DEF QueuesTyped
    <3> QED BY <3>8 DEF r
  <2>3. \/ queued' = queued
        \/ queued' = [queued EXCEPT ![channel] = Append(@, item)] /\ subscribed
    BY Offered
  <2> QED BY <2>1, <2>2, <2>3
<1> QED BY <1>1, <1>2

LEMMA EmittingChanges ==
  ASSUME NEW em, em = [update |-> em.update, deleted |-> em.deleted], NEW x
  PROVE  /\ LET e == [em EXCEPT !.update = x]
            IN e = [update |-> x, deleted |-> em.deleted] /\ e.update = x /\ e.deleted = em.deleted
         /\ LET e == [em EXCEPT !.deleted = x]
            IN e = [update |-> em.update, deleted |-> x] /\ e.update = em.update /\ e.deleted = x
OBVIOUS

LEMMA RequestTyped ==
  ASSUME NEW others, LoadsTyped(others, phase), NEW c \in Requests, NEW load,
         Request(c, load, others), TypedLoad(load, "running")
  PROVE  LoadsTyped(loads', phase') /\ phase' = phase
<1>1. /\ phase = "running" /\ phase' = phase
      /\ loads' = [k \in Requests |-> IF k = c THEN load
                     ELSE [others[k] EXCEPT !.newest = @ /\ load.at = "more"]]
  BY DEF Request
<1>2. ASSUME NEW k \in Requests
      PROVE  TypedLoad(loads'[k], phase)
  <2>1. CASE k = c
    BY <1>1, <2>1
  <2>2. CASE k # c
    <3> DEFINE r == others[k]
               s == [r EXCEPT !.newest = r.newest /\ load.at = "more"]
    <3>1. loads'[k] = s
      BY <1>1, <2>2
    <3>2. TypedLoad(r, phase)
      BY DEF LoadsTyped
    <3>3. ALoad(s) /\ SameLoad(s, r) /\ s.passed = r.passed
      BY <3>2, LoadOlder DEF TypedLoad
    <3> HIDE DEF r, s
    <3>4. TypedLoad(s, phase)
      BY <3>2, <3>3 DEF TypedLoad, SameLoad
    <3> QED BY <3>1, <3>4
  <2> QED BY <2>1, <2>2
<1> QED BY <1>1, <1>2 DEF LoadsTyped

LEMMA Emptied ==
  ASSUME LoadsTyped(loads, phase), NEW c \in Requests,
         loads' = Answered(c) \/ loads' = [loads EXCEPT ![c] = NoLoad]
  PROVE  /\ LoadsTyped(loads', phase) /\ loads'[c] = NoLoad
         /\ \A k \in Requests \ {c} :
              /\ SameLoad(loads'[k], loads[k])
              /\ loads' = Answered(c) => loads'[k].passed = (loads[k].at # "none")
              /\ loads' # Answered(c) => loads'[k].passed = loads[k].passed
<1>0. TypedLoad(NoLoad, phase)
  <2>1. NoLoad.passed \in BOOLEAN
    BY NoLoadIs
  <2> QED BY <2>1, NoLoadIs DEF TypedLoad, Stages
<1>1. CASE loads' = Answered(c)
  <2>1. DOMAIN loads' = Requests /\ loads'[c] = NoLoad
    BY <1>1 DEF Answered, Passed
  <2>2. ASSUME NEW k \in Requests \ {c}
        PROVE  /\ TypedLoad(loads'[k], phase) /\ SameLoad(loads'[k], loads[k])
               /\ loads'[k].passed = (loads[k].at # "none")
    <3>1. loads'[k] = [loads[k] EXCEPT !.passed = loads[k].at # "none"]
      BY <1>1 DEF Answered, Passed
    <3>2. TypedLoad(loads[k], phase)
      BY DEF LoadsTyped
    <3>3. /\ ALoad(loads'[k]) /\ SameLoad(loads'[k], loads[k])
          /\ loads'[k].passed = (loads[k].at # "none")
      BY <3>1, <3>2, LoadPasses DEF TypedLoad
    <3>4. loads'[k].passed \in BOOLEAN
      BY <3>3, Zenon
    <3>5. TypedLoad(loads'[k], phase)
      BY <3>2, <3>3, <3>4 DEF TypedLoad, SameLoad
    <3> QED BY <3>3, <3>5
  <2> QED BY <1>0, <1>1, <2>1, <2>2 DEF LoadsTyped
<1>2. CASE loads' # Answered(c)
  <2>1. DOMAIN loads' = Requests /\ loads'[c] = NoLoad
    BY <1>2 DEF LoadsTyped
  <2>2. \A k \in Requests \ {c} : loads'[k] = loads[k]
    BY <1>2 DEF LoadsTyped
  <2> QED BY <1>0, <1>2, <2>1, <2>2 DEF LoadsTyped, SameLoad
<1> QED BY <1>1, <1>2

LEMMA ReadingIs ==
  ASSUME LoadsTyped(loads, phase), NEW c \in Requests, QueryEvents(c)
  PROVE  /\ LoadsTyped(loads', phase) /\ loads[c].at = "events"
         /\ \A k \in Requests \ {c} : loads'[k] = loads[k]
         /\ LET r == loads[c]
                s == loads'[c]
                size == IF ui = "windows" THEN limit ELSE r.limit
            IN /\ s.at = "read" /\ s.halfway = (EventsHalfway \/ size < limit)
               /\ s.events = Newest(kept, size)
               /\ s.devices = r.devices /\ s.limit = r.limit /\ s.quiet = r.quiet
               /\ s.passed = r.passed
<1> DEFINE size == IF ui = "windows" THEN limit ELSE loads[c].limit
           h == EventsHalfway \/ size < limit
           g == Newest(kept, size)
           r == loads[c]
           s == [r EXCEPT !.at = "read", !.events = g, !.halfway = h]
<1>1. /\ loads' = [loads EXCEPT ![c].at = "read", ![c].events = g, ![c].halfway = h]
      /\ r.at = "events"
  BY DEF QueryEvents
<1>2. TypedLoad(r, phase) /\ DOMAIN loads = Requests
  BY DEF LoadsTyped
<1>3. loads'[c] = s /\ DOMAIN loads' = Requests /\ \A k \in Requests \ {c} : loads'[k] = loads[k]
  <2> HIDE DEF h, g
  <2> QED BY <1>1, <1>2
<1> HIDE DEF h, g, r
<1>4. /\ ALoad(s) /\ s.at = "read" /\ s.halfway = h /\ s.events = g
      /\ s.devices = r.devices /\ s.limit = r.limit /\ s.quiet = r.quiet
      /\ s.passed = r.passed
  BY <1>2 DEF TypedLoad, ALoad, LoadParts
<1> HIDE DEF s
<1>5. TypedLoad(s, phase)
  BY <1>1, <1>2, <1>4 DEF TypedLoad, Stages
<1>6. LoadsTyped(loads', phase)
  BY <1>3, <1>5 DEF LoadsTyped
<1> QED BY <1>1, <1>3, <1>4, <1>6 DEF r, h, g

LEMMA ListsTypesStep ==
  ASSUME ListsTypes, UNCHANGED ui, ListsNext \/ UNCHANGED listsVars
  PROVE  ListsTypes'
<1>1. /\ TablesTyped(stored, saved, told, kept, emitting)
      /\ QueuesTyped(queued, phase) /\ LoadsTyped(loads, phase)
      /\ phase \in {"events", "subscribe", "running"}
      /\ shown \in [Objects -> Int] /\ limit \in Nat
      /\ removed \in Objects \cup {0} /\ (ui # "fyne" => removed = 0)
      /\ changes \in Int /\ ui' = ui
      /\ FirstLimits \subseteq Nat /\ Chunk \in Nat /\ Len(Owner) \in Nat
      /\ \A n \in 1 .. Len(Owner) : Owner[n] \in Objects
  BY ListsAssumption DEF ListsTypes
<1>2. /\ stored \in [Objects -> Int]
      /\ saved \in 0 .. Len(Owner) /\ told \in 0 .. Len(Owner) /\ kept \in SUBSET (1 .. saved)
      /\ emitting = [update |-> emitting.update, deleted |-> emitting.deleted]
      /\ emitting.update \in {NoUpdate} \cup (Objects \X Int)
      /\ emitting.deleted \in Objects \cup {0}
  BY <1>1 DEF TablesTyped
<1> DEFINE Tables == TablesTyped(stored, saved, told, kept, emitting)'
           Queues == QueuesTyped(queued, phase)'
           Loads == LoadsTyped(loads, phase)'
           Rest == /\ phase \in {"events", "subscribe", "running"}
                   /\ shown \in [Objects -> Int] /\ limit \in Nat
                   /\ removed \in Objects \cup {0} /\ (ui # "fyne" => removed = 0)
                   /\ changes \in Int
<1>3. CASE SaveDevice
  <2>1. PICK d \in Objects, written \in BOOLEAN :
          /\ stored' = IF written THEN [stored EXCEPT ![d] = changes'] ELSE stored
          /\ emitting' = [emitting EXCEPT !.update = <<d, changes'>>]
          /\ Loses(If(~ written \/ emitting.deleted = d, "objects"))
    BY <1>3 DEF SaveDevice
  <2>2. /\ changes' = changes + 1
        /\ UNCHANGED <<kept, saved, told, phase, shown, limit, queued, removed>>
    BY <1>3 DEF SaveDevice, lists
  <2>3. changes' \in Int /\ stored' \in [Objects -> Int]
    BY <1>1, <1>2, <2>1, <2>2
  <2>4. Tables
    BY <1>2, <2>1, <2>2, <2>3, EmittingChanges DEF TablesTyped
  <2>5. Loads
    BY <1>1, <2>1, <2>2, LosesTyped
  <2> QED BY <1>1, <2>2, <2>3, <2>4, <2>5 DEF ListsTypes
<1>4. CASE DeleteDeviceWithHistory
  <2>1. PICK d \in Objects :
          /\ removed' = IF ui = "fyne" THEN d ELSE 0
          /\ stored' = [stored EXCEPT ![d] = 0]
          /\ kept' = kept \ EventsOf(d)
          /\ emitting' = [emitting EXCEPT !.deleted = d]
          /\ Loses(If(emitting.update # NoUpdate /\ emitting.update[1] = d, "objects")
                   \cup If(EventsOf(d) \cap (1 .. saved \cup 1 .. told) # {}, "events"))
    BY <1>4 DEF DeleteDeviceWithHistory
  <2>2. changes' = changes + 1 /\ UNCHANGED <<saved, told, phase, shown, limit, queued>>
    BY <1>4 DEF DeleteDeviceWithHistory, lists
  <2>3. changes' \in Int /\ stored' \in [Objects -> Int] /\ kept' \in SUBSET (1 .. saved)
    BY <1>1, <1>2, <2>1, <2>2, SMTT(30)
  <2>4. Tables
    BY <1>2, <2>1, <2>2, <2>3, EmittingChanges DEF TablesTyped
  <2>5. Loads
    BY <1>1, <2>1, <2>2, LosesTyped
  <2> QED BY <1>1, <2>1, <2>2, <2>3, <2>4, <2>5 DEF ListsTypes
<1>5. CASE StoreEvent
  <2>1. /\ saved < Len(Owner) /\ saved' = saved + 1 /\ kept' = kept \cup {saved'}
        /\ stored' = [stored EXCEPT ![Owner[saved']] = IF @ = 0 THEN Bare ELSE @]
        /\ UNCHANGED <<told, emitting, phase, shown, limit, queued, removed, loads, changes>>
    BY <1>5 DEF StoreEvent, lists
  <2>2. stored' \in [Objects -> Int]
    <3> DEFINE d == Owner[saved']
               v == IF stored[d] = 0 THEN Bare ELSE stored[d]
    <3>1. d \in Objects
      <4>1. saved' \in 1 .. Len(Owner)
        BY <1>1, <1>2, <2>1
      <4> QED BY <1>1, <4>1
    <3>2. v \in Int
      BY <1>2, <3>1 DEF Bare
    <3>3. stored' = [stored EXCEPT ![d] = v]
      BY <1>2, <2>1, <3>1
    <3> HIDE DEF d, v
    <3> QED BY <1>2, <3>1, <3>2, <3>3
  <2>3. saved' \in 0 .. Len(Owner) /\ kept' \in SUBSET (1 .. saved')
    BY <1>1, <1>2, <2>1
  <2>4. Tables
    BY <1>2, <2>1, <2>2, <2>3 DEF TablesTyped
  <2> QED BY <1>1, <2>1, <2>4 DEF ListsTypes
<1>6. CASE emitDevice
  <2>1. /\ emitting.update # NoUpdate
        /\ Offer("update", emitting.update, phase = "running", TRUE)
        /\ emitting' = [emitting EXCEPT !.update = NoUpdate]
        /\ UNCHANGED <<stored, kept, saved, told, phase, shown, limit, removed, changes>>
    BY <1>6 DEF emitDevice, lists
  <2>2. emitting.update \in Objects \X Int
    BY <1>2, <2>1
  <2>3. QueuesTyped(queued', phase) /\ LoadsTyped(loads', phase)
    <3>1. "update" \in Channels /\ (phase = "running") \in BOOLEAN
      BY DEF Channels
    <3> QED BY <1>1, <2>1, <2>2, <3>1, OfferTyped
  <2>4. Tables
    BY <1>2, <2>1, EmittingChanges DEF TablesTyped
  <2> QED BY <1>1, <2>1, <2>3, <2>4 DEF ListsTypes
<1>7. CASE emitDeleted
  <2>1. /\ emitting.deleted # 0
        /\ Offer("deleted", emitting.deleted, phase = "running" \/ ui = "fyne", TRUE)
        /\ emitting' = [emitting EXCEPT !.deleted = 0]
        /\ UNCHANGED <<stored, kept, saved, told, phase, shown, limit, removed, changes>>
    BY <1>7 DEF emitDeleted, lists
  <2>2. emitting.deleted \in Objects
    BY <1>2, <2>1
  <2>3. QueuesTyped(queued', phase) /\ LoadsTyped(loads', phase)
    <3>1. "deleted" \in Channels /\ (phase = "running" \/ ui = "fyne") \in BOOLEAN
      BY DEF Channels
    <3> QED BY <1>1, <2>1, <2>2, <3>1, OfferTyped
  <2>4. Tables
    BY <1>2, <2>1, EmittingChanges DEF TablesTyped
  <2> QED BY <1>1, <2>1, <2>3, <2>4 DEF ListsTypes
<1>8. CASE emitEvent
  <2>1. /\ told < Len(Owner) /\ told' = told + 1
        /\ Offer("event", told', phase = "running", phase = "subscribe")
        /\ UNCHANGED <<stored, kept, saved, emitting, phase, shown, limit, removed, changes>>
    BY <1>8 DEF emitEvent, lists
  <2>2. told' \in 0 .. Len(Owner) /\ told' \in Nat
    BY <1>1, <1>2, <2>1
  <2>3. QueuesTyped(queued', phase) /\ LoadsTyped(loads', phase)
    <3>1. /\ "event" \in Channels /\ (phase = "running") \in BOOLEAN
          /\ (phase = "subscribe") \in BOOLEAN
      BY DEF Channels
    <3> QED BY <1>1, <2>1, <2>2, <3>1, OfferTyped
  <2>4. Tables
    BY <1>2, <2>1, <2>2 DEF TablesTyped
  <2> QED BY <1>1, <2>1, <2>3, <2>4 DEF ListsTypes
<1>9. CASE FilterEvents
  <2>1. /\ phase = "events" /\ phase' = "subscribe"
        /\ Loses(If(told # saved, "events"))
        /\ UNCHANGED <<stored, kept, saved, told, emitting, shown, limit, queued, removed, changes>>
    BY <1>9 DEF FilterEvents, tables
  <2>2. LoadsTyped(loads', phase)
    BY <1>1, <2>1, LosesTyped
  <2>3. Loads
    BY <2>1, <2>2 DEF LoadsTyped, TypedLoad
  <2>4. Queues
    BY <1>1, <2>1 DEF QueuesTyped
  <2> QED BY <1>1, <2>1, <2>3, <2>4 DEF ListsTypes
<1>10. CASE Subscribe
  <2>1. /\ phase = "subscribe" /\ phase' = "running"
        /\ UNCHANGED <<stored, kept, saved, told, emitting, shown, limit, queued, removed,
                       loads, changes>>
    BY <1>10 DEF Subscribe, tables, lists
  <2>2. Loads
    BY <1>1, <2>1 DEF LoadsTyped, TypedLoad
  <2>3. Queues
    BY <1>1, <2>1 DEF QueuesTyped
  <2> QED BY <1>1, <2>1, <2>2, <2>3 DEF ListsTypes
<1>11. CASE flushPending
  <2>1. /\ phase = "running" /\ ui # "fyne"
        /\ shown' = Landed(shown, queued)
        /\ queued' = [channel \in DOMAIN queued |-> <<>>] /\ loads' = Passed
        /\ UNCHANGED <<stored, kept, saved, told, emitting, phase, limit, removed, changes>>
    BY <1>11 DEF flushPending, tables, Landed
  <2>2. Loads
    BY <1>1, <2>1, PassesAll
  <2>3. Queues
    <3>1. queued = [c \in Channels |-> queued[c]]
      BY <1>1 DEF QueuesTyped
    <3>2. queued' = [c \in Channels |-> <<>>]
      BY <2>1, <3>1
    <3> QED BY <3>2 DEF QueuesTyped, Channels, Updates
  <2>4. shown' \in [Objects -> Int]
    <3>1. queued.update \in Updates
      BY <1>1 DEF QueuesTyped
    <3> DEFINE D == Without(shown, Elements(queued.deleted))
    <3>2. D \in [Objects -> Int]
      BY <1>1 DEF Without
    <3>3. shown' = Applied(D, queued.update)
      BY <2>1 DEF Landed
    <3> HIDE DEF D
    <3>4. shown' = [k \in Objects |-> shown'[k]]
      BY <3>3 DEF Applied
    <3>5. ASSUME NEW k \in Objects
          PROVE  shown'[k] \in Int
      <4>1. CASE Of(queued.update, k) = {}
        BY <3>2, <3>3, <4>1, AppliedTo
      <4>2. CASE Of(queued.update, k) # {}
        <5> DEFINE last == CHOOSE i \in Of(queued.update, k) :
                                \A j \in Of(queued.update, k) : j <= i
        <5>1. last \in DOMAIN queued.update
          BY <3>1, <4>2, LastOf
        <5>2. shown'[k] = queued.update[last][2]
          BY <3>3, <4>2 DEF Applied, Of
        <5> HIDE DEF last
        <5> QED BY <3>1, <5>1, <5>2 DEF Updates
      <4> QED BY <4>1, <4>2
    <3> QED BY <3>4, <3>5
  <2> QED BY <1>1, <2>1, <2>2, <2>3, <2>4 DEF ListsTypes
<1>12. CASE pullDeleteResult
  <2>1. /\ removed' = 0 /\ shown' = Without(shown, {removed}) /\ loads' = Passed
        /\ UNCHANGED <<stored, kept, saved, told, emitting, phase, limit, queued, changes>>
    BY <1>12 DEF pullDeleteResult, tables
  <2>2. shown' \in [Objects -> Int]
    BY <1>1, <2>1 DEF Without
  <2> QED BY <1>1, <2>1, <2>2, PassesAll DEF ListsTypes
<1>13. ASSUME NEW c \in Requests,
              reloadAll(c) \/ ConfigSaved(c) \/ loadMoreEvents(c)
       PROVE  ListsTypes'
  <2>1. UNCHANGED <<stored, kept, saved, told, emitting, phase, shown, queued, removed, changes>>
    BY <1>13 DEF reloadAll, ConfigSaved, loadMoreEvents, Request, tables
  <2>2. limit' \in Nat
    BY <1>1, <1>13 DEF reloadAll, ConfigSaved, loadMoreEvents
  <2>3. ASSUME NEW size \in Nat
        PROVE  TypedLoad(Reloading(size), "running")
    <3> DEFINE s == Reloading(size)
    <3>1. /\ ALoad(s) /\ s.at = "events" /\ s.devices = stored /\ s.limit = size
          /\ s.passed = FALSE
      BY ReloadingIs
    <3> HIDE DEF s
    <3>2. s.passed \in BOOLEAN
      BY <3>1
    <3>3. TypedLoad(s, "running")
      BY <1>2, <2>3, <3>1, <3>2 DEF TypedLoad, Stages
    <3> QED BY <3>3 DEF s
  <2>4. ASSUME NEW g, NEW f
        PROVE  TypedLoad(LoadingMore(g, limit + Chunk, f), "running")
    <3> DEFINE size == limit + Chunk
               s == LoadingMore(g, size, f)
    <3>0. s = LoadingMore(g, size, f)
      OBVIOUS
    <3> HIDE DEF size, s
    <3>1. /\ ALoad(s) /\ s.at = "more" /\ s.limit = size
          /\ s.passed = FALSE /\ s.devices \in [Objects -> Int]
      BY <3>0, NoLoadIs DEF ALoad, LoadParts, LoadingMore
    <3> HIDE DEF s
    <3>2. s.passed \in BOOLEAN
      BY <3>1
    <3>3. size \in Nat
      BY <1>1 DEF size
    <3>4. TypedLoad(s, "running")
      BY <3>1, <3>2, <3>3 DEF TypedLoad, Stages
    <3> QED BY <3>4 DEF s, size
  <2>5. \E load, others : /\ Request(c, load, others) /\ LoadsTyped(others, phase)
                          /\ TypedLoad(load, "running")
    <3>1. CASE reloadAll(c)
      BY <1>1, <3>1, <2>3 DEF reloadAll
    <3>2. CASE ConfigSaved(c)
      <4>1. PICK size \in FirstLimits :
              Request(c, Reloading(size), IF size > limit THEN Overtaken ELSE loads)
        BY <3>2 DEF ConfigSaved
      <4>2. TypedLoad(Reloading(size), "running")
        BY <1>1, <2>3
      <4>3. LoadsTyped(Overtaken, phase)
        BY <1>1, Overtakes
      <4> QED BY <1>1, <4>1, <4>2, <4>3
    <3>3. CASE loadMoreEvents(c)
      BY <1>1, <3>3, <2>4 DEF loadMoreEvents, LoadingMore
    <3> QED BY <1>13, <3>1, <3>2, <3>3
  <2>6. Loads
    BY <1>1, <2>5, RequestTyped
  <2> QED BY <1>1, <2>1, <2>2, <2>6 DEF ListsTypes
<1>14. ASSUME NEW c \in Requests, QueryEvents(c)
       PROVE  ListsTypes'
  <2>1. UNCHANGED <<stored, kept, saved, told, emitting, phase, shown, limit, queued, removed, changes>>
    BY <1>14 DEF QueryEvents, tables, lists
  <2>2. Loads
    BY <1>1, <1>14, <2>1, ReadingIs
  <2> QED BY <1>1, <2>1, <2>2 DEF ListsTypes
<1>15. ASSUME NEW c \in Requests, Fail(c) \/ ShowReload(c) \/ ShowMore(c)
       PROVE  ListsTypes'
  <2>1. UNCHANGED <<stored, kept, saved, told, emitting, phase, queued, removed, changes>>
    BY <1>15 DEF Fail, ShowReload, ShowMore, tables
  <2>2. loads' = Answered(c) \/ loads' = [loads EXCEPT ![c] = NoLoad]
    BY <1>15 DEF Fail, ShowReload, ShowMore
  <2>3. Loads
    BY <1>1, <2>1, <2>2, Emptied
  <2>4. loads[c].devices \in [Objects -> Int] /\ loads[c].limit \in Nat
    BY <1>1 DEF LoadsTyped, TypedLoad
  <2>5. shown' \in [Objects -> Int]
    BY <1>1, <1>15, <2>4 DEF Fail, ShowReload, ShowMore, lists
  <2>6. limit' \in Nat
    BY <1>1, <1>15, <2>4 DEF Fail, ShowReload, ShowMore, lists
  <2> QED BY <1>1, <2>1, <2>3, <2>5, <2>6 DEF ListsTypes
<1>16. CASE UNCHANGED listsVars
  BY <1>1, <1>16 DEF ListsTypes, listsVars, tables, lists
<1>17. CASE RefuseEvent \/ DrainEvent
  <2>1. /\ Loses({"events"}) /\ saved' \in 0 .. Len(Owner) /\ told' \in 0 .. Len(Owner)
        /\ saved <= saved'
        /\ UNCHANGED <<stored, kept, emitting, phase, shown, limit, queued, removed, changes>>
    BY <1>1, <1>2, <1>17 DEF RefuseEvent, DrainEvent, lists
  <2>2. kept' \in SUBSET (1 .. saved')
    BY <1>1, <1>2, <2>1
  <2>3. Tables
    BY <1>2, <2>1, <2>2 DEF TablesTyped
  <2>4. Loads
    BY <1>1, <2>1, LosesTyped
  <2> QED BY <1>1, <2>1, <2>3, <2>4 DEF ListsTypes
<1>18. CASE ExpireEvents
  <2>1. /\ kept' \subseteq kept /\ loads' = Overtaken
        /\ UNCHANGED <<stored, saved, told, emitting, phase, shown, limit, queued, removed,
                       changes>>
    BY <1>18 DEF ExpireEvents, lists
  <2>2. Tables
    BY <1>2, <2>1 DEF TablesTyped
  <2>3. Loads
    BY <1>1, <2>1, Overtakes
  <2> QED BY <1>1, <2>1, <2>2, <2>3 DEF ListsTypes
<1> QED BY <1>3, <1>4, <1>5, <1>6, <1>7, <1>8, <1>9, <1>10, <1>11, <1>12, <1>13, <1>14, <1>15,
           <1>16, <1>17, <1>18 DEF ListsNext

-----------------------------------------------------------------------------
(* What a step leaves of the queries of the objects.                       *)
Sought(r) == r.at \in {"events", "read"} /\ ~ r.passed
Follows(s, r) ==
  Sought(s) => Sought(r) /\ s.devices = r.devices /\ (s.quiet => r.quiet)
AllFollow(ls, ks) == \A c \in Requests : Follows(ls[c], ks[c])
NoneSought(ls) == \A c \in Requests : ~ Sought(ls[c])

LEMMA PassedFollow ==
  ASSUME LoadsTyped(loads, phase), loads' = Passed
  PROVE  NoneSought(loads')
<1> SUFFICES ASSUME NEW c \in Requests, loads'[c].at \in {"events", "read"}
             PROVE  loads'[c].passed
  BY DEF NoneSought, Sought
<1>1. SameLoad(loads'[c], loads[c]) /\ loads'[c].passed = (loads[c].at # "none")
  BY PassesAll
<1>2. loads[c].at # "none"
  BY <1>1 DEF SameLoad
<1> QED BY <1>1, <1>2

LEMMA LosesFollow ==
  ASSUME LoadsTyped(loads, phase), NEW what, Loses(what)
  PROVE  /\ AllFollow(loads', loads) /\ lost' = lost \cup what
         /\ what # {} => NoneSought(loads')
<1>1. CASE what = {}
  <2>1. loads' = loads /\ lost' = lost \cup what
    BY <1>1, Lost
  <2> QED BY <1>1, <2>1 DEF AllFollow, Follows
<1>2. CASE what # {}
  <2>1. loads' = Passed /\ lost' = lost \cup what
    BY <1>2, Lost
  <2>2. NoneSought(loads')
    BY <2>1, PassedFollow
  <2> QED BY <2>1, <2>2 DEF AllFollow, Follows, NoneSought
<1> QED BY <1>1, <1>2

LEMMA EmptiedFollow ==
  ASSUME LoadsTyped(loads, phase), NEW c \in Requests,
         loads' = Answered(c) \/ loads' = [loads EXCEPT ![c] = NoLoad]
  PROVE  /\ AllFollow(loads', loads)
         /\ loads' = Answered(c) => NoneSought(loads')
<1>1. ~ Sought(loads'[c])
  BY Emptied, NoLoadIs DEF Sought
<1>2. ASSUME NEW k \in Requests \ {c}
      PROVE  /\ Follows(loads'[k], loads[k])
             /\ loads' = Answered(c) => ~ Sought(loads'[k])
  <2>1. /\ SameLoad(loads'[k], loads[k])
        /\ loads' = Answered(c) => loads'[k].passed = (loads[k].at # "none")
        /\ loads' # Answered(c) => loads'[k].passed = loads[k].passed
    BY Emptied
  <2>2. loads' = Answered(c) => ~ Sought(loads'[k])
    <3> SUFFICES ASSUME loads' = Answered(c), loads'[k].at \in {"events", "read"}
                 PROVE  loads'[k].passed
      BY DEF Sought
    <3>1. loads[k].at # "none"
      BY <2>1 DEF SameLoad
    <3> QED BY <2>1, <3>1
  <2>3. CASE loads' # Answered(c)
    BY <2>1, <2>3 DEF Follows, Sought, SameLoad
  <2> QED BY <2>2, <2>3 DEF Follows
<1> QED BY <1>1, <1>2 DEF AllFollow, NoneSought, Follows

LEMMA ReadingFollow ==
  ASSUME LoadsTyped(loads, phase), NEW c \in Requests, QueryEvents(c)
  PROVE  AllFollow(loads', loads)
<1>1. Follows(loads'[c], loads[c])
  BY ReadingIs DEF Follows, Sought
<1>2. \A k \in Requests \ {c} : Follows(loads'[k], loads[k])
  BY ReadingIs DEF Follows
<1> QED BY <1>1, <1>2 DEF AllFollow

LEMMA RequestFollow ==
  ASSUME NEW others, LoadsTyped(others, phase), NEW c \in Requests, NEW load,
         Request(c, load, others)
  PROVE  /\ loads'[c] = load
         /\ \A k \in Requests \ {c} : /\ SameLoad(loads'[k], others[k])
                                      /\ loads'[k].passed = others[k].passed
<1>1. loads' = [k \in Requests |-> IF k = c THEN load
                  ELSE [others[k] EXCEPT !.newest = @ /\ load.at = "more"]]
  BY DEF Request
<1>2. ASSUME NEW k \in Requests \ {c}
      PROVE  SameLoad(loads'[k], others[k]) /\ loads'[k].passed = others[k].passed
  <2> DEFINE r == others[k]
             s == [r EXCEPT !.newest = r.newest /\ load.at = "more"]
  <2>1. loads'[k] = s
    BY <1>1
  <2>2. ALoad(r)
    BY DEF LoadsTyped, TypedLoad
  <2> HIDE DEF r
  <2>3. SameLoad(s, r) /\ s.passed = r.passed
    BY <2>2, LoadOlder
  <2> HIDE DEF s
  <2> QED BY <2>1, <2>3 DEF r
<1> QED BY <1>1, <1>2

(* A step that leaves the screen as it is keeps the objects.               *)
LEMMA ObjectsKept ==
  ASSUME ListsTypes, ObjectsInv, UNCHANGED <<ui, shown>>, lost \subseteq lost',
         AllFollow(loads', loads),
         \/ "objects" \in lost' /\ NoneSought(loads')
         \/ \A dev \in [Objects -> Int] :
              Sound(ui, dev, stored, emitting, queued, removed)
                => Sound(ui, dev, stored', emitting', queued', removed')
  PROVE  ObjectsInv'
<1>1. CASE "objects" \in lost' /\ NoneSought(loads')
  BY <1>1 DEF ObjectsInv, NoneSought, Sought
<1>2. CASE \A dev \in [Objects -> Int] :
             Sound(ui, dev, stored, emitting, queued, removed)
               => Sound(ui, dev, stored', emitting', queued', removed')
  <2>1. shown \in [Objects -> Int] /\ \A c \in Requests : loads[c].devices \in [Objects -> Int]
    BY DEF ListsTypes, LoadsTyped, TypedLoad
  <2>2. "objects" \notin lost' => Sound(ui, shown, stored', emitting', queued', removed')
    BY <1>2, <2>1 DEF ObjectsInv
  <2>3. ASSUME NEW c \in Requests, loads'[c].at \in {"events", "read"}, ~ loads'[c].passed,
               loads'[c].quiet \/ "objects" \notin lost'
        PROVE  Sound(ui, loads'[c].devices, stored', emitting', queued', removed')
    <3>1. /\ loads[c].at \in {"events", "read"} /\ ~ loads[c].passed
          /\ loads'[c].devices = loads[c].devices /\ (loads'[c].quiet => loads[c].quiet)
      BY <2>3 DEF AllFollow, Follows, Sought
    <3>2. Sound(ui, loads[c].devices, stored, emitting, queued, removed)
      BY <2>3, <3>1 DEF ObjectsInv
    <3> QED BY <1>2, <2>1, <3>1, <3>2
  <2> QED BY <2>2, <2>3 DEF ObjectsInv
<1> QED BY <1>1, <1>2

(* What every step does to the objects the screen is going to show: the    *)
(* update saved and about to be reported, the row deleted, the row made    *)
(* for an event, the report of each, and a flush.                          *)
LEMMA SettledBare ==
  ASSUME NEW x, NEW y, Settled(x, y), NEW z, z = IF y = 0 THEN Bare ELSE y
  PROVE  Settled(x, z)
BY DEF Settled, Bare

LEMMA SoundSaved ==
  ASSUME NEW u, NEW dev, NEW t \in [Objects -> Int], NEW em, NEW q, NEW rem,
         Sound(u, dev, t, em, q, rem), em.update = NoUpdate,
         NEW d \in Objects, NEW v \in Int, NEW e, e.update = <<d, v>>, e.deleted = em.deleted,
         em.deleted # d, NEW w, w = [t EXCEPT ![d] = v]
  PROVE  Sound(u, dev, w, e, q, rem)
<1>0. e.update # NoUpdate /\ e.update[1] = d /\ e.update[2] = v
  BY DEF NoUpdate
<1>1. CASE u = "fyne"
  BY <1>0, <1>1 DEF Sound
<1>2. CASE u # "fyne"
  <2>1. ~ Both(e)
    BY <1>0 DEF Both
  <2>2. ASSUME NEW k \in Objects, ~ Conflict(q, k)
        PROVE  Settled(Due(dev, e, q, k), w[k])
    <3>1. CASE k = d
      BY <1>0, <3>1 DEF Due, Settled
    <3>2. CASE k # d
      <4>1. Due(dev, e, q, k) = Due(dev, em, q, k) /\ w[k] = t[k]
        BY <1>0, <3>2 DEF Due
      <4> QED BY <1>2, <2>2, <4>1 DEF Sound
    <3> QED BY <3>1, <3>2
  <2> QED BY <1>2, <2>1, <2>2 DEF Sound
<1> QED BY <1>1, <1>2

LEMMA SoundDeleted ==
  ASSUME NEW u, NEW dev, NEW t \in [Objects -> Int], NEW em, NEW q,
         Sound(u, dev, t, em, q, 0), em.deleted = 0,
         NEW d \in Objects, NEW e, e.update = em.update, e.deleted = d,
         em.update = NoUpdate \/ em.update[1] # d, NEW w, w = [t EXCEPT ![d] = 0],
         NEW rem, u = "fyne" => rem = d
  PROVE  Sound(u, dev, w, e, q, rem)
<1>0. 0 \notin Objects
  BY ListsAssumption
<1>1. CASE u = "fyne"
  BY <1>0, <1>1 DEF Sound
<1>2. CASE u # "fyne"
  <2>1. ~ Both(e)
    BY DEF Both
  <2>2. ASSUME NEW k \in Objects, ~ Conflict(q, k)
        PROVE  Settled(Due(dev, e, q, k), w[k])
    <3>1. CASE k = d
      BY <3>1 DEF Due, Settled
    <3>2. CASE k # d
      <4>1. Due(dev, e, q, k) = Due(dev, em, q, k) /\ w[k] = t[k]
        BY <1>0, <3>2 DEF Due
      <4> QED BY <1>2, <2>2, <4>1 DEF Sound
    <3> QED BY <3>1, <3>2
  <2> QED BY <1>2, <2>1, <2>2 DEF Sound
<1> QED BY <1>1, <1>2

LEMMA SoundStored ==
  ASSUME NEW u, NEW dev, NEW t \in [Objects -> Int], NEW em, NEW q, NEW rem,
         Sound(u, dev, t, em, q, rem),
         NEW d \in Objects, NEW w, w = [t EXCEPT ![d] = IF @ = 0 THEN Bare ELSE @]
  PROVE  Sound(u, dev, w, em, q, rem)
<1>1. ASSUME NEW k \in Objects, NEW x, Settled(x, t[k])
      PROVE  Settled(x, w[k])
  <2>1. w[k] = t[k] \/ w[k] = IF t[k] = 0 THEN Bare ELSE t[k]
    OBVIOUS
  <2> QED BY <1>1, <2>1, SettledBare
<1> QED BY <1>1 DEF Sound

LEMMA SoundReported ==
  ASSUME NEW u, u # "fyne", NEW dev, NEW t, NEW em, NEW q, NEW rem,
         Sound(u, dev, t, em, q, rem), em.update \in Objects \X Int, q.update \in Updates,
         NEW e, e.update = NoUpdate, e.deleted = em.deleted,
         NEW r, r.update = Append(q.update, em.update), r.deleted = q.deleted
  PROVE  Sound(u, dev, t, e, r, rem)
<1> DEFINE d == em.update[1]
           v == em.update[2]
<1>0. d \in Objects /\ v \in Int /\ em.update = <<d, v>> /\ em.update # NoUpdate
  BY DEF NoUpdate
<1>1. ~ Both(e) /\ em.deleted # d
  BY <1>0 DEF Both, Sound
<1>2. /\ \A k \in Objects : Landed(dev, r)[k] = IF k = d THEN v ELSE Landed(dev, q)[k]
      /\ \A k \in Objects : Conflict(q, k) => Conflict(r, k)
  <2>1. /\ r.update = Append(q.update, <<d, v>>) /\ r.deleted = q.deleted
        /\ d \in Objects /\ v \in Int /\ q.update \in Updates
    BY <1>0
  <2> HIDE DEF d, v
  <2> QED BY ONLY <2>1, LandedUpdate
<1>3. ASSUME NEW k \in Objects
      PROVE  Due(dev, e, r, k) = Due(dev, em, q, k)
  BY <1>0, <1>1, <1>2 DEF Due
<1> QED BY <1>1, <1>2, <1>3 DEF Sound

LEMMA SoundReportedGone ==
  ASSUME NEW u, NEW dev, NEW t, NEW em, NEW q, NEW rem,
         Sound(u, dev, t, em, q, rem), em.deleted \in Objects, q.deleted \in Seq(Objects),
         NEW e, e.update = em.update, e.deleted = 0,
         em.update = NoUpdate \/ em.update[1] \in Objects,
         NEW r, r.deleted = Append(q.deleted, em.deleted), r.update = q.update
  PROVE  Sound(u, dev, t, e, r, rem)
<1>0. 0 \notin Objects
  BY ListsAssumption
<1>1. CASE u = "fyne"
  BY <1>1 DEF Sound
<1>2. CASE u # "fyne"
  <2> DEFINE d == em.deleted
  <2>1. ~ Both(e) /\ (em.update = NoUpdate \/ em.update[1] # d)
    BY <1>0, <1>2 DEF Both, Sound
  <2>2. /\ \A k \in Objects \ {d} : Landed(dev, r)[k] = Landed(dev, q)[k]
        /\ Conflict(r, d) \/ Landed(dev, r)[d] = 0
        /\ \A k \in Objects : Conflict(q, k) => Conflict(r, k)
    BY LandedDeletion, SMTT(30)
  <2>3. ASSUME NEW k \in Objects, ~ Conflict(r, k)
        PROVE  Due(dev, e, r, k) = Due(dev, em, q, k)
    BY <1>0, <2>1, <2>2, <2>3 DEF Due
  <2> QED BY <1>2, <2>1, <2>2, <2>3 DEF Sound
<1> QED BY <1>1, <1>2

LEMMA SoundElsewhere ==
  ASSUME NEW u, NEW dev, NEW t, NEW em, NEW q, NEW rem, Sound(u, dev, t, em, q, rem),
         NEW r, r.deleted = q.deleted, r.update = q.update
  PROVE  Sound(u, dev, t, em, r, rem)
BY DEF Sound, Conflict, Due, Landed

LEMMA SoundAsked ==
  ASSUME NEW u, NEW dev, NEW t, NEW em, NEW q, NEW rem,
         \/ Sound(u, dev, t, em, q, rem)
         \/ /\ u = "fyne" \/ (q.update = <<>> /\ q.deleted = <<>>)
            /\ em.update = NoUpdate /\ em.deleted = 0
  PROVE  Sound(u, t, t, em, q, rem)
<1>0. 0 \notin Objects
  BY ListsAssumption
<1>1. CASE u = "fyne"
  BY <1>1 DEF Sound, Settled
<1>2. CASE u # "fyne" /\ Sound(u, dev, t, em, q, rem)
  <2>1. ASSUME NEW k \in Objects, ~ Conflict(q, k)
        PROVE  Settled(Due(t, em, q, k), t[k])
    <3>1. Settled(Due(dev, em, q, k), t[k])
      BY <1>2, <2>1 DEF Sound
    <3>2. Landed(t, q)[k] = Landed(dev, q)[k] \/ Landed(t, q)[k] = t[k]
      BY LandedOver
    <3> QED BY <3>1, <3>2 DEF Due, Settled
  <2> QED BY <1>2, <2>1 DEF Sound
<1>3. CASE u # "fyne" /\ ~ Sound(u, dev, t, em, q, rem)
  <2>1. ~ Both(em)
    BY <1>3 DEF Both
  <2>2. ASSUME NEW k \in Objects
        PROVE  Settled(Due(t, em, q, k), t[k])
    <3>1. Landed(t, q)[k] = t[k]
      BY <1>3, LandedNothing
    <3> QED BY <1>0, <1>3, <3>1 DEF Due, Settled
  <2> QED BY <1>3, <2>1, <2>2 DEF Sound
<1> QED BY <1>1, <1>2, <1>3

LEMMA SoundShown ==
  ASSUME NEW u, u # "fyne", NEW dev, NEW t, NEW em, NEW q, NEW rem,
         Sound(u, dev, t, em, q, rem), \A k \in Objects : ~ Conflict(q, k),
         NEW r, r.update = <<>>, r.deleted = <<>>
  PROVE  Sound(u, Landed(dev, q), t, em, r, rem)
<1>1. ASSUME NEW k \in Objects
      PROVE  Due(Landed(dev, q), em, r, k) = Due(dev, em, q, k)
  <2>1. Landed(Landed(dev, q), r)[k] = Landed(dev, q)[k]
    BY LandedNothing
  <2> QED BY <2>1 DEF Due
<1> QED BY <1>1 DEF Sound

LEMMA SoundPulled ==
  ASSUME NEW dev \in [Objects -> Int], NEW t, NEW em, NEW q, NEW rem,
         Sound("fyne", dev, t, em, q, rem), t[rem] = 0, NEW after, after = Without(dev, {rem})
  PROVE  Sound("fyne", after, t, em, q, 0)
BY DEF Sound, Without, Settled

LEMMA ObjectsStart == ListsInit => ObjectsInv
<1> SUFFICES ASSUME ListsInit PROVE ObjectsInv
  OBVIOUS
<1>1. /\ emitting = [update |-> NoUpdate, deleted |-> 0] /\ shown = stored
      /\ queued = [update |-> <<>>, event |-> <<>>, deleted |-> <<>>]
      /\ loads = [c \in Requests |-> NoLoad]
  BY DEF ListsInit
<1>2. Sound(ui, shown, stored, emitting, queued, removed)
  BY <1>1, SoundAsked
<1>3. \A c \in Requests : loads[c].at = "none"
  BY <1>1, NoLoadIs
<1> QED BY <1>2, <1>3 DEF ObjectsInv

LEMMA ObjectsRequest ==
  ASSUME ListsTypes, ObjectsInv, UNCHANGED <<ui, shown, stored, emitting, queued, removed>>,
         "objects" \in lost' <=> "objects" \in lost,
         NEW c \in Requests, NEW load, NEW others \in {loads, Overtaken},
         Request(c, load, others),
         \/ load.at = "more"
         \/ load.devices = stored /\ load.quiet = Quiet
  PROVE  ObjectsInv'
<1>1. loads'[c] = load /\ \A k \in Requests \ {c} : AsLoad(loads'[k], loads[k])
  <2>1. LoadsTyped(others, phase) /\ \A k \in Requests : AsLoad(others[k], loads[k])
    BY Overtakes DEF ListsTypes, AsLoad
  <2>2. /\ loads'[c] = load
        /\ \A k \in Requests \ {c} : /\ SameLoad(loads'[k], others[k])
                                     /\ loads'[k].passed = others[k].passed
    BY <2>1, RequestFollow
  <2> QED BY <2>1, <2>2 DEF AsLoad, SameLoad
<1>2. "objects" \notin lost => Sound(ui, shown, stored, emitting, queued, removed)
  BY DEF ObjectsInv
<1>3. ASSUME load.at # "more", load.quiet \/ "objects" \notin lost
      PROVE  Sound(ui, load.devices, stored, emitting, queued, removed)
  <2>1. load.devices = stored /\ load.quiet = Quiet
    BY <1>3
  <2>2. CASE "objects" \notin lost
    BY <1>2, <2>1, <2>2, SoundAsked
  <2>3. CASE Quiet
    <3>1. /\ emitting.update = NoUpdate /\ emitting.deleted = 0
          /\ ui = "fyne" \/ (queued.update = <<>> /\ queued.deleted = <<>>)
      <4>1. queued = [k \in Channels |-> queued[k]]
        BY DEF ListsTypes, QueuesTyped
      <4> QED BY <2>3, <4>1 DEF Quiet, NothingQueued, Channels
    <3> QED BY <2>1, <3>1, SoundAsked
  <2> QED BY <1>3, <2>1, <2>2, <2>3
<1>4. ASSUME NEW k \in Requests, loads'[k].at \in {"events", "read"}, ~ loads'[k].passed,
             loads'[k].quiet \/ "objects" \notin lost
      PROVE  Sound(ui, loads'[k].devices, stored, emitting, queued, removed)
  <2>1. CASE k = c
    BY <1>1, <1>3, <1>4, <2>1
  <2>2. CASE k # c
    BY <1>1, <1>4, <2>2 DEF AsLoad, ObjectsInv
  <2> QED BY <2>1, <2>2
<1> QED BY <1>2, <1>4 DEF ObjectsInv

LEMMA ObjectsFlush ==
  ASSUME ListsTypes, ObjectsInv, UNCHANGED ui, flushPending
  PROVE  ObjectsInv'
<1>1. /\ ui # "fyne" /\ shown' = Landed(shown, queued)
      /\ lost' = lost \cup If(Elements(queued.deleted) \cap {u[1] : u \in Elements(queued.update)} # {},
                              "objects")
      /\ queued' = [channel \in DOMAIN queued |-> <<>>] /\ loads' = Passed
      /\ UNCHANGED <<stored, emitting, removed>>
  BY DEF flushPending, tables, Landed
<1>2. NoneSought(loads')
  BY <1>1, PassedFollow DEF ListsTypes
<1>3. ASSUME "objects" \notin lost'
      PROVE  Sound(ui, shown', stored, emitting, queued', removed)
  <2>1. Elements(queued.deleted) \cap {u[1] : u \in Elements(queued.update)} = {}
    BY <1>1, <1>3 DEF If
  <2>2. \A k \in Objects : ~ Conflict(queued, k)
    BY <2>1 DEF Conflict
  <2>3. Sound(ui, shown, stored, emitting, queued, removed)
    BY <1>1, <1>3 DEF ObjectsInv
  <2>4. queued'.update = <<>> /\ queued'.deleted = <<>>
    <3>1. queued = [k \in Channels |-> queued[k]]
      BY DEF ListsTypes, QueuesTyped
    <3> QED BY <1>1, <3>1 DEF Channels
  <2> QED BY <1>1, <2>2, <2>3, <2>4, SoundShown
<1> QED BY <1>1, <1>2, <1>3 DEF ObjectsInv, NoneSought, Sought

LEMMA ObjectsPulled ==
  ASSUME ListsTypes, ObjectsInv, UNCHANGED ui, pullDeleteResult
  PROVE  ObjectsInv'
<1>1. /\ removed # 0 /\ removed' = 0 /\ shown' = Without(shown, {removed}) /\ loads' = Passed
      /\ lost' = lost \cup If(stored[removed] # 0, "objects")
                   \cup If(EventsOf(removed) \cap kept # {}, "events")
      /\ UNCHANGED <<stored, emitting, queued>>
  BY DEF pullDeleteResult, tables
<1>2. ui = "fyne" /\ shown \in [Objects -> Int]
  BY <1>1 DEF ListsTypes
<1>3. NoneSought(loads')
  BY <1>1, PassedFollow DEF ListsTypes
<1>4. ASSUME "objects" \notin lost'
      PROVE  Sound(ui, shown', stored, emitting, queued, 0)
  <2>1. stored[removed] = 0 /\ "objects" \notin lost
    BY <1>1, <1>4 DEF If
  <2>2. Sound("fyne", shown, stored, emitting, queued, removed)
    BY <1>2, <2>1 DEF ObjectsInv
  <2> QED BY <1>1, <1>2, <2>1, <2>2, SoundPulled
<1> QED BY <1>1, <1>3, <1>4 DEF ObjectsInv, NoneSought, Sought

LEMMA ObjectsReloaded ==
  ASSUME ListsTypes, ObjectsInv, UNCHANGED ui, NEW c \in Requests, ShowReload(c)
  PROVE  ObjectsInv'
<1>0. UNCHANGED <<stored, emitting, queued, removed>> /\ LoadsTyped(loads, phase)
  BY DEF ShowReload, tables, ListsTypes
<1>1. CASE ui = "terminal" \/ loads[c].newest
  <2>1. /\ loads[c].at = "read" /\ shown' = loads[c].devices /\ loads' = Answered(c)
        /\ lost' = (IF loads[c].quiet /\ ~ loads[c].passed THEN {} ELSE lost) \cup OldAnswer(c)
    BY <1>1 DEF ShowReload
  <2>2. NoneSought(loads')
    BY <1>0, <2>1, EmptiedFollow
  <2>3. ASSUME "objects" \notin lost'
        PROVE  Sound(ui, shown', stored, emitting, queued, removed)
    <3>1. ~ loads[c].passed /\ (loads[c].quiet \/ "objects" \notin lost)
      BY <2>1, <2>3 DEF OldAnswer, If
    <3> QED BY <2>1, <3>1 DEF ObjectsInv
  <2> QED BY <1>0, <2>2, <2>3 DEF ObjectsInv, NoneSought, Sought
<1>2. CASE ~ (ui = "terminal" \/ loads[c].newest)
  <2>1. loads' = [loads EXCEPT ![c] = NoLoad] /\ UNCHANGED <<shown, lost>>
    BY <1>2 DEF ShowReload
  <2>2. AllFollow(loads', loads)
    BY <1>0, <2>1, EmptiedFollow
  <2> QED BY <1>0, <2>1, <2>2, ObjectsKept
<1> QED BY <1>1, <1>2

LEMMA ObjectsStep ==
  ASSUME ListsTypes, ObjectsInv, UNCHANGED ui, ListsNext \/ UNCHANGED listsVars
  PROVE  ObjectsInv'
<1>0. /\ LoadsTyped(loads, phase) /\ QueuesTyped(queued, phase)
      /\ TablesTyped(stored, saved, told, kept, emitting)
      /\ Len(Owner) \in Nat /\ 0 \notin Objects
      /\ \A n \in 1 .. Len(Owner) : Owner[n] \in Objects
  BY ListsAssumption DEF ListsTypes
<1>1. /\ LoadsTyped(loads, phase) /\ QueuesTyped(queued, phase)
      /\ stored \in [Objects -> Int] /\ kept \in SUBSET (1 .. saved)
      /\ saved \in 0 .. Len(Owner) /\ Len(Owner) \in Nat
      /\ emitting = [update |-> emitting.update, deleted |-> emitting.deleted]
      /\ emitting.update \in {NoUpdate} \cup (Objects \X Int)
      /\ emitting.deleted \in Objects \cup {0} /\ 0 \notin Objects
      /\ \A n \in 1 .. Len(Owner) : Owner[n] \in Objects
  BY <1>0 DEF TablesTyped
<1>a. queued = [k \in Channels |-> queued[k]]
  BY <1>1 DEF QueuesTyped
<1>2. CASE SaveDevice
  <2>1. PICK d \in Objects, written \in BOOLEAN :
          /\ stored' = IF written THEN [stored EXCEPT ![d] = changes'] ELSE stored
          /\ emitting' = [emitting EXCEPT !.update = <<d, changes'>>]
          /\ Loses(If(~ written \/ emitting.deleted = d, "objects"))
    BY <1>2 DEF SaveDevice
  <2>2. /\ changes' \in Int /\ emitting.update = NoUpdate
        /\ UNCHANGED <<shown, queued, removed>>
    BY <1>2 DEF SaveDevice, lists, ListsTypes
  <2>3. AllFollow(loads', loads) /\ lost \subseteq lost'
    BY <1>1, <2>1, LosesFollow
  <2>4. CASE ~ written \/ emitting.deleted = d
    <3>1. If(~ written \/ emitting.deleted = d, "objects") = {"objects"}
      BY <2>4 DEF If
    <3>2. "objects" \in lost' /\ NoneSought(loads')
      BY <1>1, <2>1, <3>1, LosesFollow
    <3> QED BY <2>2, <2>3, <3>2, ObjectsKept
  <2>5. CASE ~ (~ written \/ emitting.deleted = d)
    <3>1. emitting'.update = <<d, changes'>> /\ emitting'.deleted = emitting.deleted
      BY <1>1, <2>1, EmittingChanges
    <3>2. stored' = [stored EXCEPT ![d] = changes']
      BY <2>1, <2>5
    <3>3. \A dev \in [Objects -> Int] :
            Sound(ui, dev, stored, emitting, queued, removed)
              => Sound(ui, dev, stored', emitting', queued', removed')
      BY <1>1, <2>2, <2>5, <3>1, <3>2, SoundSaved
    <3> QED BY <2>2, <2>3, <3>3, ObjectsKept
  <2> QED BY <2>4, <2>5
<1>3. CASE DeleteDeviceWithHistory
  <2> DEFINE meets(d) == emitting.update # NoUpdate /\ emitting.update[1] = d
             past(d) == EventsOf(d) \cap (1 .. saved \cup 1 .. told) # {}
  <2>1. PICK d \in Objects :
          /\ removed' = IF ui = "fyne" THEN d ELSE 0
          /\ stored' = [stored EXCEPT ![d] = 0]
          /\ emitting' = [emitting EXCEPT !.deleted = d]
          /\ Loses(If(meets(d), "objects") \cup If(past(d), "events"))
    BY <1>3 DEF DeleteDeviceWithHistory
  <2>2. emitting.deleted = 0 /\ removed = 0 /\ UNCHANGED <<shown, queued>>
    BY <1>3 DEF DeleteDeviceWithHistory, lists
  <2> HIDE DEF past
  <2>3. AllFollow(loads', loads) /\ lost \subseteq lost'
    BY <1>1, <2>1, LosesFollow
  <2>4. CASE meets(d)
    <3> DEFINE what == If(meets(d), "objects") \cup If(past(d), "events")
    <3>1. Loses(what) /\ "objects" \in what
      BY <2>1, <2>4 DEF If
    <3> HIDE DEF what
    <3>2. "objects" \in lost' /\ NoneSought(loads')
      BY <1>1, <3>1, LosesFollow
    <3> QED BY <2>2, <2>3, <3>2, ObjectsKept
  <2>5. CASE ~ meets(d)
    <3>1. emitting'.update = emitting.update /\ emitting'.deleted = d
      BY <1>1, <2>1, EmittingChanges
    <3>2. \A dev \in [Objects -> Int] :
            Sound(ui, dev, stored, emitting, queued, removed)
              => Sound(ui, dev, stored', emitting', queued', removed')
      BY <1>1, <2>1, <2>2, <2>5, <3>1, SoundDeleted
    <3> QED BY <2>2, <2>3, <3>2, ObjectsKept
  <2> QED BY <2>4, <2>5
<1>4. CASE StoreEvent
  <2>1. /\ saved < Len(Owner) /\ saved' = saved + 1
        /\ stored' = [stored EXCEPT ![Owner[saved']] = IF @ = 0 THEN Bare ELSE @]
        /\ UNCHANGED <<emitting, shown, queued, removed, loads, lost>>
    BY <1>4 DEF StoreEvent, lists
  <2>2. Owner[saved'] \in Objects
    BY <1>1, <2>1
  <2>3. \A dev \in [Objects -> Int] :
          Sound(ui, dev, stored, emitting, queued, removed)
            => Sound(ui, dev, stored', emitting', queued', removed')
    BY <1>1, <2>1, <2>2, SoundStored
  <2>4. AllFollow(loads', loads)
    BY <2>1 DEF AllFollow, Follows
  <2> QED BY <2>1, <2>3, <2>4, ObjectsKept
<1>5. CASE emitDevice
  <2>1. /\ emitting.update # NoUpdate
        /\ Offer("update", emitting.update, phase = "running", TRUE)
        /\ emitting' = [emitting EXCEPT !.update = NoUpdate]
        /\ UNCHANGED <<stored, shown, removed>>
    BY <1>5 DEF emitDevice, lists
  <2>2. /\ emitting.update \in Objects \X Int
        /\ emitting'.update = NoUpdate /\ emitting'.deleted = emitting.deleted
    BY <1>1, <2>1, EmittingChanges
  <2>3. \/ lost' = lost \cup {"objects"} /\ loads' = Passed
        \/ /\ lost' = lost /\ loads' = loads /\ ui # "fyne"
           /\ queued' = [queued EXCEPT !.update = Append(@, emitting.update)]
    <3> DEFINE item == emitting.update
               sub == phase = "running"
               gap == TRUE
    <3>1. "update" \in Channels /\ sub \in BOOLEAN /\ gap \in BOOLEAN /\ gap
      BY DEF Channels
    <3>2. Offer("update", item, sub, gap)
      BY <2>1
    <3> HIDE DEF item, sub, gap
    <3>3. \/ lost' = lost \cup {"objects"} /\ loads' = Passed
          \/ /\ lost' = lost /\ loads' = loads /\ ui # "fyne"
             /\ queued' = [queued EXCEPT !.update = Append(@, item)]
      BY <1>1, <3>1, <3>2, Offered, ZenonT(60) DEF Kind
    <3> QED BY <3>3 DEF item
  <2>4. CASE lost' = lost \cup {"objects"} /\ loads' = Passed
    <3>1. NoneSought(loads')
      BY <1>1, <2>4, PassedFollow
    <3>2. AllFollow(loads', loads)
      BY <3>1 DEF AllFollow, Follows, NoneSought
    <3> QED BY <2>1, <2>4, <3>1, <3>2, ObjectsKept
  <2>5. CASE /\ lost' = lost /\ loads' = loads /\ ui # "fyne"
             /\ queued' = [queued EXCEPT !.update = Append(@, emitting.update)]
    <3>1. queued'.update = Append(queued.update, emitting.update) /\ queued'.deleted = queued.deleted
      BY <1>1, <1>a, <2>5 DEF Channels
    <3>2. \A dev \in [Objects -> Int] :
            Sound(ui, dev, stored, emitting, queued, removed)
              => Sound(ui, dev, stored', emitting', queued', removed')
      BY <1>1, <2>1, <2>2, <2>5, <3>1, SoundReported DEF QueuesTyped
    <3>3. AllFollow(loads', loads)
      BY <2>5 DEF AllFollow, Follows
    <3> QED BY <2>1, <2>5, <3>2, <3>3, ObjectsKept
  <2> QED BY <2>3, <2>4, <2>5
<1>6. CASE emitDeleted
  <2>1. /\ emitting.deleted # 0
        /\ Offer("deleted", emitting.deleted, phase = "running" \/ ui = "fyne", TRUE)
        /\ emitting' = [emitting EXCEPT !.deleted = 0]
        /\ UNCHANGED <<stored, shown, removed>>
    BY <1>6 DEF emitDeleted, lists
  <2>2. /\ emitting.deleted \in Objects
        /\ emitting'.update = emitting.update /\ emitting'.deleted = 0
    BY <1>1, <2>1, EmittingChanges
  <2>3. \/ lost' = lost \cup {"objects"} /\ loads' = Passed
        \/ /\ lost' = lost /\ loads' = loads
           /\ queued' = [queued EXCEPT !.deleted = Append(@, emitting.deleted)]
    <3> DEFINE item == emitting.deleted
               sub == phase = "running" \/ ui = "fyne"
               gap == TRUE
    <3>1. "deleted" \in Channels /\ sub \in BOOLEAN /\ gap \in BOOLEAN /\ gap
      BY DEF Channels
    <3>2. Offer("deleted", item, sub, gap)
      BY <2>1
    <3> HIDE DEF item, sub, gap
    <3>3. \/ lost' = lost \cup {"objects"} /\ loads' = Passed
          \/ /\ lost' = lost /\ loads' = loads
             /\ queued' = [queued EXCEPT !.deleted = Append(@, item)]
      BY <1>1, <3>1, <3>2, Offered DEF Kind
    <3> QED BY <3>3 DEF item
  <2>4. CASE lost' = lost \cup {"objects"} /\ loads' = Passed
    <3>1. NoneSought(loads')
      BY <1>1, <2>4, PassedFollow
    <3>2. AllFollow(loads', loads)
      BY <3>1 DEF AllFollow, Follows, NoneSought
    <3> QED BY <2>1, <2>4, <3>1, <3>2, ObjectsKept
  <2>5. CASE /\ lost' = lost /\ loads' = loads
             /\ queued' = [queued EXCEPT !.deleted = Append(@, emitting.deleted)]
    <3>1. queued'.deleted = Append(queued.deleted, emitting.deleted) /\ queued'.update = queued.update
      BY <1>1, <1>a, <2>5 DEF Channels
    <3>2. emitting.update = NoUpdate \/ emitting.update[1] \in Objects
      BY <1>1
    <3>3. \A dev \in [Objects -> Int] :
            Sound(ui, dev, stored, emitting, queued, removed)
              => Sound(ui, dev, stored', emitting', queued', removed')
      BY <1>1, <2>1, <2>2, <3>1, <3>2, SoundReportedGone DEF QueuesTyped
    <3>4. AllFollow(loads', loads)
      BY <2>5 DEF AllFollow, Follows
    <3> QED BY <2>1, <2>5, <3>3, <3>4, ObjectsKept
  <2> QED BY <2>3, <2>4, <2>5
<1>7. CASE emitEvent
  <2>1. /\ Offer("event", told', phase = "running", phase = "subscribe")
        /\ UNCHANGED <<stored, shown, emitting, removed>>
    BY <1>7 DEF emitEvent, lists
  <2>2. /\ \/ queued' = queued
           \/ queued' = [queued EXCEPT !.event = Append(@, told')]
        /\ \/ lost' = lost \cup {"events"} /\ loads' = Passed
           \/ lost' = lost /\ loads' = loads
    <3> DEFINE item == told'
               sub == phase = "running"
               gap == phase = "subscribe"
    <3>1. "event" \in Channels /\ sub \in BOOLEAN /\ gap \in BOOLEAN
      BY DEF Channels
    <3>2. Offer("event", item, sub, gap)
      BY <2>1
    <3> HIDE DEF item, sub, gap
    <3>3. /\ \/ queued' = queued
             \/ queued' = [queued EXCEPT !.event = Append(@, item)]
          /\ \/ lost' = lost \cup {"events"} /\ loads' = Passed
             \/ lost' = lost /\ loads' = loads
      BY <1>1, <3>1, <3>2, Offered DEF Kind
    <3> QED BY <3>3 DEF item
  <2>3. queued'.update = queued.update /\ queued'.deleted = queued.deleted
    BY <1>1, <1>a, <2>2 DEF Channels
  <2>4. \A dev \in [Objects -> Int] :
          Sound(ui, dev, stored, emitting, queued, removed)
            => Sound(ui, dev, stored', emitting', queued', removed')
    BY <2>1, <2>3, SoundElsewhere
  <2>5. AllFollow(loads', loads)
    <3>1. CASE loads' = Passed
      <4>1. NoneSought(loads')
        BY <1>1, <3>1, PassedFollow
      <4> QED BY <4>1 DEF AllFollow, Follows, NoneSought
    <3>2. CASE loads' = loads
      BY <3>2 DEF AllFollow, Follows
    <3> QED BY <2>2, <3>1, <3>2
  <2> QED BY <2>1, <2>2, <2>4, <2>5, ObjectsKept
<1>8. CASE FilterEvents
  <2>1. /\ Loses(If(told # saved, "events"))
        /\ UNCHANGED <<stored, emitting, shown, queued, removed>>
    BY <1>8 DEF FilterEvents, tables
  <2>2. AllFollow(loads', loads) /\ lost \subseteq lost'
    BY <1>1, <2>1, LosesFollow
  <2> QED BY <2>1, <2>2, ObjectsKept
<1>9. CASE Subscribe
  <2>1. UNCHANGED <<stored, emitting, shown, queued, removed, loads, lost>>
    BY <1>9 DEF Subscribe, tables, lists
  <2>2. AllFollow(loads', loads)
    BY <2>1 DEF AllFollow, Follows
  <2> QED BY <2>1, <2>2, ObjectsKept
<1>10. ASSUME NEW c \in Requests, reloadAll(c) \/ ConfigSaved(c) \/ loadMoreEvents(c)
       PROVE  ObjectsInv'
  <2>1. /\ UNCHANGED <<stored, emitting, shown, queued, removed>>
        /\ "objects" \in lost' <=> "objects" \in lost
    BY <1>10 DEF reloadAll, ConfigSaved, loadMoreEvents, Request, tables, If
  <2>2. CASE reloadAll(c)
    <3>1. Request(c, Reloading(limit), loads)
      BY <2>2 DEF reloadAll
    <3>2. Reloading(limit).devices = stored /\ Reloading(limit).quiet = Quiet
      BY ReloadingIs
    <3> QED BY <2>1, <3>1, <3>2, ObjectsRequest
  <2>3. CASE ConfigSaved(c)
    <3>1. PICK size \in FirstLimits, others \in {loads, Overtaken} :
            Request(c, Reloading(size), others)
      BY <2>3 DEF ConfigSaved
    <3>2. Reloading(size).devices = stored /\ Reloading(size).quiet = Quiet
      BY ReloadingIs
    <3> QED BY <2>1, <3>1, <3>2, ObjectsRequest
  <2>4. CASE loadMoreEvents(c)
    <3> DEFINE g == Newest(kept, limit + Chunk)
               size == limit + Chunk
               f == EventsHalfway
    <3>1. Request(c, LoadingMore(g, size, f), loads)
      BY <2>4 DEF loadMoreEvents, LoadingMore
    <3> HIDE DEF g, size, f
    <3>2. LoadingMore(g, size, f).at = "more"
      BY NoLoadIs DEF ALoad, LoadParts, LoadingMore
    <3> QED BY <2>1, <3>1, <3>2, ObjectsRequest
  <2> QED BY <1>10, <2>2, <2>3, <2>4
<1>11. ASSUME NEW c \in Requests, QueryEvents(c)
       PROVE  ObjectsInv'
  <2>1. UNCHANGED <<stored, emitting, shown, queued, removed, lost>>
    BY <1>11 DEF QueryEvents, tables, lists
  <2>2. AllFollow(loads', loads)
    BY <1>1, <1>11, ReadingFollow
  <2> QED BY <2>1, <2>2, ObjectsKept
<1>12. ASSUME NEW c \in Requests, Fail(c) \/ ShowMore(c)
       PROVE  ObjectsInv'
  <2>1. /\ UNCHANGED <<stored, emitting, shown, queued, removed>> /\ lost \subseteq lost'
        /\ loads' = Answered(c) \/ loads' = [loads EXCEPT ![c] = NoLoad]
    BY <1>12 DEF Fail, ShowMore, tables, lists
  <2>2. AllFollow(loads', loads)
    BY <1>1, <2>1, EmptiedFollow
  <2> QED BY <2>1, <2>2, ObjectsKept
<1>13. CASE UNCHANGED listsVars
  <2>1. UNCHANGED <<stored, emitting, shown, queued, removed, loads, lost>>
    BY <1>13 DEF listsVars, tables, lists
  <2>2. AllFollow(loads', loads)
    BY <2>1 DEF AllFollow, Follows
  <2> QED BY <2>1, <2>2, ObjectsKept
<1>14. CASE RefuseEvent \/ DrainEvent
  <2>1. Loses({"events"}) /\ UNCHANGED <<stored, emitting, shown, queued, removed>>
    BY <1>14 DEF RefuseEvent, DrainEvent, lists
  <2>2. AllFollow(loads', loads) /\ lost \subseteq lost'
    BY <1>1, <2>1, LosesFollow
  <2> QED BY <2>1, <2>2, ObjectsKept
<1>15. CASE ExpireEvents
  <2>1. /\ UNCHANGED <<stored, emitting, shown, queued, removed>> /\ lost \subseteq lost'
        /\ loads' = Overtaken
    BY <1>15 DEF ExpireEvents, lists
  <2>2. \A c \in Requests : AsLoad(loads'[c], loads[c])
    BY <1>1, <2>1, Overtakes
  <2>3. AllFollow(loads', loads)
    BY <2>2 DEF AllFollow, Follows, Sought, AsLoad
  <2> QED BY <2>1, <2>3, ObjectsKept
<1> QED BY <1>2, <1>3, <1>4, <1>5, <1>6, <1>7, <1>8, <1>9, <1>10, <1>11, <1>12, <1>13, <1>14,
           <1>15, ObjectsFlush, ObjectsPulled, ObjectsReloaded DEF ListsNext

-----------------------------------------------------------------------------
(* The events.  What the list will be once the channel is flushed is the   *)
(* newest of the events heard of: those of the table that the callbacks    *)
(* know, and those they know before the table has them.                    *)
Rev(q) == [i \in 1 .. Len(q) |-> q[Len(q) + 1 - i]]
FullList(u, q, l) == IF u = "fyne" THEN l ELSE Rev(q) \o l
Heard(k, s, n) == {i \in k : i <= n} \cup (s + 1 .. n)
Whole(u, q, k, s, n, l) == Heard(k, s, n) \subseteq Elements(FullList(u, q, l))
Good(u, q, k, s, n, l, lim) ==
  /\ l \in Seq(Nat) /\ n + 1 .. s \subseteq k /\ (u = "fyne" => n <= s)
  /\ Heads(FullList(u, q, l), Heard(k, s, n))
  /\ Len(l) >= lim \/ Whole(u, q, k, s, n, l)

GoodNow(l, lim) == Good(ui, queued.event, kept, saved, told, l, lim)
WholeNow(l) == Whole(ui, queued.event, kept, saved, told, l)

Fresh(r) == r.at # "none" /\ ~ r.passed
EventsInv ==
  /\ phase = "events" => ~ allShown
  /\ "events" \notin lost /\ phase # "events" =>
       GoodNow(list, limit) /\ (allShown => Len(list) < limit /\ WholeNow(list))
  /\ \A c \in Requests : Fresh(loads[c]) =>
       /\ loads[c].at = "read" /\ ~ loads[c].halfway => GoodNow(loads[c].events, limit)
       /\ loads[c].at = "more" /\ ~ loads[c].halfway => GoodNow(loads[c].events, loads[c].limit)

Longer(g, m, f) ==
  /\ g \in Seq(Nat) /\ Len(g) = Len(f) + 1 /\ g[1] = m
  /\ \A i \in 1 .. Len(f) : g[i + 1] = f[i]

(* A channel turned round and put before the list.                         *)
LEMMA Joined ==
  ASSUME NEW r \in Seq(Nat), NEW l \in Seq(Nat)
  PROVE  /\ r \o l \in Seq(Nat) /\ Len(r \o l) = Len(r) + Len(l)
         /\ \A i \in 1 .. Len(r) : (r \o l)[i] = r[i]
         /\ \A i \in 1 .. Len(l) : (r \o l)[Len(r) + i] = l[i]
<1>1. r \o l \in Seq(Nat)
  OBVIOUS
<1>2. Len(r \o l) = Len(r) + Len(l)
  OBVIOUS
<1>3. \A i \in 1 .. Len(r) : (r \o l)[i] = r[i]
  OBVIOUS
<1>4. \A i \in 1 .. Len(l) : (r \o l)[Len(r) + i] = l[i]
  OBVIOUS
<1> QED BY <1>1, <1>2, <1>3, <1>4

LEMMA RevOver ==
  ASSUME NEW q \in Seq(Nat), NEW l \in Seq(Nat)
  PROVE  /\ Rev(q) \in Seq(Nat) /\ Len(Rev(q)) = Len(q)
         /\ \A i \in 1 .. Len(q) : Rev(q)[i] = q[Len(q) + 1 - i]
         /\ Rev(q) \o l \in Seq(Nat) /\ Len(Rev(q) \o l) = Len(q) + Len(l)
         /\ \A i \in 1 .. Len(q) : (Rev(q) \o l)[i] = q[Len(q) + 1 - i]
         /\ \A i \in 1 .. Len(l) : (Rev(q) \o l)[Len(q) + i] = l[i]
<1> DEFINE n == Len(q)
           r == Rev(q)
<1>1. n \in Nat /\ \A i \in 1 .. n : q[i] \in Nat
  OBVIOUS
<1>2. r = [i \in 1 .. n |-> q[n + 1 - i]]
  BY DEF Rev
<1> HIDE DEF r
<1>3. r \in Seq(Nat) /\ Len(r) = n /\ \A i \in 1 .. n : r[i] = q[n + 1 - i]
  <2>1. \A i \in 1 .. n : n + 1 - i \in 1 .. n
    BY <1>1
  <2>2. r \in [1 .. n -> Nat]
    BY <1>1, <1>2, <2>1
  <2> HIDE DEF n
  <2>3. r \in Seq(Nat) /\ Len(r) = n
    BY <1>1, <2>2
  <2> QED BY <1>2, <2>3
<1>4. /\ r \o l \in Seq(Nat) /\ Len(r \o l) = n + Len(l)
      /\ \A i \in 1 .. n : (r \o l)[i] = r[i]
      /\ \A i \in 1 .. Len(l) : (r \o l)[n + i] = l[i]
  <2>1. n \in Nat /\ r \in Seq(Nat) /\ Len(r) = n
    BY <1>1, <1>3
  <2> HIDE DEF n
  <2> QED BY <2>1, Joined
<1> QED BY <1>3, <1>4 DEF r

LEMMA RevLonger ==
  ASSUME NEW q \in Seq(Nat), NEW l \in Seq(Nat), NEW m \in Nat, NEW r, r = Append(q, m)
  PROVE  Longer(Rev(r) \o l, m, Rev(q) \o l)
<1> DEFINE n == Len(q)
           f == Rev(q) \o l
           g == Rev(r) \o l
<1>1. /\ n \in Nat /\ Len(l) \in Nat /\ r \in Seq(Nat) /\ Len(r) = n + 1
      /\ r[n + 1] = m /\ \A i \in 1 .. n : r[i] = q[i]
  OBVIOUS
<1>2. /\ f \in Seq(Nat) /\ Len(f) = n + Len(l)
      /\ \A i \in 1 .. n : f[i] = q[n + 1 - i]
      /\ \A i \in 1 .. Len(l) : f[n + i] = l[i]
  BY RevOver
<1>3. /\ g \in Seq(Nat) /\ Len(g) = n + 1 + Len(l)
      /\ \A i \in 1 .. n + 1 : g[i] = r[n + 2 - i]
      /\ \A i \in 1 .. Len(l) : g[n + 1 + i] = l[i]
  <2>1. /\ g \in Seq(Nat) /\ Len(g) = Len(r) + Len(l)
        /\ \A i \in 1 .. Len(r) : g[i] = r[Len(r) + 1 - i]
        /\ \A i \in 1 .. Len(l) : g[Len(r) + i] = l[i]
    BY <1>1, RevOver, ZenonT(60)
  <2> HIDE DEF g
  <2> QED BY <1>1, <2>1, SMTT(30)
<1> HIDE DEF n, f, g
<1>4. g[1] = m
  <2>1. 1 \in 1 .. n + 1 /\ n + 2 - 1 = n + 1
    BY <1>1
  <2>2. g[1] = r[n + 2 - 1]
    BY <1>3, <2>1
  <2> QED BY <1>1, <2>1, <2>2
<1>5. ASSUME NEW i \in 1 .. Len(f)
      PROVE  g[i + 1] = f[i]
  <2>1. CASE i <= n
    <3>1. /\ i \in 1 .. n /\ i + 1 \in 1 .. n + 1 /\ n + 1 - i \in 1 .. n
          /\ n + 2 - (i + 1) = n + 1 - i
      BY <1>1, <1>2, <2>1
    <3>2. g[i + 1] = r[n + 1 - i] /\ f[i] = q[n + 1 - i]
      BY <1>2, <1>3, <3>1
    <3> QED BY <1>1, <3>1, <3>2
  <2>2. CASE i > n
    <3>1. PICK j \in 1 .. Len(l) : i = n + j
      <4>1. i - n \in 1 .. Len(l) /\ i = n + (i - n)
        BY <1>1, <1>2, <2>2
      <4> QED BY <4>1
    <3>2. n + 1 + j = i + 1
      BY <1>1, <3>1
    <3>3. g[i + 1] = l[j]
      BY <1>3, <3>2
    <3>4. f[i] = l[j]
      BY <1>2, <3>1
    <3> QED BY <3>3, <3>4
  <2> QED BY <1>1, <1>2, <2>1, <2>2
<1>6. Len(g) = Len(f) + 1
  BY <1>1, <1>2, <1>3
<1>7. Longer(g, m, f)
  BY <1>3, <1>4, <1>5, <1>6 DEF Longer
<1> QED BY <1>7 DEF f, g

LEMMA HeadsLonger ==
  ASSUME NEW S \in SUBSET Nat, NEW f, Heads(f, S), NEW m \in Nat, \A n \in S : n < m,
         NEW g, Longer(g, m, f)
  PROVE  /\ Heads(g, S \cup {m})
         /\ S \subseteq Elements(f) => S \cup {m} \subseteq Elements(g)
<1>1. /\ f \in Seq(Nat) /\ Falls(f) /\ Elements(f) \subseteq S /\ Len(f) \in Nat
      /\ g \in Seq(Nat) /\ Len(g) = Len(f) + 1 /\ g[1] = m
      /\ DOMAIN f = 1 .. Len(f) /\ DOMAIN g = 1 .. Len(f) + 1
  BY DEF Heads, Longer
<1>2. ASSUME NEW i \in DOMAIN g, i # 1
      PROVE  i - 1 \in DOMAIN f /\ g[i] = f[i - 1]
  <2>1. i - 1 \in 1 .. Len(f) /\ (i - 1) + 1 = i
    BY <1>1, <1>2
  <2> QED BY <1>1, <2>1 DEF Longer
<1>3. ASSUME NEW j \in DOMAIN f
      PROVE  j + 1 \in DOMAIN g /\ g[j + 1] = f[j] /\ f[j] \in S
  <2>1. j \in 1 .. Len(f)
    BY <1>1
  <2> QED BY <1>1, <2>1 DEF Longer, Elements
<1>4. Falls(g)
  <2> SUFFICES ASSUME NEW i \in DOMAIN g, NEW j \in DOMAIN g, i < j PROVE g[i] > g[j]
    BY DEF Falls
  <2>1. j # 1 /\ j - 1 \in DOMAIN f /\ g[j] = f[j - 1]
    BY <1>1, <1>2, SMTT(30)
  <2>2. CASE i = 1
    BY <1>1, <1>3, <2>1, <2>2 DEF Elements
  <2>3. CASE i # 1
    <3>1. i - 1 \in DOMAIN f /\ g[i] = f[i - 1] /\ i - 1 < j - 1
      BY <1>1, <1>2, <2>3
    <3> QED BY <1>1, <2>1, <3>1 DEF Falls
  <2> QED BY <2>2, <2>3
<1>5. Elements(g) = Elements(f) \cup {m}
  <2>1. 1 \in DOMAIN g
    BY <1>1
  <2>2. Elements(g) \subseteq Elements(f) \cup {m}
    <3> SUFFICES ASSUME NEW i \in DOMAIN g PROVE g[i] \in Elements(f) \cup {m}
      BY DEF Elements
    <3> QED BY <1>1, <1>2 DEF Elements
  <2>3. Elements(f) \subseteq Elements(g)
    <3> SUFFICES ASSUME NEW j \in DOMAIN f PROVE f[j] \in Elements(g)
      BY DEF Elements
    <3> QED BY <1>3 DEF Elements
  <2>4. m \in Elements(g)
    BY <1>1, <2>1 DEF Elements
  <2> QED BY <2>2, <2>3, <2>4
<1>6. ASSUME NEW n \in (S \cup {m}) \ Elements(g), NEW i \in DOMAIN g
      PROVE  g[i] > n
  <2>1. n \in S \ Elements(f)
    BY <1>5
  <2>2. CASE i = 1
    BY <1>1, <2>1, <2>2
  <2>3. CASE i # 1
    BY <1>2, <2>1, <2>3 DEF Heads
  <2> QED BY <2>2, <2>3
<1> QED BY <1>1, <1>4, <1>5, <1>6 DEF Heads

Cut(f, c) == SubSeq(f, 1, IF Len(f) < c THEN Len(f) ELSE c)

LEMMA HeadsPrefix ==
  ASSUME NEW S, NEW f, Heads(f, S), NEW c \in Nat,
         NEW g, g = Cut(f, c)
  PROVE  /\ Heads(g, S) /\ (Len(g) = c \/ g = f)
<1>1. f \in Seq(Nat) /\ Len(f) \in Nat /\ Falls(f) /\ Elements(f) \subseteq S
  BY DEF Heads
<1>2. CASE Len(f) < c
  <2>1. g = f
    BY <1>1, <1>2 DEF Cut
  <2> QED BY <2>1
<1>3. CASE ~ (Len(f) < c)
  <2>1. /\ g \in Seq(Nat) /\ Len(g) = c /\ DOMAIN g = 1 .. c /\ DOMAIN f = 1 .. Len(f)
        /\ \A i \in 1 .. c : g[i] = f[i] /\ i \in DOMAIN f
    BY <1>1, <1>3 DEF Cut
  <2>2. Falls(g) /\ Elements(g) \subseteq S
    BY <1>1, <2>1 DEF Falls, Elements
  <2>3. ASSUME NEW n \in S \ Elements(g), NEW i \in DOMAIN g
        PROVE  g[i] > n
    <3>1. CASE n \in Elements(f)
      <4>1. PICK j \in DOMAIN f : n = f[j]
        BY <3>1 DEF Elements
      <4>2. j > i
        <5>1. i \in 1 .. c /\ j \in 1 .. Len(f)
          BY <2>1
        <5>2. ASSUME j \in 1 .. c
              PROVE  n \in Elements(g)
          BY <2>1, <4>1, <5>2 DEF Elements
        <5>3. j \notin 1 .. c
          BY <2>3, <5>2
        <5> QED BY <1>1, <5>1, <5>3
      <4> QED BY <1>1, <2>1, <4>1, <4>2 DEF Falls
    <3>2. CASE n \notin Elements(f)
      BY <2>1, <3>2 DEF Heads
    <3> QED BY <3>1, <3>2
  <2> QED BY <2>1, <2>2, <2>3 DEF Heads
<1> QED BY <1>2, <1>3

LEMMA HeardIs ==
  ASSUME NEW s \in Nat, NEW n \in Nat, NEW k \in SUBSET (1 .. s)
  PROVE  \A i : i \in Heard(k, s, n) <=>
            (i \in k /\ i <= n) \/ (i \in Nat /\ s < i /\ i <= n)
BY DEF Heard

LEMMA FullEmpty ==
  ASSUME NEW u, NEW l \in Seq(Nat)
  PROVE  FullList(u, <<>>, l) = l
<1>1. Rev(<<>>) = <<>>
  BY DEF Rev
<1> QED BY <1>1 DEF FullList

(* What every step does to the list and to the answers of the queries: an  *)
(* event reported, an event stored, a flush, a query, a deletion.          *)
LEMMA GoodReported ==
  ASSUME NEW u, u # "fyne", NEW q \in Seq(Nat), NEW s \in Nat, NEW n \in Nat,
         NEW k \in SUBSET (1 .. s), NEW l, NEW lim, Good(u, q, k, s, n, l, lim),
         NEW m, m = n + 1, NEW r, r = Append(q, m)
  PROVE  /\ Good(u, r, k, s, m, l, lim)
         /\ Whole(u, q, k, s, n, l) => Whole(u, r, k, s, m, l)
<1> DEFINE S == Heard(k, s, n)
           f == Rev(q) \o l
           g == Rev(r) \o l
<1>1. l \in Seq(Nat) /\ n + 1 .. s \subseteq k /\ m \in Nat
  BY DEF Good
<1>2. S \in SUBSET Nat /\ \A i \in S : i < m
  <2>1. \A i \in S : (i \in k /\ i <= n) \/ (i \in Nat /\ s < i /\ i <= n)
    BY HeardIs
  <2>2. \A i \in k : i \in Nat
    OBVIOUS
  <2> HIDE DEF S
  <2>3. \A i \in S : i \in Nat /\ i <= n
    BY <2>1, <2>2
  <2>4. \A i \in S : i < m
    BY <2>3
  <2> QED BY <2>3, <2>4
<1>3. Heard(k, s, m) = S \cup {m}
  <2>1. ASSUME NEW i
        PROVE  i \in Heard(k, s, m) <=> i \in S \/ i = m
    <3>1. i \in Heard(k, s, m) <=>
            (i \in k /\ i <= m) \/ (i \in Nat /\ s < i /\ i <= m)
      BY <1>1, HeardIs
    <3>2. i \in S <=>
            (i \in k /\ i <= n) \/ (i \in Nat /\ s < i /\ i <= n)
      BY HeardIs
    <3>3. m \in k \/ s < m
      BY <1>1
    <3>4. \A j \in k : j \in Nat /\ j <= s
      OBVIOUS
    <3> HIDE DEF S
    <3>5. i \in Nat => (i <= m <=> i <= n \/ i = m)
      BY <1>1
    <3>6. m <= m
      BY <1>1
    <3>7. i \in k => i \in Nat
      BY <3>4
    <3> QED BY <1>1, <3>1, <3>2, <3>3, <3>5, <3>6, <3>7
  <2> HIDE DEF S
  <2> QED BY <2>1
<1>4. FullList(u, q, l) = f /\ FullList(u, r, l) = g
  BY DEF FullList
<1>5. Longer(g, m, f)
  BY <1>1, RevLonger
<1> HIDE DEF S, f, g
<1>6. Heads(f, S)
  BY <1>4 DEF Good, S
<1>7. Heads(g, S \cup {m}) /\ (S \subseteq Elements(f) => S \cup {m} \subseteq Elements(g))
  <2>1. m \in Nat /\ S \in SUBSET Nat
    BY <1>1, <1>2
  <2> HIDE DEF Elements
  <2> QED BY ONLY <2>1, <1>2, <1>5, <1>6, HeadsLonger
<1>8. Whole(u, q, k, s, n, l) => Whole(u, r, k, s, m, l)
  BY <1>3, <1>4, <1>7 DEF Whole, S
<1>9. m + 1 .. s \subseteq k
  BY <1>1
<1> QED BY <1>1, <1>3, <1>4, <1>7, <1>8, <1>9 DEF Good

LEMMA GoodStored ==
  ASSUME NEW u, NEW q, NEW s \in Nat, NEW n \in Nat,
         NEW k \in SUBSET (1 .. s), NEW l, NEW lim, Good(u, q, k, s, n, l, lim),
         NEW t, t = s + 1, NEW j, j = k \cup {t}
  PROVE  /\ Good(u, q, j, t, n, l, lim)
         /\ Whole(u, q, k, s, n, l) => Whole(u, q, j, t, n, l)
<1>1. n + 1 .. t \subseteq j
  <2>1. n + 1 .. s \subseteq k
    BY DEF Good
  <2> QED BY <2>1
<1>2. Heard(j, t, n) = Heard(k, s, n)
  BY DEF Heard
<1>3. u = "fyne" => n <= t
  BY DEF Good
<1> QED BY <1>1, <1>2, <1>3 DEF Good, Whole

LEMMA GoodExpired ==
  ASSUME NEW u, NEW q \in Seq(Nat), NEW s \in Nat, NEW n \in Nat,
         NEW k \in SUBSET (1 .. s), NEW l, NEW lim, Good(u, q, k, s, n, l, lim),
         NEW gone \in SUBSET k, gone \cap (Elements(l) \cup Elements(q) \cup n + 1 .. s) = {},
         NEW j, j = k \ gone
  PROVE  /\ Good(u, q, j, s, n, l, lim)
         /\ Whole(u, q, k, s, n, l) => Whole(u, q, j, s, n, l)
<1> DEFINE f == FullList(u, q, l)
<1>1. /\ l \in Seq(Nat) /\ n + 1 .. s \subseteq k /\ Heads(f, Heard(k, s, n))
  BY DEF Good
<1>2. Elements(f) \subseteq Elements(l) \cup Elements(q)
  <2>1. CASE u = "fyne"
    BY <2>1 DEF FullList
  <2>2. CASE u # "fyne"
    <3>1. f = Rev(q) \o l
      BY <2>2 DEF FullList
    <3>2. /\ Len(f) = Len(q) + Len(l) /\ f \in Seq(Nat)
          /\ \A i \in 1 .. Len(q) : f[i] = q[Len(q) + 1 - i]
          /\ \A i \in 1 .. Len(l) : f[Len(q) + i] = l[i]
      BY <1>1, <3>1, RevOver, SMTT(30)
    <3> HIDE DEF f
    <3>3. /\ Len(q) \in Nat /\ Len(l) \in Nat /\ DOMAIN f = 1 .. Len(q) + Len(l)
          /\ DOMAIN q = 1 .. Len(q) /\ DOMAIN l = 1 .. Len(l)
      BY <1>1, <3>2
    <3> SUFFICES ASSUME NEW i \in DOMAIN f PROVE f[i] \in Elements(l) \cup Elements(q)
      BY DEF Elements
    <3>4. CASE i <= Len(q)
      <4>1. i \in 1 .. Len(q) /\ Len(q) + 1 - i \in DOMAIN q
        BY <3>3, <3>4
      <4> QED BY <3>2, <4>1 DEF Elements
    <3>5. CASE i > Len(q)
      <4>1. i - Len(q) \in DOMAIN l /\ Len(q) + (i - Len(q)) = i
        BY <3>3, <3>5
      <4> QED BY <3>2, <3>3, <4>1 DEF Elements
    <3> QED BY <3>3, <3>4, <3>5
  <2> QED BY <2>1, <2>2
<1>3. Heard(j, s, n) = Heard(k, s, n) \ gone
  <2>1. \A i \in gone : i \notin s + 1 .. n
    BY SMTT(30)
  <2> QED BY <2>1 DEF Heard
<1> HIDE DEF f
<1>4. Heads(f, Heard(j, s, n))
  BY <1>1, <1>2, <1>3 DEF Heads
<1>5. n + 1 .. s \subseteq j
  BY <1>1
<1>6. Whole(u, q, k, s, n, l) => Whole(u, q, j, s, n, l)
  BY <1>3 DEF Whole
<1> QED BY <1>1, <1>4, <1>5, <1>6 DEF Good, f

LEMMA GoodFlushed ==
  ASSUME NEW u, u # "fyne", NEW q \in Seq(Nat), NEW s, NEW n, NEW k,
         NEW l, NEW lim \in Nat, Good(u, q, k, s, n, l, lim),
         NEW cap \in Nat, cap >= lim, NEW g, g = prependEvents(l, q, cap)
  PROVE  /\ Good(u, <<>>, k, s, n, g, lim)
         /\ q = <<>> /\ Len(l) < lim => g = l
<1> DEFINE f == Rev(q) \o l
<1>1. l \in Seq(Nat) /\ f \in Seq(Nat) /\ Len(f) = Len(q) + Len(l) /\ FullList(u, q, l) = f
  BY RevOver DEF Good, FullList
<1>2. g = Cut(f, cap)
  BY DEF prependEvents, Rev, Cut
<1>3. Heads(f, Heard(k, s, n))
  BY <1>1 DEF Good
<1>4. Len(l) >= lim \/ Heard(k, s, n) \subseteq Elements(f)
  BY <1>1 DEF Good, Whole
<1>5. q = <<>> => f = l
  BY <1>1, FullEmpty DEF FullList
<1>5a. Len(q) \in Nat /\ Len(l) \in Nat
  BY <1>1
<1> HIDE DEF f
<1>6. Heads(g, Heard(k, s, n)) /\ (Len(g) = cap \/ g = f)
  <2> DEFINE S == Heard(k, s, n)
  <2>1. Heads(f, S)
    BY <1>3
  <2> HIDE DEF S
  <2>2. Heads(g, S) /\ (Len(g) = cap \/ g = f)
    BY ONLY cap \in Nat, <1>2, <2>1, HeadsPrefix
  <2> QED BY <2>2 DEF S
<1>7. g \in Seq(Nat) /\ FullList(u, <<>>, g) = g
  BY <1>6, FullEmpty DEF Heads
<1>8. Len(g) >= lim \/ Heard(k, s, n) \subseteq Elements(g)
  BY <1>1, <1>4, <1>5a, <1>6
<1>9. q = <<>> /\ Len(l) < lim => g = l
  <2> SUFFICES ASSUME q = <<>>, Len(l) < lim PROVE g = l
    OBVIOUS
  <2>1. f = l /\ Len(f) < cap
    BY <1>5, <1>5a
  <2>2. g = SubSeq(l, 1, Len(l))
    BY <1>2, <2>1 DEF Cut
  <2> QED BY <1>1, <2>2
<1> QED BY <1>6, <1>7, <1>8, <1>9 DEF Good, Whole

LEMMA GoodLoaded ==
  ASSUME NEW u, NEW q, q = <<>> \/ u = "fyne", NEW s \in Nat, NEW k \in SUBSET (1 .. s),
         NEW lim \in Nat, NEW size \in Nat, size >= lim, NEW l, l = Newest(k, size)
  PROVE  Good(u, q, k, s, s, l, lim) /\ Len(l) \in Nat
<1>1. Heard(k, s, s) = k
  <2>1. \A i : i \in Heard(k, s, s) <=>
            (i \in k /\ i <= s) \/ (i \in Nat /\ s < i /\ i <= s)
    BY HeardIs
  <2>2. \A i \in k : i <= s
    OBVIOUS
  <2>3. \A i \in Nat : ~ (s < i /\ i <= s)
    OBVIOUS
  <2> QED BY <2>1, <2>2, <2>3
<1>2. k \in SUBSET (0 .. s)
  OBVIOUS
<1>3. /\ Heads(l, k) /\ (Len(l) >= size \/ k \subseteq Elements(l)) /\ Len(l) \in Nat
  BY <1>2, NewestHeads
<1>4. FullList(u, q, l) = l
  BY <1>3, FullEmpty DEF Heads, FullList
<1>5. s + 1 .. s = {} /\ s <= s
  OBVIOUS
<1>6. Len(l) >= lim \/ k \subseteq Elements(l)
  BY <1>3
<1>7. l \in Seq(Nat)
  BY <1>3 DEF Heads
<1> QED BY <1>1, <1>3, <1>4, <1>5, <1>6, <1>7 DEF Good, Whole

LEMMA GoodLower ==
  ASSUME NEW u, NEW q, NEW s, NEW n, NEW k, NEW l, NEW lim \in Nat,
         Good(u, q, k, s, n, l, lim), NEW low \in Nat, low <= lim
  PROVE  Good(u, q, k, s, n, l, low)
<1>1. Len(l) \in Nat
  BY DEF Good
<1> QED BY <1>1 DEF Good

LEMMA GoodPulled ==
  ASSUME NEW q, NEW s \in 0 .. Len(Owner), NEW n \in Nat, NEW k \in SUBSET (1 .. s), NEW l,
         NEW lim, Good("fyne", q, k, s, n, l, lim), NEW d, EventsOf(d) \cap k = {}
  PROVE  EventsWithout(l, d) = l
<1>0. Len(Owner) \in Nat /\ DOMAIN Owner = 1 .. Len(Owner)
  BY ListsAssumption
<1>1. l \in Seq(Nat) /\ Len(l) \in Nat /\ Elements(l) \subseteq k
  <2>1. Elements(l) \subseteq Heard(k, s, n) /\ n <= s /\ l \in Seq(Nat)
    BY DEF Good, Heads, FullList
  <2>2. Heard(k, s, n) \subseteq k
    BY <1>0, <2>1 DEF Heard
  <2> QED BY <2>1, <2>2
<1> DEFINE m == Len(l)
           stay == {i \in DOMAIN l : Owner[l[i]] # d}
<1>2. stay = 1 .. m
  <2>1. \A i \in 1 .. m : l[i] \in k
    BY <1>1 DEF Elements
  <2>2. \A i \in k : Owner[i] # d
    BY <1>0 DEF EventsOf, EventNumbers
  <2> QED BY <1>1, <2>1, <2>2
<1> HIDE DEF stay
<1>3. \A i \in 0 .. m : Cardinality(1 .. i) = i
  BY <1>1, FS_Interval
<1>4. Cardinality(stay) = m
  BY <1>1, <1>2, <1>3
<1>5. ASSUME NEW i \in 1 .. m
      PROVE  Cardinality(stay \cap (1 .. i)) = i
  <2>1. stay \cap (1 .. i) = 1 .. i
    BY <1>1, <1>2
  <2>2. i \in 0 .. m
    BY <1>1
  <2> HIDE DEF m
  <2> QED BY <1>3, <2>1, <2>2
<1>6. ASSUME NEW j \in 1 .. m
      PROVE  (CHOOSE i \in stay : Cardinality(stay \cap (1 .. i)) = j) = j
  <2>1. \A i \in stay : Cardinality(stay \cap (1 .. i)) = j <=> i = j
    BY <1>2, <1>5
  <2> QED BY <1>2, <2>1
<1>7. EventsWithout(l, d)
        = [j \in 1 .. Cardinality(stay) |->
             l[CHOOSE i \in stay : Cardinality(stay \cap (1 .. i)) = j]]
  BY DEF EventsWithout, stay
<1>8. l = [j \in 1 .. m |-> l[j]]
  BY <1>1
<1> HIDE DEF m
<1> QED BY <1>4, <1>6, <1>7, <1>8

(* What a step leaves of the queries of the events.                        *)
Goes(s, r) ==
  Fresh(s) => /\ Fresh(r) /\ s.at = r.at /\ s.events = r.events /\ s.limit = r.limit
              /\ ~ s.halfway => ~ r.halfway
AllGo(ls, ks) == \A c \in Requests : Goes(ls[c], ks[c])
NoneFresh(ls) == \A c \in Requests : ~ Fresh(ls[c])

LEMMA PassedGo ==
  ASSUME LoadsTyped(loads, phase), loads' = Passed
  PROVE  NoneFresh(loads')
<1> SUFFICES ASSUME NEW c \in Requests, loads'[c].at # "none"
             PROVE  loads'[c].passed
  BY DEF NoneFresh, Fresh
<1>1. SameLoad(loads'[c], loads[c]) /\ loads'[c].passed = (loads[c].at # "none")
  BY PassesAll
<1>2. loads[c].at # "none"
  BY <1>1 DEF SameLoad
<1> QED BY <1>1, <1>2

LEMMA LosesGo ==
  ASSUME LoadsTyped(loads, phase), NEW what, Loses(what)
  PROVE  /\ AllGo(loads', loads) /\ lost' = lost \cup what
         /\ what # {} => NoneFresh(loads')
<1>1. CASE what = {}
  <2>1. loads' = loads /\ lost' = lost \cup what
    BY <1>1, Lost
  <2> QED BY <1>1, <2>1 DEF AllGo, Goes
<1>2. CASE what # {}
  <2>1. loads' = Passed /\ lost' = lost \cup what
    BY <1>2, Lost
  <2>2. NoneFresh(loads')
    BY <2>1, PassedGo
  <2> QED BY <2>1, <2>2 DEF AllGo, Goes, NoneFresh
<1> QED BY <1>1, <1>2

LEMMA EmptiedGo ==
  ASSUME LoadsTyped(loads, phase), NEW c \in Requests,
         loads' = Answered(c) \/ loads' = [loads EXCEPT ![c] = NoLoad]
  PROVE  /\ AllGo(loads', loads)
         /\ loads' = Answered(c) => NoneFresh(loads')
<1>1. ~ Fresh(loads'[c])
  BY Emptied, NoLoadIs DEF Fresh
<1>2. ASSUME NEW k \in Requests \ {c}
      PROVE  /\ Goes(loads'[k], loads[k])
             /\ loads' = Answered(c) => ~ Fresh(loads'[k])
  <2>1. /\ SameLoad(loads'[k], loads[k])
        /\ loads' = Answered(c) => loads'[k].passed = (loads[k].at # "none")
        /\ loads' # Answered(c) => loads'[k].passed = loads[k].passed
    BY Emptied
  <2>2. loads' = Answered(c) => ~ Fresh(loads'[k])
    <3> SUFFICES ASSUME loads' = Answered(c), loads'[k].at # "none"
                 PROVE  loads'[k].passed
      BY DEF Fresh
    <3>1. loads[k].at # "none"
      BY <2>1 DEF SameLoad
    <3> QED BY <2>1, <3>1
  <2>3. CASE loads' # Answered(c)
    BY <2>1, <2>3 DEF Goes, Fresh, SameLoad
  <2> QED BY <2>2, <2>3 DEF Goes
<1> QED BY <1>1, <1>2 DEF AllGo, NoneFresh, Goes

(* A step that leaves the list as it is keeps the events.                  *)
LEMMA EventsKept ==
  ASSUME ListsTypes, EventsInv, UNCHANGED <<ui, list, limit, allShown>>, lost \subseteq lost',
         phase' = "events" <=> phase = "events", AllGo(loads', loads),
         \/ "events" \in lost' /\ NoneFresh(loads')
         \/ \A l \in Seq(Nat), lim \in Nat : GoodNow(l, lim) =>
               GoodNow(l, lim)' /\ (WholeNow(l) => WholeNow(l)')
         \/ phase = "events" /\ NoneFresh(loads')
  PROVE  EventsInv'
<1>0. phase' = "events" => ~ allShown'
  BY DEF EventsInv
<1>1. CASE "events" \in lost' /\ NoneFresh(loads')
  BY <1>0, <1>1 DEF EventsInv, NoneFresh
<1>2. CASE phase = "events" /\ NoneFresh(loads')
  BY <1>0, <1>2 DEF EventsInv, NoneFresh
<1>3. CASE \A l \in Seq(Nat), lim \in Nat : GoodNow(l, lim) =>
             GoodNow(l, lim)' /\ (WholeNow(l) => WholeNow(l)')
  <2>1. limit \in Nat /\ \A c \in Requests : loads[c].limit \in Nat
    BY DEF ListsTypes, LoadsTyped, TypedLoad
  <2>2. ASSUME NEW l, NEW lim \in Nat, GoodNow(l, lim)
        PROVE  GoodNow(l, lim)' /\ (WholeNow(l) => WholeNow(l)')
    <3>1. l \in Seq(Nat)
      BY <2>2 DEF GoodNow, Good
    <3> QED BY <1>3, <2>2, <3>1
  <2>3. "events" \notin lost' /\ phase' # "events" =>
          GoodNow(list, limit)' /\ (allShown' => Len(list') < limit' /\ WholeNow(list)')
    <3> SUFFICES ASSUME "events" \notin lost', phase' # "events"
                 PROVE  GoodNow(list, limit)' /\ (allShown' => Len(list') < limit' /\ WholeNow(list)')
      OBVIOUS
    <3>1. GoodNow(list, limit) /\ (allShown => Len(list) < limit /\ WholeNow(list))
      BY DEF EventsInv
    <3>2. Good(ui, queued'.event, kept', saved', told', list, limit)
      BY <2>1, <2>2, <3>1 DEF GoodNow
    <3>3. WholeNow(list) => Whole(ui, queued'.event, kept', saved', told', list)
      BY <2>1, <2>2, <3>1 DEF WholeNow
    <3> QED BY <3>1, <3>2, <3>3 DEF GoodNow, WholeNow
  <2>4. ASSUME NEW c \in Requests, Fresh(loads'[c])
        PROVE  /\ loads'[c].at = "read" /\ ~ loads'[c].halfway =>
                    Good(ui, queued'.event, kept', saved', told', loads'[c].events, limit)
               /\ loads'[c].at = "more" /\ ~ loads'[c].halfway =>
                    Good(ui, queued'.event, kept', saved', told', loads'[c].events, loads'[c].limit)
    <3>1. /\ Fresh(loads[c]) /\ loads'[c].at = loads[c].at /\ loads'[c].events = loads[c].events
          /\ loads'[c].limit = loads[c].limit /\ (~ loads'[c].halfway => ~ loads[c].halfway)
      BY <2>4 DEF AllGo, Goes
    <3>2. /\ loads[c].at = "read" /\ ~ loads[c].halfway => GoodNow(loads[c].events, limit)
          /\ loads[c].at = "more" /\ ~ loads[c].halfway => GoodNow(loads[c].events, loads[c].limit)
      BY <3>1 DEF EventsInv
    <3>3. loads[c].at = "read" /\ ~ loads[c].halfway =>
            Good(ui, queued'.event, kept', saved', told', loads[c].events, limit)
      BY <2>1, <2>2, <3>2 DEF GoodNow
    <3>4. loads[c].at = "more" /\ ~ loads[c].halfway =>
            Good(ui, queued'.event, kept', saved', told', loads[c].events, loads[c].limit)
      BY <2>1, <2>2, <3>2 DEF GoodNow
    <3> QED BY <3>1, <3>2, <3>3, <3>4
  <2> QED BY <1>0, <2>3, <2>4 DEF EventsInv, GoodNow
<1> QED BY <1>1, <1>2, <1>3

LEMMA EventsFrame ==
  ASSUME ListsTypes, EventsInv, UNCHANGED <<ui, list, limit, allShown>>, lost \subseteq lost',
         phase' = "events" <=> phase = "events", AllGo(loads', loads),
         UNCHANGED <<kept, saved, told>>, queued'.event = queued.event
  PROVE  EventsInv'
<1>1. \A l \in Seq(Nat), lim \in Nat : GoodNow(l, lim) =>
         GoodNow(l, lim)' /\ (WholeNow(l) => WholeNow(l)')
  BY DEF GoodNow, WholeNow
<1> QED BY <1>1, EventsKept

LEMMA EventsStart == ListsInit => EventsInv
<1> SUFFICES ASSUME ListsInit PROVE EventsInv
  OBVIOUS
<1>1. phase = "events" /\ allShown = FALSE /\ loads = [c \in Requests |-> NoLoad]
  BY DEF ListsInit
<1>2. \A c \in Requests : ~ Fresh(loads[c])
  BY <1>1, NoLoadIs DEF Fresh
<1> QED BY <1>1, <1>2 DEF EventsInv

LEMMA EventsRequest ==
  ASSUME ListsTypes, EventsInv, UNCHANGED <<ui, list, queued, kept, saved, told, phase>>,
         NEW c \in Requests, NEW load, NEW others, Request(c, load, others), load.passed = FALSE,
         limit' \in Nat,
         \/ /\ others = loads /\ lost' = lost /\ limit' <= limit
            /\ allShown' => allShown /\ limit' = limit
         \/ others = Overtaken /\ "events" \in lost' /\ ~ allShown',
         \/ load.at = "events"
         \/ load.at = "more" /\ (~ load.halfway => GoodNow(load.events, load.limit))
  PROVE  EventsInv'
<1>1. /\ loads'[c] = load
      /\ \A k \in Requests \ {c} : SameLoad(loads'[k], others[k]) /\ loads'[k].passed = others[k].passed
  <2>1. LoadsTyped(others, phase)
    BY Overtakes DEF ListsTypes
  <2> QED BY <2>1, RequestFollow
<1>2. limit \in Nat /\ \A k \in Requests : loads[k].limit \in Nat
  BY DEF ListsTypes, LoadsTyped, TypedLoad
<1>3. ASSUME NEW l, GoodNow(l, limit), limit' <= limit
      PROVE  GoodNow(l, limit')
  BY <1>2, <1>3, GoodLower DEF GoodNow
<1>4. \A l, lim : (GoodNow(l, lim) => Good(ui, queued'.event, kept', saved', told', l, lim))
                  /\ (WholeNow(l) => Whole(ui, queued'.event, kept', saved', told', l))
  BY DEF GoodNow, WholeNow
<1>5. phase' = "events" => ~ allShown'
  BY DEF EventsInv
<1>6. ASSUME "events" \notin lost', phase' # "events"
      PROVE  GoodNow(list, limit)' /\ (allShown' => Len(list') < limit' /\ WholeNow(list)')
  <2>1. GoodNow(list, limit) /\ (allShown => Len(list) < limit /\ WholeNow(list))
    BY <1>6 DEF EventsInv
  <2>2. Good(ui, queued'.event, kept', saved', told', list, limit')
    BY <1>3, <1>4, <1>6, <2>1
  <2>3. allShown' => Len(list) < limit' /\ Whole(ui, queued'.event, kept', saved', told', list)
    BY <1>4, <1>6, <2>1
  <2> QED BY <2>2, <2>3 DEF GoodNow, WholeNow
<1>7. ASSUME NEW k \in Requests, Fresh(loads'[k])
      PROVE  /\ loads'[k].at = "read" /\ ~ loads'[k].halfway =>
                  Good(ui, queued'.event, kept', saved', told', loads'[k].events, limit')
             /\ loads'[k].at = "more" /\ ~ loads'[k].halfway =>
                  Good(ui, queued'.event, kept', saved', told', loads'[k].events, loads'[k].limit)
  <2>1. CASE k = c
    BY <1>1, <1>4, <2>1
  <2>2. CASE k # c /\ others = Overtaken
    <3>1. SameLoad(loads'[k], others[k])
      BY <1>1, <2>2
    <3>2. others[k].at \in {"read", "more"} => others[k].halfway
      BY <2>2, Overtakes DEF ListsTypes
    <3> QED BY <3>1, <3>2 DEF SameLoad
  <2>3. CASE k # c /\ others = loads /\ limit' <= limit
    <3>1. SameLoad(loads'[k], loads[k]) /\ Fresh(loads[k])
      BY <1>1, <1>7, <2>3 DEF SameLoad, Fresh
    <3>2. /\ loads[k].at = "read" /\ ~ loads[k].halfway => GoodNow(loads[k].events, limit)
          /\ loads[k].at = "more" /\ ~ loads[k].halfway => GoodNow(loads[k].events, loads[k].limit)
      BY <3>1 DEF EventsInv
    <3>3. /\ loads[k].at = "read" /\ ~ loads[k].halfway =>
               Good(ui, queued'.event, kept', saved', told', loads[k].events, limit')
          /\ loads[k].at = "more" /\ ~ loads[k].halfway =>
               Good(ui, queued'.event, kept', saved', told', loads[k].events, loads[k].limit)
      BY <1>3, <1>4, <2>3, <3>2
    <3> QED BY <3>1, <3>3 DEF SameLoad
  <2> QED BY <2>1, <2>2, <2>3
<1> QED BY <1>5, <1>6, <1>7 DEF EventsInv, GoodNow

(* A query that runs while no event is between the table and the list.     *)
LEMMA LoadedNow ==
  ASSUME ListsTypes, ~ EventsHalfway, NEW lim \in Nat, NEW size \in Nat, size >= lim,
         NEW l, l = Newest(kept, size)
  PROVE  GoodNow(l, lim)
<1>1. /\ told = saved /\ (queued.event = <<>> \/ ui = "fyne")
  BY DEF EventsHalfway
<1>2. saved \in Nat /\ kept \in SUBSET (1 .. saved)
  BY ListsAssumption DEF ListsTypes, TablesTyped
<1> QED BY <1>1, <1>2, GoodLoaded DEF GoodNow

LEMMA EventsQueried ==
  ASSUME ListsTypes, EventsInv, UNCHANGED ui, NEW c \in Requests, QueryEvents(c)
  PROVE  EventsInv'
<1>1. UNCHANGED <<kept, saved, told, phase, list, limit, allShown, queued, lost>>
  BY DEF QueryEvents, tables, lists
<1> DEFINE r == loads[c]
           s == loads'[c]
           size == IF ui = "windows" THEN limit ELSE r.limit
<1>2. /\ r.at = "events" /\ \A k \in Requests \ {c} : loads'[k] = loads[k]
      /\ s.at = "read" /\ s.halfway = (EventsHalfway \/ size < limit) /\ s.events = Newest(kept, size)
  BY ReadingIs DEF ListsTypes
<1>3. limit \in Nat /\ r.limit \in Nat
  BY DEF ListsTypes, LoadsTyped, TypedLoad
<1>4. ASSUME ~ s.halfway
      PROVE  GoodNow(s.events, limit)
  <2>1. ~ EventsHalfway /\ ~ (size < limit) /\ s.events = Newest(kept, size) /\ size \in Nat
    BY <1>2, <1>3, <1>4
  <2> HIDE DEF size, r, s
  <2> QED BY <1>3, <2>1, LoadedNow
<1>5. \A l, lim : (GoodNow(l, lim) => Good(ui, queued'.event, kept', saved', told', l, lim))
                  /\ (WholeNow(l) => Whole(ui, queued'.event, kept', saved', told', l))
  BY <1>1 DEF GoodNow, WholeNow
<1>6. phase' = "events" => ~ allShown'
  BY <1>1 DEF EventsInv
<1>7. "events" \notin lost' /\ phase' # "events" =>
        GoodNow(list, limit)' /\ (allShown' => Len(list') < limit' /\ WholeNow(list)')
  BY <1>1 DEF EventsInv, GoodNow, WholeNow
<1>8. ASSUME NEW k \in Requests, Fresh(loads'[k])
      PROVE  /\ loads'[k].at = "read" /\ ~ loads'[k].halfway =>
                  Good(ui, queued'.event, kept', saved', told', loads'[k].events, limit)
             /\ loads'[k].at = "more" /\ ~ loads'[k].halfway =>
                  Good(ui, queued'.event, kept', saved', told', loads'[k].events, loads'[k].limit)
  <2>1. CASE k = c
    BY <1>2, <1>4, <1>5, <1>8, <2>1
  <2>2. CASE k # c
    <3>1. loads'[k] = loads[k]
      BY <1>2, <2>2
    <3> QED BY <1>5, <1>8, <3>1 DEF EventsInv
  <2> QED BY <2>1, <2>2
<1> QED BY <1>1, <1>6, <1>7, <1>8 DEF EventsInv, GoodNow

(* A step after which no query is under way that could still be right.     *)
LEMMA EventsReplaced ==
  ASSUME NoneFresh(loads'), phase' = "events" => ~ allShown',
         "events" \notin lost' /\ phase' # "events" =>
           GoodNow(list, limit)' /\ (allShown' => Len(list') < limit' /\ WholeNow(list)')
  PROVE  EventsInv'
BY DEF EventsInv, NoneFresh

LEMMA EventsFiltered ==
  ASSUME ListsTypes, EventsInv, UNCHANGED ui, FilterEvents
  PROVE  EventsInv'
<1>1. /\ phase = "events" /\ phase' = "subscribe" /\ list' = Newest(kept, limit)
      /\ Loses(If(told # saved, "events"))
      /\ UNCHANGED <<kept, saved, told, limit, allShown, queued>>
  BY DEF FilterEvents, tables
<1>2. /\ LoadsTyped(loads, phase) /\ limit \in Nat /\ queued.event = <<>>
      /\ \A c \in Requests : loads[c].at = "none"
  BY <1>1 DEF ListsTypes, LoadsTyped, TypedLoad, QueuesTyped
<1>3. NoneFresh(loads')
  <2>1. AllGo(loads', loads)
    BY <1>1, <1>2, LosesGo
  <2> QED BY <1>2, <2>1 DEF AllGo, Goes, NoneFresh, Fresh
<1>4. ~ allShown'
  BY <1>1 DEF EventsInv
<1>5. ASSUME "events" \notin lost'
      PROVE  GoodNow(list, limit)'
  <2>1. told = saved
    <3>1. lost' = lost \cup If(told # saved, "events")
      BY <1>1, Lost
    <3> QED BY <1>5, <3>1 DEF If
  <2>2. ~ EventsHalfway
    BY <1>2, <2>1 DEF EventsHalfway
  <2>3. GoodNow(list', limit)
    BY <1>1, <1>2, <2>2, LoadedNow
  <2> QED BY <1>1, <2>3 DEF GoodNow
<1> QED BY <1>1, <1>3, <1>4, <1>5, EventsReplaced

LEMMA EventsFlush ==
  ASSUME ListsTypes, EventsInv, UNCHANGED ui, flushPending
  PROVE  EventsInv'
<1> DEFINE cap == IF limit < ListCap THEN ListCap ELSE limit
<1>1. /\ phase = "running" /\ ui # "fyne" /\ list' = prependEvents(list, queued.event, cap)
      /\ lost \subseteq lost' /\ allShown' = (allShown /\ queued.event = <<>>)
      /\ queued' = [channel \in DOMAIN queued |-> <<>>] /\ loads' = Passed
      /\ UNCHANGED <<kept, saved, told, phase, limit>>
  BY DEF flushPending, tables
<1>2. /\ LoadsTyped(loads, phase) /\ limit \in Nat /\ queued.event \in Seq(Nat)
      /\ queued'.event = <<>>
  <2>1. QueuesTyped(queued, phase) /\ LoadsTyped(loads, phase) /\ limit \in Nat
    BY DEF ListsTypes
  <2>2. queued = [k \in Channels |-> queued[k]] /\ queued.event \in Seq(Nat)
    BY <2>1 DEF QueuesTyped
  <2> QED BY <1>1, <2>1, <2>2 DEF Channels
<1>3. cap \in Nat /\ cap >= limit
  <2>1. ListCap \in Nat
    BY ListsAssumption
  <2> QED BY <1>2, <2>1
<1> HIDE DEF cap
<1>4. NoneFresh(loads')
  BY <1>1, <1>2, PassedGo
<1>5. ASSUME "events" \notin lost'
      PROVE  GoodNow(list, limit)' /\ (allShown' => Len(list') < limit' /\ WholeNow(list)')
  <2>1. GoodNow(list, limit) /\ (allShown => Len(list) < limit /\ WholeNow(list))
    BY <1>1, <1>5 DEF EventsInv
  <2> DEFINE q == queued.event
             g == list'
  <2>2. Good(ui, q, kept, saved, told, list, limit) /\ g = prependEvents(list, q, cap)
    BY <1>1, <2>1 DEF GoodNow
  <2>2a. q \in Seq(Nat)
    BY <1>2
  <2> HIDE DEF q, g
  <2>3. /\ Good(ui, <<>>, kept, saved, told, g, limit)
        /\ q = <<>> /\ Len(list) < limit => g = list
    BY <1>1, <1>2, <1>3, <2>2, <2>2a, GoodFlushed
  <2>4. GoodNow(list, limit)'
    BY <1>1, <1>2, <2>3 DEF GoodNow, g
  <2>5. ASSUME allShown'
        PROVE  Len(list') < limit' /\ WholeNow(list)'
    <3>1. q = <<>> /\ Len(list) < limit /\ WholeNow(list)
      BY <1>1, <2>1, <2>5 DEF q
    <3>2. list' = list
      BY <2>3, <3>1 DEF g
    <3> QED BY <1>1, <1>2, <3>1, <3>2 DEF WholeNow, q
  <2> QED BY <2>4, <2>5
<1> QED BY <1>1, <1>4, <1>5, EventsReplaced

LEMMA EventsPulled ==
  ASSUME ListsTypes, EventsInv, UNCHANGED ui, pullDeleteResult
  PROVE  EventsInv'
<1>1. /\ removed # 0 /\ list' = EventsWithout(list, removed) /\ loads' = Passed
      /\ lost' = lost \cup If(stored[removed] # 0, "objects")
                   \cup If(EventsOf(removed) \cap kept # {}, "events")
      /\ UNCHANGED <<kept, saved, told, phase, limit, allShown, queued>>
  BY DEF pullDeleteResult, tables
<1>2. ui = "fyne" /\ LoadsTyped(loads, phase)
  BY <1>1 DEF ListsTypes
<1>3. NoneFresh(loads')
  BY <1>1, <1>2, PassedGo
<1>4. ASSUME "events" \notin lost', phase # "events"
      PROVE  GoodNow(list, limit)' /\ (allShown' => Len(list') < limit' /\ WholeNow(list)')
  <2>1. GoodNow(list, limit) /\ (allShown => Len(list) < limit /\ WholeNow(list))
    BY <1>1, <1>4 DEF EventsInv
  <2>2. EventsOf(removed) \cap kept = {}
    BY <1>1, <1>4 DEF If
  <2>3. /\ saved \in 0 .. Len(Owner) /\ told \in Nat /\ kept \in SUBSET (1 .. saved)
    BY ListsAssumption DEF ListsTypes, TablesTyped
  <2>4. Good("fyne", queued.event, kept, saved, told, list, limit)
    BY <1>2, <2>1 DEF GoodNow
  <2>5. list' = list
    BY <1>1, <2>2, <2>3, <2>4, GoodPulled
  <2> QED BY <1>1, <2>1, <2>5 DEF GoodNow, WholeNow
<1>5. phase' = "events" => ~ allShown'
  BY <1>1 DEF EventsInv
<1> QED BY <1>1, <1>3, <1>4, <1>5, EventsReplaced

LEMMA EventsShown ==
  ASSUME ListsTypes, EventsInv, UNCHANGED ui, NEW c \in Requests, ShowReload(c) \/ ShowMore(c)
  PROVE  EventsInv'
<1>0. /\ UNCHANGED <<kept, saved, told, phase, queued>> /\ LoadsTyped(loads, phase)
      /\ loads[c].at \in {"read", "more"}
  BY DEF ShowReload, ShowMore, tables, ListsTypes
<1>a. phase = "running"
  BY <1>0 DEF LoadsTyped, TypedLoad
<1>1. ASSUME loads' = Answered(c), list' = loads[c].events,
             allShown' => Len(list') < limit', OldAnswer(c) \subseteq lost',
             \/ loads[c].at = "read" /\ limit' = limit
             \/ loads[c].at = "more" /\ limit' = loads[c].limit
      PROVE  EventsInv'
  <2>1. NoneFresh(loads')
    BY <1>0, <1>1, EmptiedGo
  <2>2. ASSUME "events" \notin lost'
        PROVE  GoodNow(list, limit)' /\ (allShown' => Len(list') < limit' /\ WholeNow(list)')
    <3>1. ~ loads[c].passed /\ ~ loads[c].halfway
      BY <1>1, <2>2 DEF OldAnswer, If
    <3>2. Fresh(loads[c])
      BY <1>0, <3>1 DEF Fresh
    <3>3. GoodNow(list', limit')
      BY <1>1, <3>1, <3>2 DEF EventsInv
    <3>4. GoodNow(list, limit)'
      BY <1>0, <3>3 DEF GoodNow
    <3>5. limit' \in Nat /\ Len(list') \in Nat
      <4>1. limit' \in Nat
        BY <1>1 DEF ListsTypes, LoadsTyped, TypedLoad
      <4>2. list' \in Seq(Nat)
        BY <3>3 DEF GoodNow, Good
      <4> QED BY <4>1, <4>2
    <3>6. Len(list') < limit' => WholeNow(list)'
      <4>1. Len(list') >= limit' \/ WholeNow(list)'
        BY <3>4 DEF GoodNow, WholeNow, Good
      <4> QED BY <1>1, <3>5, <4>1
    <3> QED BY <1>1, <3>4, <3>6
  <2> QED BY <1>0, <1>a, <2>1, <2>2, EventsReplaced
<1>2. CASE ShowMore(c)
  <2>1. /\ loads' = Answered(c) /\ list' = loads[c].events /\ limit' = loads[c].limit
        /\ allShown' => Len(list') < limit'
        /\ OldAnswer(c) \subseteq lost' /\ loads[c].at = "more"
    BY <1>2 DEF ShowMore
  <2> QED BY <1>1, <2>1
<1>3. CASE ShowReload(c) /\ (ui = "terminal" \/ loads[c].newest)
  <2>1. /\ loads' = Answered(c) /\ list' = loads[c].events /\ limit' = limit
        /\ allShown' => Len(list') < limit
        /\ OldAnswer(c) \subseteq lost' /\ loads[c].at = "read"
    BY <1>3 DEF ShowReload
  <2> QED BY <1>1, <2>1
<1>4. CASE ShowReload(c) /\ ~ (ui = "terminal" \/ loads[c].newest)
  <2>1. loads' = [loads EXCEPT ![c] = NoLoad] /\ UNCHANGED <<list, limit, allShown, lost>>
    BY <1>4 DEF ShowReload
  <2>2. AllGo(loads', loads)
    BY <1>0, <2>1, EmptiedGo
  <2> QED BY <1>0, <2>1, <2>2, EventsFrame
<1> QED BY <1>2, <1>3, <1>4

LEMMA EventsEmitted ==
  ASSUME ListsTypes, EventsInv, UNCHANGED ui, emitEvent
  PROVE  EventsInv'
<1>1. /\ told' = told + 1 /\ Offer("event", told', phase = "running", phase = "subscribe")
      /\ UNCHANGED <<kept, saved, phase, list, limit, allShown>>
  BY DEF emitEvent, lists
<1>2. /\ LoadsTyped(loads, phase) /\ QueuesTyped(queued, phase)
      /\ saved \in Nat /\ told \in Nat /\ kept \in SUBSET (1 .. saved)
      /\ phase \in {"events", "subscribe", "running"}
  <2>1. /\ LoadsTyped(loads, phase) /\ QueuesTyped(queued, phase)
        /\ TablesTyped(stored, saved, told, kept, emitting) /\ Len(Owner) \in Nat
        /\ phase \in {"events", "subscribe", "running"}
    BY ListsAssumption DEF ListsTypes
  <2> QED BY <2>1 DEF TablesTyped
<1>3. \/ lost' = lost \cup {"events"} /\ loads' = Passed
      \/ /\ lost' = lost /\ loads' = loads
         /\ \/ ui # "fyne" /\ queued' = [queued EXCEPT !.event = Append(@, told')]
            \/ phase = "events"
  <2> DEFINE item == told'
             sub == phase = "running"
             gap == phase = "subscribe"
  <2>1. "event" \in Channels /\ sub \in BOOLEAN /\ gap \in BOOLEAN /\ (~ sub /\ ~ gap => phase = "events")
    BY <1>2 DEF Channels
  <2>2. Offer("event", item, sub, gap)
    BY <1>1
  <2> HIDE DEF item, sub, gap
  <2>3. \/ lost' = lost \cup {"events"} /\ loads' = Passed
        \/ /\ lost' = lost /\ loads' = loads
           /\ \/ ui # "fyne" /\ queued' = [queued EXCEPT !.event = Append(@, item)]
              \/ phase = "events"
    BY <1>2, <2>1, <2>2, Offered DEF Kind
  <2> QED BY <2>3 DEF item
<1>4. CASE lost' = lost \cup {"events"} /\ loads' = Passed
  <2>1. NoneFresh(loads')
    BY <1>2, <1>4, PassedGo
  <2>2. AllGo(loads', loads)
    BY <2>1 DEF AllGo, Goes, NoneFresh
  <2> QED BY <1>1, <1>4, <2>1, <2>2, EventsKept
<1>5. CASE lost' = lost /\ loads' = loads /\ phase = "events"
  <2>1. AllGo(loads', loads) /\ NoneFresh(loads')
    BY <1>2, <1>5 DEF AllGo, Goes, NoneFresh, Fresh, LoadsTyped, TypedLoad
  <2> QED BY <1>1, <1>5, <2>1, EventsKept
<1>6. CASE /\ lost' = lost /\ loads' = loads /\ ui # "fyne"
           /\ queued' = [queued EXCEPT !.event = Append(@, told')]
  <2> DEFINE q == queued.event
             r == queued'.event
             m == told'
  <2>1. queued = [k \in Channels |-> queued[k]] /\ q \in Seq(Nat)
    BY <1>2 DEF QueuesTyped
  <2>2. r = Append(q, m) /\ m = told + 1
    BY <1>1, <1>6, <2>1 DEF Channels
  <2> HIDE DEF q, r, m
  <2>3. ASSUME NEW l, NEW lim, Good(ui, q, kept, saved, told, l, lim)
        PROVE  /\ Good(ui, r, kept, saved, m, l, lim)
               /\ Whole(ui, q, kept, saved, told, l) => Whole(ui, r, kept, saved, m, l)
    <3>1. /\ ui # "fyne" /\ q \in Seq(Nat)
          /\ saved \in Nat /\ told \in Nat /\ kept \in SUBSET (1 .. saved)
      BY <1>2, <1>6, <2>1
    <3> QED BY <2>2, <2>3, <3>1, GoodReported, ZenonT(60)
  <2>4. \A l \in Seq(Nat), lim \in Nat : GoodNow(l, lim) =>
           GoodNow(l, lim)' /\ (WholeNow(l) => WholeNow(l)')
    BY <1>1, <2>3 DEF GoodNow, WholeNow, q, r, m
  <2>5. AllGo(loads', loads)
    BY <1>6 DEF AllGo, Goes
  <2> QED BY <1>1, <1>6, <2>4, <2>5, EventsKept
<1> QED BY <1>3, <1>4, <1>5, <1>6

(* The retention leaves what the screen shows and is going to show, or the *)
(* events are lost.                                                        *)
LEMMA EventsExpired ==
  ASSUME ListsTypes, EventsInv, UNCHANGED ui, ExpireEvents
  PROVE  EventsInv'
<1> DEFINE inSight == Elements(list) \cup Elements(queued.event) \cup told + 1 .. saved
<1>1. PICK gone \in SUBSET kept :
        /\ kept' = kept \ gone /\ loads' = Overtaken
        /\ lost' = lost \cup If(gone \cap inSight # {}, "events")
        /\ UNCHANGED <<saved, told, phase, list, limit, allShown, queued>>
  <2>1. PICK last \in kept :
          LET off == kept \cap (1 .. last)
          IN kept' = kept \ off /\ lost' = lost \cup If(off \cap inSight # {}, "events")
    BY DEF ExpireEvents
  <2>2. loads' = Overtaken /\ UNCHANGED <<saved, told, phase, list, limit, allShown, queued>>
    BY DEF ExpireEvents, lists
  <2> HIDE DEF inSight
  <2>3. kept \cap (1 .. last) \in SUBSET kept
    OBVIOUS
  <2> QED BY <2>1, <2>2, <2>3
<1>2. /\ LoadsTyped(loads, phase) /\ queued.event \in Seq(Nat) /\ saved \in Nat /\ told \in Nat
      /\ kept \in SUBSET (1 .. saved)
  BY ListsAssumption DEF ListsTypes, QueuesTyped, TablesTyped
<1>3. \A c \in Requests : loads'[c].at \in {"read", "more"} => loads'[c].halfway
  BY <1>1, <1>2, Overtakes
<1>4. ASSUME "events" \notin lost', phase' # "events"
      PROVE  GoodNow(list, limit)' /\ (allShown' => Len(list') < limit' /\ WholeNow(list)')
  <2>1. GoodNow(list, limit) /\ (allShown => Len(list) < limit /\ WholeNow(list))
    BY <1>1, <1>4 DEF EventsInv
  <2>2. gone \cap inSight = {}
    BY <1>1, <1>4 DEF If
  <2> DEFINE q == queued.event
             left == kept'
  <2>3. /\ left = kept \ gone /\ q \in Seq(Nat) /\ Good(ui, q, kept, saved, told, list, limit)
        /\ gone \cap (Elements(list) \cup Elements(q) \cup told + 1 .. saved) = {}
    BY <1>1, <1>2, <2>1, <2>2 DEF GoodNow
  <2> HIDE DEF inSight, q, left
  <2>4. /\ Good(ui, q, left, saved, told, list, limit)
        /\ Whole(ui, q, kept, saved, told, list) => Whole(ui, q, left, saved, told, list)
    BY <1>1, <1>2, <2>3, GoodExpired
  <2> QED BY <1>1, <2>1, <2>4 DEF GoodNow, WholeNow, q, left
<1>5. phase' = "events" => ~ allShown'
  BY <1>1 DEF EventsInv
<1> QED BY <1>3, <1>4, <1>5 DEF EventsInv

LEMMA EventsStep ==
  ASSUME ListsTypes, EventsInv, UNCHANGED ui, ListsNext \/ UNCHANGED listsVars
  PROVE  EventsInv'
<1>1. /\ LoadsTyped(loads, phase) /\ QueuesTyped(queued, phase)
      /\ TablesTyped(stored, saved, told, kept, emitting)
      /\ limit \in Nat /\ FirstLimits \subseteq Nat /\ Chunk \in Nat
      /\ queued = [k \in Channels |-> queued[k]]
  <2>1. /\ LoadsTyped(loads, phase) /\ QueuesTyped(queued, phase)
        /\ TablesTyped(stored, saved, told, kept, emitting)
        /\ limit \in Nat /\ FirstLimits \subseteq Nat /\ Chunk \in Nat
    BY ListsAssumption DEF ListsTypes
  <2> QED BY <2>1 DEF QueuesTyped
<1>2. /\ saved \in Nat /\ told \in Nat /\ kept \in SUBSET (1 .. saved)
      /\ saved \in 0 .. Len(Owner) /\ Len(Owner) \in Nat
  BY <1>1, ListsAssumption DEF TablesTyped
<1>3. CASE SaveDevice
  <2>1. PICK what : Loses(what)
    BY <1>3 DEF SaveDevice
  <2>2. UNCHANGED <<kept, saved, told, phase, list, limit, allShown, queued>>
    BY <1>3 DEF SaveDevice, lists
  <2>3. AllGo(loads', loads) /\ lost \subseteq lost'
    BY <1>1, <2>1, LosesGo
  <2> QED BY <2>2, <2>3, EventsFrame
<1>4. CASE DeleteDeviceWithHistory
  <2>1. PICK d \in Objects :
          /\ kept' = kept \ EventsOf(d)
          /\ Loses(If(emitting.update # NoUpdate /\ emitting.update[1] = d, "objects")
                   \cup If(EventsOf(d) \cap (1 .. saved \cup 1 .. told) # {}, "events"))
    BY <1>4 DEF DeleteDeviceWithHistory
  <2>2. UNCHANGED <<saved, told, phase, list, limit, allShown, queued>>
    BY <1>4 DEF DeleteDeviceWithHistory, lists
  <2>3. AllGo(loads', loads) /\ lost \subseteq lost'
    BY <1>1, <2>1, LosesGo
  <2>4. CASE EventsOf(d) \cap (1 .. saved \cup 1 .. told) # {}
    <3> DEFINE what == If(emitting.update # NoUpdate /\ emitting.update[1] = d, "objects")
                         \cup If(EventsOf(d) \cap (1 .. saved \cup 1 .. told) # {}, "events")
    <3>1. Loses(what) /\ "events" \in what
      BY <2>1, <2>4 DEF If
    <3> HIDE DEF what
    <3>2. "events" \in lost' /\ NoneFresh(loads')
      BY <1>1, <3>1, LosesGo
    <3> QED BY <2>2, <2>3, <3>2, EventsKept
  <2>5. CASE EventsOf(d) \cap (1 .. saved \cup 1 .. told) = {}
    <3>1. kept' = kept
      BY <1>2, <2>1, <2>5
    <3> QED BY <2>2, <2>3, <3>1, EventsFrame
  <2> QED BY <2>4, <2>5
<1>5. CASE StoreEvent
  <2>1. /\ saved' = saved + 1 /\ kept' = kept \cup {saved'}
        /\ UNCHANGED <<told, phase, list, limit, allShown, queued, loads, lost>>
    BY <1>5 DEF StoreEvent, lists
  <2>2. ASSUME NEW l, NEW lim, GoodNow(l, lim)
        PROVE  GoodNow(l, lim)' /\ (WholeNow(l) => WholeNow(l)')
    <3> DEFINE t == saved'
               j == kept'
               q == queued.event
    <3>1. t = saved + 1 /\ j = kept \cup {t} /\ Good(ui, q, kept, saved, told, l, lim)
      BY <2>1, <2>2 DEF GoodNow
    <3> HIDE DEF t, j, q
    <3>2. /\ Good(ui, q, j, t, told, l, lim)
          /\ Whole(ui, q, kept, saved, told, l) => Whole(ui, q, j, t, told, l)
      BY <1>2, <3>1, GoodStored
    <3> QED BY <2>1, <3>2 DEF GoodNow, WholeNow, t, j, q
  <2>3. AllGo(loads', loads)
    BY <2>1 DEF AllGo, Goes
  <2> QED BY <2>1, <2>2, <2>3, EventsKept
<1>6. CASE emitDevice \/ emitDeleted
  <2>1. UNCHANGED <<kept, saved, told, phase, list, limit, allShown>>
    BY <1>6 DEF emitDevice, emitDeleted, lists
  <2>2. /\ lost \subseteq lost' /\ (loads' = Passed \/ loads' = loads)
        /\ queued'.event = queued.event
    <3>1. ASSUME NEW channel \in {"update", "deleted"}, NEW item, NEW sub \in BOOLEAN,
                 NEW gap \in BOOLEAN, Offer(channel, item, sub, gap)
          PROVE  /\ lost \subseteq lost' /\ (loads' = Passed \/ loads' = loads)
                 /\ queued'.event = queued.event
      <4>0. channel \in Channels /\ channel # "event"
        BY DEF Channels
      <4>1. /\ lost \subseteq lost' /\ (loads' = Passed \/ loads' = loads)
            /\ queued' = queued \/ queued' = [queued EXCEPT ![channel] = Append(@, item)]
        BY <1>1, <3>1, <4>0, Offered, ZenonT(60)
      <4> QED BY <1>1, <4>0, <4>1 DEF Channels
    <3>2. TRUE \in BOOLEAN /\ (phase = "running") \in BOOLEAN /\ (phase = "running" \/ ui = "fyne") \in BOOLEAN
      OBVIOUS
    <3>3. CASE emitDevice
      <4>1. Offer("update", emitting.update, phase = "running", TRUE)
        BY <3>3 DEF emitDevice
      <4> QED BY <3>1, <3>2, <4>1
    <3>4. CASE emitDeleted
      <4>1. Offer("deleted", emitting.deleted, phase = "running" \/ ui = "fyne", TRUE)
        BY <3>4 DEF emitDeleted
      <4> QED BY <3>1, <3>2, <4>1
    <3> QED BY <1>6, <3>3, <3>4
  <2>3. AllGo(loads', loads)
    <3>1. CASE loads' = Passed
      <4>1. NoneFresh(loads')
        BY <1>1, <3>1, PassedGo
      <4> QED BY <4>1 DEF AllGo, Goes, NoneFresh
    <3>2. CASE loads' = loads
      BY <3>2 DEF AllGo, Goes
    <3> QED BY <2>2, <3>1, <3>2
  <2> QED BY <2>1, <2>2, <2>3, EventsFrame
<1>7. CASE Subscribe
  <2>1. /\ phase = "subscribe" /\ phase' = "running"
        /\ UNCHANGED <<kept, saved, told, list, limit, allShown, queued, loads, lost>>
    BY <1>7 DEF Subscribe, tables, lists
  <2>2. AllGo(loads', loads)
    BY <2>1 DEF AllGo, Goes
  <2> QED BY <2>1, <2>2, EventsFrame
<1>8. ASSUME NEW c \in Requests, reloadAll(c) \/ ConfigSaved(c) \/ loadMoreEvents(c)
      PROVE  EventsInv'
  <2>1. UNCHANGED <<list, queued, kept, saved, told, phase>>
    BY <1>8 DEF reloadAll, ConfigSaved, loadMoreEvents, Request, tables
  <2>2. CASE reloadAll(c)
    <3> DEFINE load == Reloading(limit)
    <3>1. Request(c, load, loads) /\ UNCHANGED <<limit, allShown, lost>>
      BY <2>2 DEF reloadAll
    <3>2. load.at = "events" /\ load.passed = FALSE
      BY ReloadingIs
    <3> HIDE DEF load
    <3>3. limit' \in Nat /\ limit' <= limit
      BY <1>1, <3>1
    <3> QED BY <2>1, <3>1, <3>2, <3>3, EventsRequest
  <2>3. CASE ConfigSaved(c)
    <3>1. PICK size \in FirstLimits :
            /\ Request(c, Reloading(size), IF size > limit THEN Overtaken ELSE loads)
            /\ limit' = size /\ allShown' = FALSE
            /\ lost' = lost \cup If(size > limit, "events")
      BY <2>3 DEF ConfigSaved
    <3> DEFINE load == Reloading(size)
               others == IF size > limit THEN Overtaken ELSE loads
    <3>2. load.at = "events" /\ load.passed = FALSE
      BY ReloadingIs
    <3>3. Request(c, load, others)
      BY <3>1
    <3>4. limit' \in Nat /\ size \in Nat
      BY <1>1, <3>1
    <3>5. \/ others = loads /\ lost' = lost /\ limit' <= limit
          \/ others = Overtaken /\ "events" \in lost'
      <4>1. CASE size > limit
        BY <3>1, <4>1 DEF If
      <4>2. CASE ~ (size > limit)
        BY <1>1, <3>1, <3>4, <4>2 DEF If
      <4> QED BY <4>1, <4>2
    <3>6. ~ allShown'
      BY <3>1
    <3> HIDE DEF load, others
    <3> QED BY <2>1, <3>2, <3>3, <3>4, <3>5, <3>6, EventsRequest
  <2>4. CASE loadMoreEvents(c)
    <3> DEFINE size == limit + Chunk
               g == Newest(kept, size)
               f == EventsHalfway
               load == LoadingMore(g, size, f)
    <3>1. Request(c, load, loads) /\ UNCHANGED <<limit, allShown, lost>>
      BY <2>4 DEF loadMoreEvents, LoadingMore
    <3>2. size \in Nat /\ size >= size
      BY <1>1
    <3>3. ~ f => GoodNow(g, size)
      <4> HIDE DEF size
      <4>1. ASSUME ~ EventsHalfway PROVE GoodNow(g, size)
        BY <3>2, <4>1, LoadedNow
      <4> QED BY <4>1
    <3> HIDE DEF g, size, f
    <3>4. /\ load.at = "more" /\ load.events = g /\ load.limit = size
          /\ load.halfway = f /\ load.passed = FALSE
      BY NoLoadIs DEF ALoad, LoadParts, LoadingMore
    <3> HIDE DEF load
    <3>5. limit' \in Nat /\ limit' <= limit
      BY <1>1, <3>1
    <3>6. ~ load.halfway => GoodNow(load.events, load.limit)
      BY <3>3, <3>4
    <3> QED BY <2>1, <3>1, <3>4, <3>5, <3>6, EventsRequest
  <2> QED BY <1>8, <2>2, <2>3, <2>4
<1>9. ASSUME NEW c \in Requests, Fail(c)
      PROVE  EventsInv'
  <2>1. /\ UNCHANGED <<kept, saved, told, phase, list, limit, allShown, queued, lost>>
        /\ loads' = [loads EXCEPT ![c] = NoLoad]
    BY <1>9 DEF Fail, tables, lists
  <2>2. AllGo(loads', loads)
    BY <1>1, <2>1, EmptiedGo
  <2> QED BY <2>1, <2>2, EventsFrame
<1>10. CASE UNCHANGED listsVars
  <2>1. UNCHANGED <<kept, saved, told, phase, list, limit, allShown, queued, loads, lost>>
    BY <1>10 DEF listsVars, tables, lists
  <2>2. AllGo(loads', loads)
    BY <2>1 DEF AllGo, Goes
  <2> QED BY <2>1, <2>2, EventsFrame
<1>11. CASE RefuseEvent \/ DrainEvent
  <2>1. Loses({"events"}) /\ UNCHANGED <<phase, list, limit, allShown, queued>>
    BY <1>11 DEF RefuseEvent, DrainEvent, lists
  <2>2. AllGo(loads', loads) /\ lost \subseteq lost' /\ "events" \in lost' /\ NoneFresh(loads')
    BY <1>1, <2>1, LosesGo
  <2> QED BY <2>1, <2>2, EventsKept
<1> QED BY <1>3, <1>4, <1>5, <1>6, <1>7, <1>8, <1>9, <1>10, <1>11, EventsEmitted, EventsExpired,
           EventsFiltered, EventsFlush, EventsPulled, EventsQueried, EventsShown DEF ListsNext

(* What the invariants say once everything has been shown.                 *)
ListsInv == ListsTypes /\ ObjectsInv /\ EventsInv

LEMMA TablesShown == ListsInv => ListsAreTables
<1> SUFFICES ASSUME ListsInv, Quiet, phase = "running"
             PROVE  /\ "objects" \notin lost => \A d \in Objects :
                         shown[d] = stored[d] \/ (stored[d] = Bare /\ shown[d] = 0)
                    /\ "events" \notin lost =>
                         /\ list = Newest(kept, Len(list))
                         /\ Len(list) >= limit \/ Len(list) = Cardinality(kept)
                         /\ allShown => Len(list) = Cardinality(kept)
  BY DEF ListsAreTables
<1>1. /\ emitting.update = NoUpdate /\ emitting.deleted = 0 /\ told = saved /\ removed = 0
      /\ ui = "fyne" \/ (queued.update = <<>> /\ queued.event = <<>> /\ queued.deleted = <<>>)
  <2>1. queued = [k \in Channels |-> queued[k]]
    BY DEF ListsInv, ListsTypes, QueuesTyped
  <2> QED BY <2>1 DEF Quiet, NothingQueued, Channels
<1>2. 0 \notin Objects
  BY ListsAssumption
<1>3. ASSUME "objects" \notin lost, NEW d \in Objects
      PROVE  shown[d] = stored[d] \/ (stored[d] = Bare /\ shown[d] = 0)
  <2>1. Sound(ui, shown, stored, emitting, queued, removed)
    BY <1>3 DEF ListsInv, ObjectsInv
  <2>2. CASE ui = "fyne"
    BY <1>1, <1>2, <2>1, <2>2 DEF Sound, Settled
  <2>3. CASE ui # "fyne"
    <3>1. Landed(shown, queued)[d] = shown[d] /\ ~ Conflict(queued, d)
      BY <1>1, <2>3, LandedNothing
    <3>2. Due(shown, emitting, queued, d) = shown[d]
      BY <1>1, <1>2, <3>1 DEF Due
    <3> QED BY <2>1, <2>3, <3>1, <3>2 DEF Sound, Settled
  <2> QED BY <2>2, <2>3
<1>4. ASSUME "events" \notin lost
      PROVE  /\ list = Newest(kept, Len(list))
             /\ Len(list) >= limit \/ Len(list) = Cardinality(kept)
             /\ allShown => Len(list) = Cardinality(kept)
  <2>1. GoodNow(list, limit) /\ (allShown => WholeNow(list))
    BY <1>4 DEF ListsInv, EventsInv
  <2>2. saved \in Nat /\ kept \in SUBSET (1 .. saved)
    BY ListsAssumption DEF ListsInv, ListsTypes, TablesTyped
  <2>3. Heard(kept, saved, told) = kept
    <3>1. \A i : i \in Heard(kept, saved, saved) <=>
                   (i \in kept /\ i <= saved) \/ (i \in Nat /\ saved < i /\ i <= saved)
      BY <2>2, HeardIs
    <3>2. \A i \in kept : i <= saved
      BY <2>2
    <3>3. \A i \in Nat : ~ (saved < i /\ i <= saved)
      BY <2>2
    <3> QED BY <1>1, <3>1, <3>2, <3>3
  <2>4. list \in Seq(Nat) /\ FullList(ui, queued.event, list) = list
    <3>1. list \in Seq(Nat)
      BY <2>1 DEF GoodNow, Good
    <3> QED BY <1>1, <3>1, FullEmpty DEF FullList
  <2>5. /\ Heads(list, kept) /\ (Len(list) >= limit \/ kept \subseteq Elements(list))
        /\ allShown => kept \subseteq Elements(list)
    BY <2>1, <2>3, <2>4 DEF GoodNow, WholeNow, Good, Whole
  <2>6. kept \in SUBSET Nat /\ IsFiniteSet(kept)
    <3>1. kept \in SUBSET Nat /\ \A i \in kept : i <= saved
      BY <2>2
    <3> QED BY <2>2, <3>1, FS_BoundedSetOfNaturals
  <2>7. /\ list = Newest(kept, Len(list))
        /\ Len(list) = Cardinality(kept) <=> kept \subseteq Elements(list)
    BY <2>5, <2>6, HeadsAreNewest
  <2> QED BY <2>5, <2>7
<1> QED BY <1>3, <1>4

-----------------------------------------------------------------------------
(* The parts together: a step is a step of one of them.                    *)
DeskInv == ListsInv /\ SettingsInv /\ HistoryInv /\ StatsInv /\ TerminalInv

LEMMA DeskStarts == Init => DeskInv
BY ListsTypesStart, ObjectsStart, EventsStart, SettingsStarts, HistoryStarts, StatsStart,
   TerminalStarts DEF Init, DeskInv, ListsInv

LEMMA DeskStep ==
  ASSUME DeskInv, [Next]_vars
  PROVE  DeskInv'
<1>1. UNCHANGED ui
  BY DEF Next, vars
<1>2. SettingsNext \/ UNCHANGED settingsVars
  BY DEF Next, vars
<1>3. HistoryNext \/ UNCHANGED historyVars
  BY DEF Next, vars
<1>4. TerminalNext \/ UNCHANGED terminalVars
  BY DEF Next, vars
<1>5. StatsNext \/ UNCHANGED statsVars
  BY DEF Next, vars
<1>6. ListsNext \/ UNCHANGED listsVars
  BY DEF Next, vars
<1>7. ListsInv'
  BY <1>1, <1>6, ListsTypesStep, ObjectsStep, EventsStep DEF DeskInv, ListsInv
<1>8. SettingsInv'
  BY <1>2, SettingsStep DEF DeskInv
<1>9. HistoryInv'
  BY <1>1, <1>3, HistoryStep DEF DeskInv
<1>10. TerminalInv'
  BY <1>4, TerminalStep DEF DeskInv
<1>11. StatsInv'
  BY <1>5, StatsStep DEF DeskInv
<1> QED BY <1>7, <1>8, <1>9, <1>10, <1>11 DEF DeskInv

(* The invariants of the lists, of the settings, of the history window, of *)
(* the status line and of the keys hold in every state: the parts share    *)
(* nothing.                                                                *)
THEOREM DeskIsSound == Spec => []DeskInv
<1>1. Init => DeskInv
  BY DeskStarts
<1>2. DeskInv /\ [Next]_vars
        => DeskInv'
  BY DeskStep
<1> QED BY <1>1, <1>2, PTL DEF Spec

(* For any objects, events, requests and channels, in each of the three    *)
(* interfaces: once everything that happened has been shown, the objects   *)
(* and the events on the screen are the rows of the tables, unless         *)
(* something was lost in one of the ways Lists names (flushPending,        *)
(* reloadCmd, moreEventsMsg, pullDeleteResult, DeleteDeviceWithHistory).   *)
THEOREM ListsShowTables == Spec => []ListsAreTables
<1>1. DeskInv => ListsAreTables
  BY TablesShown DEF DeskInv
<1> QED BY <1>1, DeskIsSound, PTL

(* For any accounts, ranges and savers, with broken files and restarts in  *)
(* between: once no save is under way, a form nobody has changed is the    *)
(* configuration in force, and every account leaves with the number the    *)
(* first line that has it gives; unless two saves met, or one failed after *)
(* the file was written (SaveSettings, config.Load, ChangeAccountNumber).  *)
THEOREM RemapsAreShown == Spec => []RemapIsShown
<1>1. DeskInv => RemapIsShown
  BY RemapShown DEF DeskInv
<1> QED BY <1>1, DeskIsSound, PTL

(* However long a query of a device's history takes, and whichever filter, *)
(* device or length the operator asks for meanwhile: the rows an open      *)
(* window shows are the answer to the question it shows                    *)
(* (request, loadDetail, applyDetail).                                     *)
THEOREM HistoryIsTheAnswer == Spec => []RowsAreTheAnswer
<1>1. DeskInv => RowsAreTheAnswer
  BY AnswersShown DEF DeskInv
<1> QED BY <1>1, DeskIsSound, PTL

(* Whatever the size of the window, the pauses between frames and the      *)
(* connections that come and go: the rate shown is the number of frames of *)
(* the last seconds unless the clock was set back, and the number of       *)
(* clients is right once it is published, unless two handlers met between  *)
(* the lock and the publication (advanceReceivedWindowLocked, trackConn,   *)
(* untrackConn).                                                           *)
THEOREM CountsAreRight == Spec => []StatsAreCounts
<1>1. DeskInv => StatsAreCounts
  BY CountsShown DEF DeskInv
<1> QED BY <1>1, DeskIsSound, PTL

(* Whatever keys are pressed, and whatever reloads and edits change the    *)
(* lists under the cursor: the key that acts on a row finds the row, and   *)
(* the one that acts on a field a field (handleKey, clampCursor).          *)
THEOREM KeysFindRows == Spec => []KeysFindTheirRow
<1>1. DeskInv => KeysFindTheirRow
  BY KeysFind DEF DeskInv
<1> QED BY <1>1, DeskIsSound, PTL
=============================================================================

---------------------------- MODULE RelayFilter ----------------------------
(***************************************************************************)
(* The decision whether a message is withheld from the central station     *)
(* (src/internal/netrelay/tcp_server.go, shouldBypassRelay) and the rule   *)
(* it is taken from.  A rule is held as the relations its tables hold:     *)
(*   enabled   the switch                                                  *)
(*   groups    group numbers                 objects   object numbers      *)
(*   codes     codes blocked for everyone    objCodes  <<object, code>>    *)
(*   zones     <<owner, code, zone>>         parts     <<owner, code, group>> *)
(* The owner of a detail is an object or Everyone.                         *)
(***************************************************************************)
EXTENDS Integers, FiniteSets

CONSTANTS
    Objects,   \* object (device) numbers: 0 .. 9999 in the program
    Groups,    \* group (partition) numbers
    Zones,     \* zone numbers
    Codes,     \* codes of the catalogue, <<qualifier, number>>, as a message carries them
    Everyone   \* the owner of the details that belong to no object

ASSUME ObjectsAssumption == Objects \subseteq Nat /\ Everyone \notin Objects
ASSUME CodesAssumption == \A c \in Codes : c = <<c[1], c[2]>>

NoCode == <<"", "">>
Unreadable == -1

\* A rule names a code with its qualifier or without it.
RuleCodes == Codes \cup {<<"", c[2]>> : c \in Codes}
Owners == Objects \cup {Everyone}

Rules == [enabled : BOOLEAN, groups : SUBSET Groups, objects : SUBSET Objects,
          codes : SUBSET RuleCodes, objCodes : SUBSET (Objects \X RuleCodes),
          zones : SUBSET (Owners \X RuleCodes \X Zones),
          parts : SUBSET (Owners \X RuleCodes \X Groups)]

NoRule == [enabled |-> FALSE, groups |-> {}, objects |-> {}, codes |-> {},
           objCodes |-> {}, zones |-> {}, parts |-> {}]

(***************************************************************************)
(* What the server reads from a frame.  A frame too short for a field, or  *)
(* with something else than digits in it, has a default instead.           *)
(***************************************************************************)
extractDeviceID(frame) == IF frame.account \in Objects THEN frame.account ELSE 0
extractEventCode(frame) == IF frame.code \in Codes THEN frame.code ELSE NoCode
extractGroupNo(frame) == IF frame.group \in Groups THEN frame.group ELSE Unreadable
extractZoneNo(frame) == IF frame.zone \in Zones THEN frame.zone ELSE Unreadable

Frames == [account : Objects \cup {Unreadable}, code : Codes \cup {NoCode},
           group : Groups \cup {Unreadable}, zone : Zones \cup {Unreadable}]

(***************************************************************************)
(* The decision.                                                           *)
(***************************************************************************)
NamesCode(c, code) == c = code \/ c = <<"", code[2]>>

\* Mutant of matchDetails: a list that is empty lets nothing through.
matchDetailsListed(rule, owner, c, group, zone) ==
    <<owner, c, group>> \in rule.parts /\ <<owner, c, zone>> \in rule.zones

\* No zone and no partition, or a list that is empty, lets everything through.
matchDetails(rule, owner, c, group, zone) ==
    LET zs == {t \in rule.zones : t[1] = owner /\ t[2] = c}
        ps == {t \in rule.parts : t[1] = owner /\ t[2] = c}
    IN /\ ps # {} => <<owner, c, group>> \in ps
       /\ zs # {} => <<owner, c, zone>> \in zs

shouldBypassRelay(rule, device, group, zone, code) ==
    /\ rule.enabled
    /\ code # NoCode
    /\ \/ \E c \in RuleCodes :
             /\ <<device, c>> \in rule.objCodes /\ NamesCode(c, code)
             /\ matchDetails(rule, device, c, group, zone)
       \/ /\ \E c \in rule.codes :
                NamesCode(c, code) /\ matchDetails(rule, Everyone, c, group, zone)
          /\ \/ rule.objects = {} /\ rule.groups = {}
             \/ device \in rule.objects
             \/ group \in rule.groups

\* The frames a rule withholds: what two rules are compared by.
Withheld(rule) ==
    {f \in Frames : shouldBypassRelay(rule, extractDeviceID(f), extractGroupNo(f),
                                      extractZoneNo(f), extractEventCode(f))}
=============================================================================

------------------------ MODULE SettingsPanelProofs ------------------------
(***************************************************************************)
(* Proofs about SettingsPanel, for any cards, fields and items.            *)
(*                                                                         *)
(* What is shown of a server in effect rests on two facts: a server of     *)
(* ours is never shown as stopped, and only a stopped one leaves fields    *)
(* enabled that are not applied live.                                      *)
(***************************************************************************)
EXTENDS SettingsPanel, WellFoundedInduction, FiniteSetTheorems, TLAPS

-----------------------------------------------------------------------------
(* Selecting an item by its value.                                         *)

Less == {p \in Nat \X Nat : p[1] < p[2]}

LEMMA LessWellFounded == IsWellFoundedOn(Less, Nat)
BY NatLessThanWellFounded DEF OpToRel, Less

LEMMA Least ==
  ASSUME NEW T, T \subseteq Nat, T # {}
  PROVE  \E x \in T : \A y \in T : x <= y
<1>1. PICK x \in T : \A y \in T : ~ (<<y, x>> \in Less)
  BY LessWellFounded, WFMin, ZenonT(30)
<1>2. ASSUME NEW y \in T PROVE x <= y
  <2>1. x \in Nat /\ y \in Nat
    OBVIOUS
  <2>2. ~ (y < x)
    BY <1>1, <2>1 DEF Less
  <2> QED
    BY <2>1, <2>2
<1> QED
  BY <1>2

\* The first item with the value, if there is one.
LEMMA Selected ==
  ASSUME NEW S, NEW list \in Seq(S), NEW v, NEW otherwise
  PROVE  LET i == selectByValue(list, v, otherwise)
         IN  IF v \in ToSet(list) THEN i \in DOMAIN list /\ list[i] = v ELSE i = otherwise
<1>1. CASE v \in ToSet(list)
  <2>1. PICK x \in {i \in DOMAIN list : list[i] = v} :
          \A y \in {i \in DOMAIN list : list[i] = v} : x <= y
    <3>1. {i \in DOMAIN list : list[i] = v} # {}
      BY <1>1 DEF ToSet
    <3>2. {i \in DOMAIN list : list[i] = v} \subseteq Nat
      OBVIOUS
    <3> QED
      BY <3>1, <3>2, Least
  <2>2. \E i \in DOMAIN list : list[i] = v /\ \A j \in 1 .. i - 1 : list[j] /= v
    BY <2>1
  <2> QED
    BY <1>1, <2>2 DEF selectByValue
<1>2. CASE v \notin ToSet(list)
  BY <1>2 DEF selectByValue
<1> QED
  BY <1>1, <1>2

-----------------------------------------------------------------------------
(* The list of devices.                                                    *)

LEMMA FoundType ==
  ASSUME NEW s \in Slots
  PROVE  /\ Found(s) \subseteq Nat \X Nat /\ IsFiniteSet(Found(s))
         /\ \A p \in Found(s) : /\ p[1] \in Numbers /\ s[p[1]] \in Cards
                                /\ p[2] \in playback[s[p[1]]] /\ p[2] \in Nat
<1>1. \A p \in Found(s) : \E n \in Numbers : s[n] \in Cards /\ p \in {n} \X playback[s[n]]
  BY Zenon DEF Found
<1>2. Numbers \subseteq Nat /\ \A c \in Cards : playback[c] \subseteq Nat
  BY SlotsAssumption
<1>3. ASSUME NEW p \in Found(s)
      PROVE  /\ p \in Nat \X Nat /\ p[1] \in Numbers /\ s[p[1]] \in Cards
             /\ p[2] \in playback[s[p[1]]] /\ p[2] \in Nat
  <2>1. PICK n \in Numbers : s[n] \in Cards /\ p \in {n} \X playback[s[n]]
    BY <1>1
  <2> QED
    BY <1>2, <2>1
<1>4. Found(s) \subseteq Nat \X Nat
  BY <1>3
<1> QED
  BY <1>3, <1>4, FoundAssumption

\* The devices that come before one: how many there are is its place in the list.
Ahead(found, p) == {q \in found : Before(q, p)}

LEMMA AheadCounts ==
  ASSUME NEW found, found \subseteq Nat \X Nat, IsFiniteSet(found), NEW p \in found
  PROVE  /\ Cardinality(Ahead(found, p)) \in 0 .. Cardinality(found) - 1
         /\ \A q \in found : Before(q, p) =>
              Cardinality(Ahead(found, q)) < Cardinality(Ahead(found, p))
<1>1. ASSUME NEW q \in found
      PROVE  /\ IsFiniteSet(Ahead(found, q)) /\ Cardinality(Ahead(found, q)) \in Nat
             /\ q \notin Ahead(found, q) /\ Ahead(found, q) \subseteq found
             /\ IsFiniteSet(Ahead(found, q) \cup {q})
             /\ Cardinality(Ahead(found, q) \cup {q}) = Cardinality(Ahead(found, q)) + 1
  <2>1. Ahead(found, q) \in SUBSET found
    BY DEF Ahead
  <2>2. IsFiniteSet(Ahead(found, q))
    BY <2>1, FS_Subset
  <2>3. q \notin Ahead(found, q)
    BY DEF Ahead, Before
  <2> QED
    BY <2>1, <2>2, <2>3, FS_AddElement, FS_CardinalityType
<1>2. Cardinality(found) \in Nat
  BY FS_CardinalityType
<1>3. Cardinality(Ahead(found, p) \cup {p}) <= Cardinality(found)
  <2>1. Ahead(found, p) \cup {p} \in SUBSET found
    BY <1>1
  <2> QED
    BY <2>1, FS_Subset
<1>4. ASSUME NEW q \in found, Before(q, p)
      PROVE  Cardinality(Ahead(found, q)) < Cardinality(Ahead(found, p))
  <2>1. Ahead(found, q) \cup {q} \in SUBSET Ahead(found, p)
    BY <1>4 DEF Ahead, Before
  <2>2. Cardinality(Ahead(found, q) \cup {q}) <= Cardinality(Ahead(found, p))
    BY <1>1, <2>1, FS_Subset
  <2>3. /\ Cardinality(Ahead(found, q)) \in Nat /\ Cardinality(Ahead(found, p)) \in Nat
        /\ Cardinality(Ahead(found, q) \cup {q}) = Cardinality(Ahead(found, q)) + 1
    BY <1>1
  <2> QED
    BY <2>2, <2>3
<1>5. Cardinality(Ahead(found, p)) \in 0 .. Cardinality(found) - 1
  <2>1. /\ Cardinality(Ahead(found, p)) \in Nat
        /\ Cardinality(Ahead(found, p) \cup {p}) = Cardinality(Ahead(found, p)) + 1
    BY <1>1
  <2> QED
    BY <1>2, <1>3, <2>1
<1> QED
  BY <1>4, <1>5

\* There is an order of the devices, and it lists each of them.
LEMMA OrderedLists ==
  ASSUME NEW found, found \subseteq Nat \X Nat, IsFiniteSet(found)
  PROVE  /\ Ordered(found) \in [1 .. Cardinality(found) -> found]
         /\ \A p \in found : \E k \in 1 .. Cardinality(found) : Ordered(found)[k] = p
<1> DEFINE n == Cardinality(found)
           place == [p \in found |-> Cardinality(Ahead(found, p)) + 1]
           InOrder(f) == \A i, j \in DOMAIN f : i < j => Before(f[i], f[j])
<1>1. n \in Nat
  BY FS_CardinalityType
<1>2. IsFiniteSet(1 .. n) /\ Cardinality(1 .. n) = n
  BY <1>1, FS_Interval
<1>3. \A p, q \in found : p = q \/ Before(p, q) \/ Before(q, p)
  BY DEF Before
<1>4. /\ place \in [found -> 1 .. n]
      /\ \A p, q \in found : Before(p, q) => place[p] < place[q]
  <2>1. \A p \in found : place[p] \in 1 .. n
    BY <1>1, AheadCounts
  <2>2. ASSUME NEW p \in found, NEW q \in found, Before(p, q) PROVE place[p] < place[q]
    <3>1. Cardinality(Ahead(found, p)) < Cardinality(Ahead(found, q))
      BY <2>2, AheadCounts
    <3>2. Cardinality(Ahead(found, p)) \in Int /\ Cardinality(Ahead(found, q)) \in Int
      <4>1. \A r \in found : Cardinality(Ahead(found, r)) \in 0 .. n - 1
        BY AheadCounts
      <4> QED
        BY <1>1, <4>1
    <3> QED
      BY <3>1, <3>2
  <2> QED
    BY <2>1, <2>2
<1> HIDE DEF n, place
<1>5. place \in Injection(found, 1 .. n)
  BY <1>3, <1>4 DEF Injection, IsInjective
<1>6. place \in Surjection(found, 1 .. n)
  BY <1>2, <1>5, FS_Injection DEF n
<1> DEFINE g == [k \in 1 .. n |-> CHOOSE p \in found : place[p] = k]
<1>7. g \in [1 .. n -> found] /\ \A k \in 1 .. n : place[g[k]] = k
  BY <1>6 DEF Surjection
<1>8. InOrder(g)
  <2> SUFFICES ASSUME NEW i \in 1 .. n, NEW j \in 1 .. n, i < j PROVE Before(g[i], g[j])
    BY <1>7
  <2>1. g[i] \in found /\ g[j] \in found /\ place[g[i]] = i /\ place[g[j]] = j
    BY <1>7
  <2> HIDE DEF g
  <2>2. g[i] /= g[j] /\ ~Before(g[j], g[i])
    BY <1>1, <1>4, <2>1
  <2> QED
    BY <1>3, <2>1, <2>2
<1> HIDE DEF g
<1>9. Ordered(found) \in [1 .. n -> found] /\ InOrder(Ordered(found))
  BY <1>7, <1>8 DEF Ordered, n
<1>10. Ordered(found) \in Injection(1 .. n, found)
  <2> DEFINE f == Ordered(found)
  <2>1. \A i, j \in 1 .. n : i < j => Before(f[i], f[j])
    BY <1>9
  <2>2. f \in [1 .. n -> found]
    BY <1>9
  <2>3. \A i, j \in 1 .. n : i = j \/ i < j \/ j < i
    BY <1>1
  <2>4. \A p \in found : ~Before(p, p)
    BY DEF Before
  <2> HIDE DEF f
  <2>5. f \in Injection(1 .. n, found)
    BY <2>1, <2>2, <2>3, <2>4 DEF Injection, IsInjective
  <2> QED
    BY <2>5 DEF f
<1>11. Ordered(found) \in Surjection(1 .. n, found)
  BY <1>2, <1>10, FS_Injection DEF n
<1> QED
  BY <1>9, <1>11 DEF Surjection, n

\* The list has the default first, names that last, and every device there is.
LEMMA ListedType ==
  ASSUME slots \in Slots
  PROVE  /\ Listed \in Seq(Lasting) /\ 1 \in DOMAIN Listed /\ Listed[1] = Default
         /\ \A p \in Found(slots) : DeviceName(slots, p[1], p[2]) \in ToSet(Listed)
<1> DEFINE found == Found(slots)
           n == Cardinality(found)
           order == Ordered(found)
           list == list_audio_devices(slots)
<1>1. n \in Nat
  BY FoundType, FS_CardinalityType
<1>2. order \in [1 .. n -> found] /\ \A p \in found : \E k \in 1 .. n : order[k] = p
  BY FoundType, OrderedLists
<1>3. \A p \in found : DeviceName(slots, p[1], p[2]) \in Lasting
  BY FoundType DEF DeviceName, Name, Lasting
<1>4. list = [k \in DOMAIN order |-> DeviceName(slots, order[k][1], order[k][2])]
  BY Zenon DEF list_audio_devices
<1> HIDE DEF found, n, order, list
<1>5. list \in Seq(Lasting) /\ Len(list) = n
  BY <1>1, <1>2, <1>3, <1>4
<1>6. \A p \in found : \E k \in 1 .. n : list[k] = DeviceName(slots, p[1], p[2])
  BY <1>2, <1>4
<1>7. Default \in Lasting
  BY DEF Default, Name, Lasting
<1>8. Listed = <<Default>> \o list
  BY DEF Listed, list
<1>9. /\ Listed \in Seq(Lasting) /\ DOMAIN Listed = 1 .. n + 1 /\ Listed[1] = Default
      /\ \A k \in 1 .. n : Listed[k + 1] = list[k]
  BY <1>1, <1>5, <1>7, <1>8
<1>10. ASSUME NEW p \in found PROVE DeviceName(slots, p[1], p[2]) \in ToSet(Listed)
  <2>1. PICK k \in 1 .. n : list[k] = DeviceName(slots, p[1], p[2])
    BY <1>6
  <2>2. k + 1 \in DOMAIN Listed /\ Listed[k + 1] = DeviceName(slots, p[1], p[2])
    BY <1>1, <1>9, <2>1
  <2> QED
    BY <2>2 DEF ToSet
<1> QED
  BY <1>1, <1>9, <1>10 DEF found

USE SlotsAssumption, FoundAssumption, PanelAssumption

-----------------------------------------------------------------------------
(* What the parts of an action leave.                                      *)

Effect == ServerInv /\ InEffect

Inv == TypeOK /\ PanelInv /\ ClosedInv /\ ServerInv /\ NothingUnderPopup /\ InEffect

LEMMA ItemsType ==
  ASSUME TypeOK, NEW c \in Combos
  PROVE  items(c) \in Seq(ToSet(items(c)))
BY DEF TypeOK, items

\* A name that lasts means the same whichever numbers the cards have.
LEMMA LastingMeans ==
  ASSUME NEW id \in Lasting, NEW s
  PROVE  /\ id.number \notin Numbers
         /\ Means(s, id) = [card |-> id.card, dev |-> IF id.dev = LeftOff THEN 0 ELSE id.dev]
<1>1. id.number = NoNumber /\ NoNumber \notin Nat
  BY DEF Lasting, NoNumber
<1> QED
  BY <1>1 DEF Means

\* The cards may change under a saved name.
LEMMA DeviceStays ==
  ASSUME DeviceInv, device' = device,
         config'.combo["interface"] = config.combo["interface"]
  PROVE  DeviceInv'
<1> DEFINE id == config.combo["interface"]
<1>1. CASE id.number \in Numbers
  BY <1>1 DEF DeviceInv
<1>2. CASE id.number \notin Numbers
  <2>1. id \in Lasting /\ device = Means(slots, id)
    BY <1>2 DEF DeviceInv
  <2>2. Means(slots, id) = Means(slots', id)
    BY <2>1, LastingMeans
  <2> QED
    BY <1>2, <2>1, <2>2 DEF DeviceInv
<1> QED BY <1>1, <1>2

\* Being told of the server moves no field but frames/period, and opens nothing.
LEMMA StateTold ==
  ASSUME TypeOK, PanelInv, NEW s \in States, NEW o \in BOOLEAN,
         setServerState(s, o), UNCHANGED <<devices, shown>>
  PROVE  /\ state' = s /\ ours' = o
         /\ index' \in [Combos -> Nat]
         /\ \A c \in Combos \ {"frames"} : index'[c] = index[c]
         /\ DOMAIN popup' \subseteq DOMAIN popup
         /\ enabled' \subseteq Controls
         /\ PanelInv'
<1>1. state' = s /\ ours' = o
  BY DEF setServerState
<1>2. CASE UNCHANGED <<index, enabled, popup>> /\ (~shown \/ (s = state /\ o = ours))
  BY <1>1, <1>2 DEF TypeOK, PanelInv, items
<1>3. CASE /\ shown /\ (s /= state \/ o /= ours)
           /\ index' = IF s = "Running" /\ state /= "Running"
                       THEN [index EXCEPT !["frames"] = LiveFrames(@)] ELSE index
           /\ applyEnables(s, o)
  <2>1. /\ index' \in [Combos -> Nat]
        /\ \A c \in Combos \ {"frames"} : index'[c] = index[c]
        /\ \A c \in Combos : index'[c] \in DOMAIN items(c)
    <3>1. "frames" \in Combos /\ items("frames") = options["frames"]
      BY DEF Combos, items
    <3>2. index["frames"] \in DOMAIN options["frames"]
      BY <1>3, <3>1 DEF PanelInv
    <3>3. LiveFrames(index["frames"]) \in DOMAIN options["frames"]
      BY <3>1, <3>2, Selected DEF LiveFrames
    <3>4. DOMAIN options["frames"] \subseteq Nat
      BY <3>1
    <3> QED
      BY <1>3, <3>1, <3>3, <3>4 DEF TypeOK, PanelInv
  <2>2. enabled' = Offered(s, o) /\ popup' = [c \in DOMAIN popup \cap enabled' |-> popup[c]]
    BY <1>3 DEF applyEnables, KeepPopups
  <2>3. enabled' \subseteq Controls
    BY <2>2 DEF Offered, Controls, Buttons, Combos
  <2> QED
    BY <1>1, <1>3, <2>1, <2>2, <2>3 DEF PanelInv, items
<1> QED
  BY <1>1, <1>2, <1>3 DEF setServerState

\* What is in effect goes on being shown if nothing but frames/period changes.
LEMMA EffectKept ==
  ASSUME TypeOK, Effect, UNCHANGED <<server, devices, on>>, shown' => shown,
         config'.on = config.on,
         \A c \in Combos \ {"frames"} : config'.combo[c] = config.combo[c],
         \A c \in Combos \ {"frames"} : index'[c] = index[c],
         server /= Nobody => state' \in {"Starting", "Running", "Stopping"}
  PROVE  Effect'
<1>1. Fixed \subseteq Combos \ {"frames"} /\ "interface" \in Combos \ {"frames"}
  BY DEF Combos
<1> QED
  BY <1>1 DEF Effect, ServerInv, InEffect, value, items

\* A control is used only where it is offered.
LEMMA Used ==
  ASSUME TypeOK, PanelInv, NEW t, ReleaseOn(t)
  PROVE  shown /\ NoPopup /\ t = pressed /\ t \in Offered(state, ours)
BY DEF ReleaseOn, Paired, targetAt, PanelInv

\* With a server of ours only frames/period, Apply Live, Stop and Close are offered.
LEMMA NothingElseOffered ==
  ASSUME Effect, NEW t \in Offered(state, ours), server /= Nobody
  PROVE  t \notin Combos \ {"frames"} /\ t \notin Toggles /\ t /= "start"
BY DEF Effect, ServerInv, Offered, Combos, Buttons

-----------------------------------------------------------------------------
(* The steps of the panel, one lemma each where they do more than the last. *)

LEMMA InitInv == Init => Inv
<1> SUFFICES ASSUME Init PROVE Inv
  OBVIOUS
<1>1. /\ DOMAIN config = {"combo", "on"} /\ DOMAIN config.combo = Combos
      /\ config.on \subseteq Toggles
  <2>1. PICK s \in Saved :
          config = [s EXCEPT !.combo["interface"] = migrate_device_id(slots, @)]
    BY DEF Init
  <2>2. DOMAIN s = {"combo", "on"} /\ DOMAIN s.combo = Combos /\ s.on \subseteq Toggles
    OBVIOUS
  <2> QED
    BY <2>1, <2>2
<1>2. devices \in Seq(ToSet(devices)) /\ ToSet(devices) \subseteq Lasting
  BY DEF Init, ToSet
<1>3. TypeOK
  BY <1>1, <1>2 DEF Init, TypeOK, AllClosed, States, Places
<1> QED
  BY <1>3 DEF Init, Inv, PanelInv, ClosedInv, ServerInv, NothingUnderPopup, InEffect,
     NoPopup, AllClosed

LEMMA OpenKeeps == Inv /\ openSettings => Inv'
<1> SUFFICES ASSUME Inv, openSettings PROVE Inv'
  OBVIOUS
<1> USE DEF Inv
<1>1. /\ shown' = TRUE /\ devices' = Listed /\ index' = LoadedFrom(Listed)
      /\ on' = config.on /\ popup' = AllClosed /\ enabled' = Offered(state, ours)
      /\ pressed' = "nothing" /\ UNCHANGED <<worldVars, config, state, ours>>
  BY DEF openSettings
<1>2. slots \in Slots
  BY DEF TypeOK
<1>3. /\ Listed \in Seq(ToSet(Listed)) /\ 1 \in DOMAIN Listed /\ Listed[1] = Default
      /\ ToSet(Listed) \subseteq Lasting
  BY <1>2, ListedType DEF ToSet
<1>4. ASSUME NEW c \in Fixed
      PROVE  /\ LoadedFrom(Listed)[c] \in DOMAIN options[c]
             /\ config.combo[c] \in ToSet(options[c])
                  => options[c][LoadedFrom(Listed)[c]] = config.combo[c]
  <2>1. c \in Combos \ {"interface", "frames"}
    BY DEF Combos
  <2>2. LoadedFrom(Listed)[c] = selectByValue(options[c], config.combo[c],
                                              selectByValue(options[c], fallback[c], 0))
    BY <2>1 DEF LoadedFrom
  <2>3. options[c] \in Seq(ToSet(options[c])) /\ fallback[c] \in ToSet(options[c])
    BY <2>1
  <2>4. selectByValue(options[c], fallback[c], 0) \in DOMAIN options[c]
    BY <2>3, Selected
  <2> QED
    BY <2>2, <2>3, <2>4, Selected
<1>5. LoadedFrom(Listed)["frames"] \in DOMAIN options["frames"]
  <2>1. "frames" \in Combos \ {"interface"}
    BY DEF Combos
  <2>2. LoadedFrom(Listed)["frames"] =
          selectByValue(options["frames"], live,
            selectByValue(options["frames"], config.combo["frames"],
              selectByValue(options["frames"], fallback["frames"], 0)))
    BY <2>1 DEF LoadedFrom
  <2>3. options["frames"] \in Seq(ToSet(options["frames"]))
        /\ fallback["frames"] \in ToSet(options["frames"])
    BY <2>1
  <2>4. selectByValue(options["frames"], fallback["frames"], 0) \in DOMAIN options["frames"]
    BY <2>3, Selected
  <2>5. selectByValue(options["frames"], config.combo["frames"],
          selectByValue(options["frames"], fallback["frames"], 0)) \in DOMAIN options["frames"]
    BY <2>3, <2>4, Selected
  <2> QED
    BY <2>2, <2>3, <2>5, Selected
<1>6. /\ LoadedFrom(Listed)["interface"] \in DOMAIN Listed
      /\ IF config.combo["interface"] \in ToSet(Listed)
         THEN Listed[LoadedFrom(Listed)["interface"]] = config.combo["interface"]
         ELSE Listed[LoadedFrom(Listed)["interface"]] = Default
  <2>1. LoadedFrom(Listed)["interface"] = selectByValue(Listed, config.combo["interface"], 1)
    BY DEF LoadedFrom, Combos
  <2> QED
    BY <2>1, <1>3, Selected
<1>7. \A c \in Combos : index'[c] \in DOMAIN items(c)'
  BY <1>1, <1>4, <1>5, <1>6 DEF Combos, items
<1>8. TypeOK'
  <2>1. enabled' \subseteq Controls
    BY <1>1 DEF Offered, Controls, Buttons, Combos
  <2>2. index' \in [Combos -> Nat]
    <3>1. \A c \in Combos : DOMAIN items(c)' \subseteq Nat
      BY <1>1, <1>3 DEF items
    <3>2. DOMAIN index' = Combos /\ index' = [c \in Combos |-> index'[c]]
      BY <1>1 DEF LoadedFrom
    <3> QED
      BY <1>7, <3>1, <3>2
  <2> QED
    BY <1>1, <1>3, <2>1, <2>2 DEF TypeOK, worldVars, AllClosed, Places
<1>9. PanelInv' /\ ClosedInv' /\ NothingUnderPopup'
  BY <1>1, <1>7 DEF PanelInv, ClosedInv, NothingUnderPopup, AllClosed, NoPopup
<1>10. ServerInv'
  BY <1>1 DEF ServerInv, worldVars
<1>11. InEffect'
  <2> SUFFICES ASSUME server' /= Nobody PROVE InEffect'
    BY DEF InEffect
  <2>1. server /= Nobody /\ server' = server /\ config' = config
    BY <1>1 DEF worldVars
  <2>2. \A c \in Combos \ {"frames"} : config.combo[c] = server.combo[c]
    BY <2>1 DEF InEffect
  <2>3. config.on = server.on
    BY <2>1 DEF InEffect
  <2>4. \A c \in Fixed : value(c)' = server.combo[c]
    <3> SUFFICES ASSUME NEW c \in Fixed PROVE value(c)' = server.combo[c]
      OBVIOUS
    <3>1. c \in Combos \ {"interface", "frames"}
      BY DEF Combos
    <3>2. config.combo[c] = server.combo[c] /\ server.combo[c] \in ToSet(options[c])
      BY <2>1, <2>2, <3>1 DEF ServerInv
    <3> QED
      BY <1>1, <1>4, <3>1, <3>2 DEF value, items
  <2>5. \/ value("interface")' = server.combo["interface"]
        \/ value("interface")' = Default /\ server.combo["interface"] \notin ToSet(devices')
    BY <1>1, <1>6, <2>2 DEF value, items, Combos
  <2> QED
    BY <1>1, <2>1, <2>2, <2>3, <2>4, <2>5 DEF InEffect
<1> QED
  BY <1>8, <1>9, <1>10, <1>11

LEMMA CloseKeeps == Inv /\ closeSettings => Inv'
<1> SUFFICES ASSUME Inv, closeSettings PROVE Inv'
  OBVIOUS
<1> USE DEF Inv
<1>1. devices' \in Seq(ToSet(devices')) /\ ToSet(devices') \subseteq Lasting
  BY DEF closeSettings, ToSet
<1>2. TypeOK'
  BY <1>1 DEF closeSettings, TypeOK, worldVars, AllClosed, Places
<1> QED
  BY <1>2 DEF closeSettings, worldVars, PanelInv, ClosedInv, ServerInv, NothingUnderPopup,
     InEffect, NoPopup, AllClosed

\* Steps that leave settings, devices and what is offered as they are, and move no
\* field but those that have a popup.
LEMMA PopupsKeep ==
  ASSUME Inv, shown,
         UNCHANGED <<worldVars, config, shown, state, ours, devices, on, enabled>>,
         index' \in [Combos -> Nat],
         \A c \in Combos : index'[c] \in DOMAIN items(c),
         \A c \in Combos \ {"frames"} :
           index'[c] = index[c] \/ (c \in enabled /\ server = Nobody),
         \A c, d \in DOMAIN popup' : c = d,
         \A c \in DOMAIN popup' : c \in Combos /\ c \in enabled /\ popup'[c] \in DOMAIN items(c),
         pressed' \in Places,
         pressed' \in Buttons \cup Toggles => NoPopup'
  PROVE  Inv'
<1> USE DEF Inv
<1>1. TypeOK'
  BY DEF TypeOK, worldVars
<1>2. PanelInv' /\ ClosedInv' /\ NothingUnderPopup'
  BY DEF PanelInv, ClosedInv, NothingUnderPopup, items, NoPopup
<1>3. Effect'
  <2>1. CASE server = Nobody
    BY <2>1 DEF Effect, ServerInv, InEffect, worldVars
  <2>2. CASE server /= Nobody
    BY <2>2, EffectKept DEF Effect, worldVars, ServerInv
  <2> QED BY <2>1, <2>2
<1> QED
  BY <1>1, <1>2, <1>3 DEF Effect

LEMMA Indices ==
  ASSUME TypeOK, PanelInv, shown, NEW c \in Combos
  PROVE  index[c] \in DOMAIN items(c) /\ DOMAIN items(c) = 1 .. Len(items(c)) /\ Len(items(c)) > 0
<1>1. items(c) \in Seq(ToSet(items(c)))
  BY ItemsType
<1> QED
  BY <1>1 DEF PanelInv

LEMMA PressKeeps == Inv /\ press => Inv'
<1> SUFFICES ASSUME Inv, press PROVE Inv'
  OBVIOUS
<1> USE DEF Inv
<1>1. PICK place \in Places : pressed' = targetAt(place)
  BY DEF press
<1>2. CASE NoPopup
  <2>1. pressed' \in Places /\ NoPopup'
    BY <1>1, <1>2 DEF press, targetAt, Places, NoPopup
  <2> QED
    BY <1>2, <2>1, PopupsKeep DEF press, TypeOK, PanelInv, NoPopup
<1>3. CASE ~NoPopup
  <2>1. \E c \in Combos : isOpen(c)
    BY <1>3 DEF NoPopup, TypeOK, isOpen
  <2>2. pressed' \in Combos
    BY <1>1, <1>3, <2>1 DEF targetAt
  <2>3. pressed' \in Places /\ pressed' \notin Buttons \cup Toggles
    BY <2>2 DEF Places, Controls, Combos
  <2> QED
    BY <2>3, PopupsKeep DEF press, TypeOK, PanelInv
<1> QED BY <1>2, <1>3

\* With a popup open.
LEMMA PopupStepsKeep == Inv /\ (motion \/ PopupKey \/ ReleaseOnPopup) => Inv'
<1> SUFFICES ASSUME Inv, motion \/ PopupKey \/ ReleaseOnPopup PROVE Inv'
  OBVIOUS
<1> USE DEF Inv
<1>1. PICK c \in DOMAIN popup :
        \/ \E row \in DOMAIN items(c) : popup' = [popup EXCEPT ![c] = row] /\ UNCHANGED index
        \/ \E row \in DOMAIN items(c) : activateRow(c, row)
        \/ close(c)
        \/ UNCHANGED <<index, popup>>
  <2>1. CASE motion
    BY <2>1 DEF motion
  <2>2. CASE ReleaseOnPopup
    BY <2>2 DEF ReleaseOnPopup
  <2>3. CASE PopupKey
    <3>1. PICK c \in DOMAIN popup :
            LET n == Len(items(c))
            IN  \/ /\ \E row \in {((popup[c] - 2 + n) % n) + 1, (popup[c] % n) + 1, 1, n} :
                        popup' = [popup EXCEPT ![c] = row]
                   /\ UNCHANGED index
                \/ activateRow(c, popup[c])
                \/ close(c)
      BY <2>3 DEF PopupKey
    <3>2. shown /\ c \in Combos
      BY DEF ClosedInv, NoPopup, TypeOK
    <3>3. popup[c] \in DOMAIN items(c)
      BY <3>2 DEF PanelInv
    <3>4. DOMAIN items(c) = 1 .. Len(items(c)) /\ Len(items(c)) \in Nat \ {0}
      BY <3>2, Indices, ItemsType
    <3>5. \A a \in Nat, n \in Nat \ {0} : (a % n) + 1 \in 1 .. n
      OBVIOUS
    <3>6. {((popup[c] - 2 + Len(items(c))) % Len(items(c))) + 1,
           (popup[c] % Len(items(c))) + 1, 1, Len(items(c))} \subseteq DOMAIN items(c)
      <4> DEFINE n == Len(items(c))
      <4>1. n \in Nat \ {0} /\ popup[c] \in 1 .. n
        BY <3>3, <3>4
      <4>2. popup[c] - 2 + n \in Nat /\ popup[c] \in Nat
        BY <4>1
      <4> HIDE DEF n
      <4>3. ((popup[c] - 2 + n) % n) + 1 \in 1 .. n /\ (popup[c] % n) + 1 \in 1 .. n
        BY <4>1, <4>2, <3>5
      <4>4. 1 \in 1 .. n /\ n \in 1 .. n
        BY <4>1
      <4> QED
        BY <3>4, <4>3, <4>4 DEF n
    <3> QED
      BY <3>1, <3>3, <3>6
  <2> QED
    BY <2>1, <2>2, <2>3
<1>2. /\ UNCHANGED <<worldVars, config, shown, state, ours, devices, on, enabled>>
      /\ pressed' \in {pressed, "nothing"}
  BY DEF motion, PopupKey, ReleaseOnPopup
<1>3. shown /\ c \in Combos /\ c \in enabled /\ ~NoPopup
  BY DEF ClosedInv, NoPopup, TypeOK, PanelInv
<1>4. pressed' \in Places /\ pressed' \notin Buttons \cup Toggles
  BY <1>2, <1>3 DEF NothingUnderPopup, TypeOK, Places, Buttons
<1>5. c = "frames" \/ server = Nobody
  BY <1>3, NothingElseOffered DEF Effect, PanelInv
<1>6. /\ index' = index \/ \E row \in DOMAIN items(c) : index' = [index EXCEPT ![c] = row]
      /\ DOMAIN popup' \subseteq DOMAIN popup
      /\ \A d \in DOMAIN popup' : popup'[d] \in DOMAIN items(d)
  <2>1. \A d \in DOMAIN popup : popup[d] \in DOMAIN items(d)
    BY <1>3 DEF PanelInv
  <2>2. CASE \E row \in DOMAIN items(c) : popup' = [popup EXCEPT ![c] = row] /\ UNCHANGED index
    BY <2>1, <2>2
  <2>3. CASE \E row \in DOMAIN items(c) : activateRow(c, row)
    BY <2>1, <2>3 DEF activateRow
  <2>4. CASE close(c)
    BY <2>1, <2>4 DEF close
  <2> QED
    BY <1>1, <2>1, <2>2, <2>3, <2>4
<1>7. DOMAIN items(c) \subseteq Nat
  BY <1>3, ItemsType
<1>8. /\ index' \in [Combos -> Nat]
      /\ \A d \in Combos : index'[d] \in DOMAIN items(d)
      /\ \A d \in Combos \ {c} : index'[d] = index[d]
  BY <1>3, <1>6, <1>7 DEF TypeOK, PanelInv
<1> QED
  BY <1>2, <1>3, <1>4, <1>5, <1>6, <1>8, PopupsKeep DEF PanelInv, TypeOK

\* A control opens its popup, or is a toggle.
LEMMA NothingIsNoControl == "nothing" \in Places /\ "nothing" \notin Buttons \cup Toggles
BY DEF Places, Buttons

LEMMA ElsewhereKeeps == Inv /\ ReleaseElsewhere => Inv'
<1> SUFFICES ASSUME Inv, ReleaseElsewhere PROVE Inv'
  OBVIOUS
<1> QED
  BY NothingIsNoControl, PopupsKeep DEF Inv, ReleaseElsewhere, TypeOK, PanelInv

LEMMA OpenComboKeeps == Inv /\ OpenCombo => Inv'
<1> SUFFICES ASSUME Inv, OpenCombo PROVE Inv'
  OBVIOUS
<1> USE DEF Inv
<1>1. PICK c \in Combos \ {"interface"} : ReleaseOn(c) /\ OpenPopup(c, index[c])
  BY DEF OpenCombo
<1>2. shown /\ c \in Offered(state, ours)
  BY <1>1, Used
<1>3. index[c] \in DOMAIN items(c) /\ 1 \in DOMAIN items(c)
  BY <1>2, Indices
<1>4. /\ DOMAIN popup' = {c} /\ popup'[c] \in DOMAIN items(c) /\ c \in enabled
  BY <1>1, <1>2, <1>3 DEF OpenPopup, PanelInv
<1> QED
  BY <1>2, <1>4, NothingIsNoControl, PopupsKeep DEF OpenCombo, TypeOK, PanelInv

LEMMA OpenInterfaceKeeps == Inv /\ OpenInterface => Inv'
<1> SUFFICES ASSUME Inv, OpenInterface PROVE Inv'
  OBVIOUS
<1> USE DEF Inv
<1>1. /\ devices' = Listed /\ index' = [index EXCEPT !["interface"] = Reselected(Listed)]
      /\ OpenPopup("interface", index'["interface"]) /\ pressed' = "nothing"
      /\ UNCHANGED <<worldVars, config, shown, state, ours, on, enabled>>
  BY DEF OpenInterface
<1>2. shown /\ "interface" \in Offered(state, ours)
  BY Used DEF OpenInterface
<1>3. server = Nobody
  BY <1>2, NothingElseOffered DEF Effect, Combos
<1>4. slots \in Slots /\ "interface" \in Combos
  BY DEF TypeOK, Combos
<1>5. /\ Listed \in Seq(ToSet(Listed)) /\ 1 \in DOMAIN Listed
      /\ ToSet(Listed) \subseteq Lasting
  BY <1>4, ListedType DEF ToSet
<1>6. Reselected(Listed) \in DOMAIN Listed
  BY <1>5, Selected DEF Reselected
<1>7. index' \in [Combos -> Nat] /\ \A c \in Combos : index'[c] \in DOMAIN items(c)'
  <2>1. \A c \in Combos \ {"interface"} : index'[c] = index[c] /\ items(c)' = items(c)
    BY <1>1, <1>4 DEF items, TypeOK
  <2>2. index'["interface"] \in DOMAIN Listed /\ items("interface")' = Listed
    BY <1>1, <1>4, <1>6 DEF items, TypeOK
  <2>3. DOMAIN Listed \subseteq Nat
    BY <1>5
  <2>4. \A c \in Combos : index'[c] \in DOMAIN items(c)'
    BY <1>2, <2>1, <2>2 DEF PanelInv
  <2>5. Reselected(Listed) \in Nat
    BY <1>6, <2>3
  <2> QED
    BY <1>1, <2>4, <2>5 DEF TypeOK
<1>8. /\ DOMAIN popup' = {"interface"} /\ popup'["interface"] \in DOMAIN items("interface")'
  BY <1>1, <1>4, <1>5, <1>7 DEF OpenPopup, items
<1>9. TypeOK'
  BY <1>1, <1>4, <1>5, <1>7, <1>8, NothingIsNoControl DEF TypeOK, worldVars
<1>10. PanelInv' /\ ClosedInv' /\ NothingUnderPopup'
  BY <1>1, <1>2, <1>7, <1>8, NothingIsNoControl DEF PanelInv, ClosedInv, NothingUnderPopup
<1>11. ServerInv' /\ InEffect'
  BY <1>1, <1>3 DEF ServerInv, InEffect, worldVars
<1> QED
  BY <1>9, <1>10, <1>11

LEMMA FlipToggleKeeps == Inv /\ FlipToggle => Inv'
<1> SUFFICES ASSUME Inv, FlipToggle PROVE Inv'
  OBVIOUS
<1> USE DEF Inv
<1>1. PICK t \in Toggles : ReleaseOn(t) /\ on' = IF t \in on THEN on \ {t} ELSE on \cup {t}
  BY DEF FlipToggle
<1>2. /\ pressed' = "nothing"
      /\ UNCHANGED <<worldVars, config, shown, state, ours, devices, index, popup, enabled>>
  BY DEF FlipToggle
<1>3. t \in Offered(state, ours)
  BY <1>1, Used
<1>4. server = Nobody
  BY <1>3, NothingElseOffered DEF Effect
<1>5. TypeOK'
  BY <1>1, <1>2, NothingIsNoControl DEF TypeOK, worldVars
<1>6. PanelInv' /\ ClosedInv' /\ NothingUnderPopup'
  BY <1>2, NothingIsNoControl DEF PanelInv, ClosedInv, NothingUnderPopup, items, NoPopup
<1>7. ServerInv' /\ InEffect'
  BY <1>2, <1>4 DEF ServerInv, InEffect, worldVars
<1> QED
  BY <1>5, <1>6, <1>7

-----------------------------------------------------------------------------
(* The commands and the world.                                             *)

\* What is chosen is what is shown.
LEMMA ChosenType ==
  ASSUME TypeOK
  PROVE  /\ DOMAIN Chosen = {"combo", "on"} /\ DOMAIN Chosen.combo = Combos
         /\ Chosen.on = on /\ \A c \in Combos : Chosen.combo[c] = value(c)
BY DEF Chosen

\* A step that tells the panel of the server and changes nothing else it shows.
LEMMA ToldKeeps ==
  ASSUME Inv, NEW s \in States, NEW o \in BOOLEAN, setServerState(s, o),
         UNCHANGED <<slots, devices, shown, on>>,
         live' \in Sizes \cup {Unset},
         DOMAIN config' = {"combo", "on"}, DOMAIN config'.combo = Combos, config'.on \subseteq Toggles,
         pressed' \in {pressed, "nothing"}
  PROVE  /\ TypeOK' /\ PanelInv' /\ ClosedInv' /\ NothingUnderPopup'
         /\ state' = s /\ \A c \in Combos \ {"frames"} : index'[c] = index[c]
<1> USE DEF Inv
<1>1. /\ state' = s /\ ours' = o
      /\ index' \in [Combos -> Nat]
      /\ \A c \in Combos \ {"frames"} : index'[c] = index[c]
      /\ DOMAIN popup' \subseteq DOMAIN popup
      /\ enabled' \subseteq Controls
      /\ PanelInv'
  BY StateTold
<1>2. TypeOK'
  BY <1>1, NothingIsNoControl DEF TypeOK
<1>3. ClosedInv' /\ NothingUnderPopup'
  BY <1>1, NothingIsNoControl DEF ClosedInv, NothingUnderPopup, NoPopup
<1> QED
  BY <1>1, <1>2, <1>3

LEMMA StartKeeps == Inv /\ doStart => Inv'
<1> SUFFICES ASSUME Inv, doStart PROVE Inv'
  OBVIOUS
<1> USE DEF Inv
<1>1. /\ config' = Chosen /\ pressed' = "nothing" /\ UNCHANGED <<slots, shown, devices, on>>
  BY DEF doStart
<1>2. shown /\ "start" \in Offered(state, ours)
  BY Used DEF doStart
<1>3. /\ DOMAIN config' = {"combo", "on"} /\ DOMAIN config'.combo = Combos /\ config'.on = on
      /\ on \subseteq Toggles /\ \A c \in Combos : config'.combo[c] = value(c)
  BY <1>1, ChosenType DEF TypeOK
<1>4. CASE server' = Chosen /\ UNCHANGED live /\ setServerState("Starting", TRUE)
  <2>1. /\ TypeOK' /\ PanelInv' /\ ClosedInv' /\ NothingUnderPopup'
        /\ state' = "Starting" /\ \A c \in Combos \ {"frames"} : index'[c] = index[c]
    <3>1. "Starting" \in States /\ TRUE \in BOOLEAN /\ live' \in Sizes \cup {Unset}
      BY <1>4 DEF States, TypeOK
    <3> QED
      BY <1>1, <1>3, <1>4, <3>1, ToldKeeps
  <2>2. \A c \in Combos \ {"frames"} : value(c)' = value(c)
    BY <1>1, <2>1 DEF value, items
  <2>3. Fixed \subseteq Combos \ {"frames"} /\ "interface" \in Combos \ {"frames"}
    BY DEF Combos
  <2>4. \A c \in Fixed : value(c) \in ToSet(options[c])
    <3> SUFFICES ASSUME NEW c \in Fixed PROVE value(c) \in ToSet(options[c])
      OBVIOUS
    <3>1. c \in Combos \ {"interface"}
      BY DEF Combos
    <3>2. index[c] \in DOMAIN options[c]
      BY <1>2, <3>1 DEF PanelInv, items
    <3> QED
      BY <3>1, <3>2 DEF value, items, ToSet
  <2>5. server'.on = on /\ \A c \in Combos : server'.combo[c] = value(c)
    BY <1>4, ChosenType
  <2>6. ServerInv'
    BY <2>1, <2>3, <2>4, <2>5 DEF ServerInv
  <2>7. InEffect'
    BY <1>1, <1>3, <2>2, <2>3, <2>5 DEF InEffect
  <2> QED
    BY <2>1, <2>6, <2>7
<1>5. ASSUME NEW s \in {"Stopped", "Running"}, setServerState(s, ours),
             server' = Nobody, live' \in Sizes \cup {Unset}
      PROVE  Inv'
  <2>1. TypeOK' /\ PanelInv' /\ ClosedInv' /\ NothingUnderPopup'
    <3>1. s \in States /\ ours \in BOOLEAN
      BY DEF States, TypeOK
    <3> QED
      BY <1>1, <1>3, <1>5, <3>1, ToldKeeps
  <2> QED
    BY <1>5, <2>1 DEF ServerInv, InEffect
<1> QED
  BY <1>4, <1>5 DEF doStart, TypeOK

LEMMA StopKeeps == Inv /\ doStop => Inv'
<1> SUFFICES ASSUME Inv, doStop PROVE Inv'
  OBVIOUS
<1> USE DEF Inv
<1>1. /\ setServerState("Stopping", TRUE) /\ live' = Unset /\ pressed' = "nothing"
      /\ UNCHANGED <<slots, server, device, config, shown, devices, on>>
  BY DEF doStop
<1>2. "Stopping" \in States /\ TRUE \in BOOLEAN
  BY DEF States
<1>3. /\ TypeOK' /\ PanelInv' /\ ClosedInv' /\ NothingUnderPopup'
      /\ state' = "Stopping" /\ \A c \in Combos \ {"frames"} : index'[c] = index[c]
  BY <1>1, <1>2, ToldKeeps DEF TypeOK
<1>4. Effect'
  BY <1>1, <1>3, EffectKept DEF Effect
<1> QED
  BY <1>3, <1>4 DEF Effect

LEMMA ApplyKeeps == Inv /\ doApplyLive => Inv'
<1> SUFFICES ASSUME Inv, doApplyLive PROVE Inv'
  OBVIOUS
<1> USE DEF Inv
<1>1. /\ pressed' = "nothing"
      /\ UNCHANGED <<slots, server, device, shown, state, ours, devices, index, popup, on, enabled>>
  BY DEF doApplyLive
<1>2. /\ live' \in {live, value("frames")}
      /\ config' = config \/ config' = [config EXCEPT !.combo["frames"] = value("frames")]
  BY DEF doApplyLive, SaveFrames
<1>3. value("frames") \in Sizes
  <2>1. shown /\ "frames" \in Combos \ {"interface"}
    BY DEF doApplyLive, ReleaseOn, Combos
  <2>2. index["frames"] \in DOMAIN options["frames"]
    BY <2>1 DEF PanelInv, items
  <2> QED
    BY <2>1, <2>2 DEF value, items, ToSet
<1>4. /\ DOMAIN config' = {"combo", "on"} /\ DOMAIN config'.combo = Combos
      /\ config'.on = config.on
      /\ \A c \in Combos \ {"frames"} : config'.combo[c] = config.combo[c]
  BY <1>2 DEF TypeOK
<1>5. TypeOK'
  BY <1>1, <1>2, <1>3, <1>4, NothingIsNoControl DEF TypeOK
<1>6. PanelInv' /\ ClosedInv' /\ NothingUnderPopup'
  BY <1>1, NothingIsNoControl DEF PanelInv, ClosedInv, NothingUnderPopup, items, NoPopup
<1>7. Effect'
  BY <1>1, <1>4, EffectKept DEF Effect, ServerInv
<1> QED
  BY <1>5, <1>6, <1>7 DEF Effect

LEMMA ServerChangesKeeps == Inv /\ ServerChanges => Inv'
<1> SUFFICES ASSUME Inv, ServerChanges PROVE Inv'
  OBVIOUS
<1> USE DEF Inv
<1>1. UNCHANGED <<slots, device, config, shown, devices, on, pressed>>
  BY DEF ServerChanges
<1>2. PICK s \in Follows[state] : \E o \in BOOLEAN :
        /\ live' \in IF s = "Running" THEN Sizes \cup {Unset} ELSE {Unset}
        /\ server' = IF s = "Stopped" \/ ~o THEN Nobody ELSE server
        /\ setServerState(s, o)
  BY DEF ServerChanges
<1>3. PICK o \in BOOLEAN :
        /\ live' \in IF s = "Running" THEN Sizes \cup {Unset} ELSE {Unset}
        /\ server' = IF s = "Stopped" \/ ~o THEN Nobody ELSE server
        /\ setServerState(s, o)
  BY <1>2
<1>4. s \in States
  BY DEF TypeOK, States, Follows
<1>5. /\ TypeOK' /\ PanelInv' /\ ClosedInv' /\ NothingUnderPopup'
      /\ state' = s /\ \A c \in Combos \ {"frames"} : index'[c] = index[c]
  BY <1>1, <1>3, <1>4, ToldKeeps DEF TypeOK
<1>6. CASE server' = Nobody
  BY <1>5, <1>6 DEF ServerInv, InEffect
<1>7. CASE server' /= Nobody
  <2>1. server' = server /\ s \in {"Starting", "Running", "Stopping"}
    BY <1>3, <1>4, <1>7 DEF States
  <2>2. Effect'
    BY <1>1, <1>5, <2>1, EffectKept DEF Effect
  <2> QED
    BY <1>5, <2>2 DEF Effect
<1> QED
  BY <1>6, <1>7

LEMMA ReplugKeeps == Inv /\ (Replug \/ UNCHANGED vars) => Inv'
BY DEF Inv, Replug, vars, worldVars, panelVars, TypeOK, PanelInv, ClosedInv, ServerInv,
   NothingUnderPopup, InEffect, value, items, NoPopup

LEMMA Preserved == Inv /\ [Next]_vars => Inv'
<1> SUFFICES ASSUME Inv, [Next]_vars PROVE Inv'
  OBVIOUS
<1> QED
  BY OpenKeeps, CloseKeeps, PressKeeps, PopupStepsKeep, ElsewhereKeeps, OpenComboKeeps,
     OpenInterfaceKeeps, FlipToggleKeeps, StartKeeps, StopKeeps, ApplyKeeps, ServerChangesKeeps,
     ReplugKeeps
  DEF Next, CloseWindow, Escape, PressClose

-----------------------------------------------------------------------------
(* What the saved device stands for.                                       *)

\* Giving a saved number its card's name does not change what it stands for.
LEMMA MigrationKeepsMeaning ==
  ASSUME slots \in Slots, NEW id \in Lasting \cup Numbered
  PROVE  LET new == migrate_device_id(slots, id)
         IN  IF new.number \in Numbers THEN Means(slots, id).card \notin Cards
             ELSE new \in Lasting /\ Means(slots, new) = Means(slots, id)
<1> DEFINE new == migrate_device_id(slots, id)
<1>1. CASE id \in Lasting
  <2>1. id.number \notin Numbers
    BY <1>1, LastingMeans
  <2> QED
    BY <1>1, <2>1 DEF migrate_device_id
<1>2. CASE id \in Numbered /\ slots[id.number] \notin Cards
  <2>1. new = id /\ id.number \in Numbers
    BY <1>2 DEF migrate_device_id, Numbered
  <2> QED
    BY <1>2, <2>1 DEF Means
<1>3. CASE id \in Numbered /\ slots[id.number] \in Cards
  <2> DEFINE card == slots[id.number]
             dev  == IF id.dev = LeftOff THEN 0 ELSE id.dev
  <2>1. id.number \in Numbers /\ dev \in Nat
    BY <1>3 DEF Numbered, LeftOff
  <2>2. new = [card |-> card, number |-> NoNumber, dev |-> IF dev = 0 THEN LeftOff ELSE dev]
    BY <1>3, <2>1 DEF migrate_device_id, DeviceName, Name
  <2>3. Means(slots, id) = [card |-> card, dev |-> dev]
    BY <2>1 DEF Means
  <2> HIDE DEF new, card, dev
  <2>4. new \in Lasting
    BY <1>3, <2>1, <2>2 DEF Lasting, LeftOff, card
  <2>5. Means(slots, new) = [card |-> new.card, dev |-> IF new.dev = LeftOff THEN 0 ELSE new.dev]
    BY <2>4, LastingMeans
  <2>6. Means(slots, new) = [card |-> card, dev |-> dev]
    BY <2>1, <2>2, <2>5 DEF LeftOff
  <2>7. new.number \notin Numbers
    BY <2>4, LastingMeans
  <2> QED
    BY <2>3, <2>4, <2>6, <2>7 DEF new
<1> QED
  BY <1>1, <1>2, <1>3

LEMMA DeviceInit == Init => DeviceInv
<1> SUFFICES ASSUME Init PROVE DeviceInv
  OBVIOUS
<1>1. slots \in Slots
  BY DEF Init
<1>2. PICK s \in Saved :
        /\ config = [s EXCEPT !.combo["interface"] = migrate_device_id(slots, @)]
        /\ device = Means(slots, s.combo["interface"])
  BY DEF Init
<1>3. /\ s.combo["interface"] \in Lasting \cup Numbered
      /\ config.combo["interface"] = migrate_device_id(slots, s.combo["interface"])
  <2>1. DOMAIN s = {"combo", "on"} /\ DOMAIN s.combo = Combos /\ "interface" \in Combos
        /\ s.combo["interface"] \in Lasting \cup Numbered
    BY DEF Combos
  <2> QED
    BY <1>2, <2>1
<1> QED
  BY <1>1, <1>2, <1>3, MigrationKeepsMeaning DEF DeviceInv

\* Start saves what the field shows, and what that stands for.
LEMMA DeviceSaved == Inv /\ doStart => DeviceInv'
<1> SUFFICES ASSUME Inv, doStart PROVE DeviceInv'
  OBVIOUS
<1>1. /\ config' = Chosen /\ device' = Means(slots, value("interface")) /\ slots' = slots /\ shown
  BY DEF doStart, ReleaseOn
<1>2. "interface" \in Combos
  BY DEF Combos
<1>3. value("interface") \in Lasting
  <2>1. index["interface"] \in DOMAIN devices
    BY <1>1, <1>2 DEF Inv, PanelInv, items
  <2>2. value("interface") \in ToSet(devices)
    BY <2>1 DEF value, items, ToSet
  <2> QED
    BY <2>2 DEF Inv, TypeOK
<1>4. config'.combo["interface"] = value("interface")
  BY <1>1, <1>2, ChosenType DEF Inv
<1>5. value("interface").number \notin Numbers
  BY <1>3, LastingMeans
<1> QED
  BY <1>1, <1>3, <1>4, <1>5 DEF DeviceInv

LEMMA DevicePreserved == Inv /\ DeviceInv /\ [Next]_vars => DeviceInv'
<1> SUFFICES ASSUME Inv, DeviceInv, [Next]_vars PROVE DeviceInv'
  OBVIOUS
<1>1. CASE doStart
  BY <1>1, DeviceSaved
<1>2. CASE doApplyLive
  <2>1. config' = config \/ config' = [config EXCEPT !.combo["frames"] = value("frames")]
    BY <1>2 DEF doApplyLive, SaveFrames
  <2>2. \A c \in Combos \ {"frames"} : config'.combo[c] = config.combo[c]
    BY <2>1 DEF Inv, TypeOK
  <2>3. config'.combo["interface"] = config.combo["interface"]
    BY <2>2 DEF Combos
  <2> QED
    BY <1>2, <2>3, DeviceStays DEF doApplyLive
<1>3. CASE UNCHANGED <<config, device>>
  BY <1>3, DeviceStays
<1> QED
  BY <1>1, <1>2, <1>3 DEF Next, vars, worldVars, openSettings, CloseWindow, closeSettings,
     press, motion, PopupKey, Escape, ReleaseOnPopup, ReleaseElsewhere, OpenCombo,
     OpenInterface, FlipToggle, doStop, PressClose, Replug, ServerChanges

-----------------------------------------------------------------------------
\* The inductive invariant: every combo has a value, a popup is one of an enabled
\* combo, a server of ours is not shown as stopped, and the saved name stands for the
\* device it stood for when it was saved.
THEOREM Invariance == Spec => []IInv
<1>1. Inv /\ DeviceInv => IInv
  BY DEF Inv, IInv
<1> QED
  BY <1>1, InitInv, DeviceInit, Preserved, DevicePreserved, PTL DEF Spec

\* The click that dismisses a popup presses nothing under it.
THEOREM PopupsShield == Spec => []NothingUnderPopup
<1>1. Inv => NothingUnderPopup
  BY DEF Inv
<1> QED
  BY <1>1, InitInv, Preserved, PTL DEF Spec

\* While a server of ours lasts, what is saved and shown is what it was started with.
THEOREM ShownIsInEffect == Spec => []InEffect
<1>1. Inv => InEffect
  BY DEF Inv
<1> QED
  BY <1>1, InitInv, Preserved, PTL DEF Spec

-----------------------------------------------------------------------------
(* Action properties.                                                      *)

\* Without Start a setting is saved by Apply Live alone, if the running server accepts it.
THEOREM AppliedSettingsAreTheServers == Spec => SavedIfAccepted
<1>1. ASSUME Inv, [Next]_vars, config' /= config, pressed /= "start"
      PROVE  /\ pressed = "apply" /\ state = "Running"
             /\ live /= Unset /\ live' = value("frames")
             /\ config' = [config EXCEPT !.combo["frames"] = live']
  <2> USE <1>1 DEF Inv
  <2>1. ~doStart
    BY Used DEF doStart
  <2>2. CASE doApplyLive
    <3>1. pressed = "apply" /\ "apply" \in Offered(state, ours)
      BY <2>2, Used DEF doApplyLive
    <3>2. state = "Running"
      BY <3>1 DEF Offered, Buttons
    <3>3. /\ live /= Unset /\ live' = value("frames")
          /\ config' = [config EXCEPT !.combo["frames"] = value("frames")]
      BY <2>2 DEF doApplyLive, SaveFrames
    <3> QED
      BY <3>1, <3>2, <3>3
  <2> QED
    BY <2>1, <2>2 DEF Next, vars, openSettings, CloseWindow, closeSettings, press, motion,
       PopupKey, Escape, ReleaseOnPopup, ReleaseElsewhere, OpenCombo, OpenInterface, FlipToggle,
       doStop, PressClose, Replug, ServerChanges
<1> QED
  BY <1>1, InitInv, Preserved, PTL DEF Spec, SavedIfAccepted

\* No field moves by itself.
LEMMA FieldsStay ==
  ASSUME Inv, [Next]_vars, shown, shown', NEW c \in Combos
  PROVE  \/ value(c)' = value(c)
         \/ isOpen(c) /\ ~isOpen(c)'
         \/ c = "interface" /\ value(c)' = Default /\ value(c) \notin ToSet(devices')
         \/ c = "frames" /\ state' = "Running" /\ state /= "Running" /\ value(c)' = live'
<1> USE DEF Inv
<1>1. CASE UNCHANGED <<devices, index>>
  BY <1>1 DEF value, items
<1>2. CASE motion \/ PopupKey \/ ReleaseOnPopup
  <2>1. UNCHANGED devices
    BY <1>2 DEF motion, PopupKey, ReleaseOnPopup
  <2>2. \/ UNCHANGED index
        \/ \E d \in DOMAIN popup : \E row \in DOMAIN items(d) \cup {popup[d]} : activateRow(d, row)
    BY <1>2 DEF motion, PopupKey, ReleaseOnPopup, close
  <2>3. ASSUME NEW d \in DOMAIN popup, NEW row, activateRow(d, row)
        PROVE  value(c)' = value(c) \/ (isOpen(c) /\ ~isOpen(c)')
    <3>1. CASE d = c
      BY <2>3, <3>1 DEF activateRow, isOpen
    <3>2. CASE d /= c
      BY <2>1, <2>3, <3>2 DEF activateRow, value, items
    <3> QED BY <3>1, <3>2
  <2> QED
    BY <1>1, <2>1, <2>2, <2>3
<1>3. CASE OpenInterface
  <2>1. devices' = Listed /\ index' = [index EXCEPT !["interface"] = Reselected(Listed)]
    BY <1>3 DEF OpenInterface
  <2>2. /\ Listed \in Seq(ToSet(Listed)) /\ Listed[1] = Default
    BY ListedType DEF TypeOK, ToSet
  <2>3. CASE c = "interface"
    <3>1. IF value("interface") \in ToSet(Listed)
          THEN Listed[Reselected(Listed)] = value("interface")
          ELSE Reselected(Listed) = 1
      BY <2>2, Selected DEF Reselected
    <3>2. value(c)' = Listed[Reselected(Listed)]
      BY <2>1, <2>3 DEF value, items, TypeOK
    <3> QED
      BY <2>1, <2>2, <2>3, <3>1, <3>2
  <2>4. CASE c /= "interface"
    BY <2>1, <2>4 DEF value, items, TypeOK
  <2> QED BY <2>3, <2>4
<1>4. ASSUME NEW s \in States, NEW o \in BOOLEAN, setServerState(s, o), UNCHANGED devices
      PROVE  \/ value(c)' = value(c)
             \/ c = "frames" /\ state' = "Running" /\ state /= "Running" /\ value(c)' = live'
  <2>1. CASE c /= "frames"
    <3>1. index'[c] = index[c]
      BY <1>4, <2>1, StateTold
    <3> QED
      BY <1>4, <3>1 DEF value, items
  <2>2. CASE c = "frames" /\ index' = index
    BY <1>4, <2>2 DEF value, items
  <2>3. CASE /\ c = "frames" /\ s = "Running" /\ state /= "Running" /\ state' = "Running"
             /\ index' = [index EXCEPT !["frames"] = LiveFrames(@)]
    <3>1. options["frames"] \in Seq(ToSet(options["frames"])) /\ "frames" \in Combos
      BY DEF Combos
    <3>2. IF live' \in ToSet(options["frames"])
          THEN options["frames"][LiveFrames(index["frames"])] = live'
          ELSE LiveFrames(index["frames"]) = index["frames"]
      BY <3>1, Selected DEF LiveFrames
    <3>3. index'[c] = LiveFrames(index["frames"]) /\ items(c)' = options["frames"]
          /\ items(c) = options["frames"]
      BY <2>3, <3>1 DEF items, TypeOK
    <3> QED
      BY <2>3, <3>2, <3>3 DEF value
  <2> QED
    BY <1>4, <2>1, <2>2, <2>3 DEF setServerState
<1>5. CASE doStart \/ doStop \/ ServerChanges
  <2>1. UNCHANGED devices
    BY <1>5 DEF doStart, doStop, ServerChanges
  <2>2. \E s \in States, o \in BOOLEAN : setServerState(s, o)
    <3>1. ours \in BOOLEAN /\ {"Starting", "Stopped", "Running", "Stopping"} = States
          /\ Follows[state] \subseteq States
      BY DEF TypeOK, States, Follows
    <3>2. TRUE \in BOOLEAN /\ \A s \in {"Starting", "Stopped", "Running", "Stopping"} : s \in States
      BY DEF States
    <3>3. CASE doStart
      BY <3>1, <3>2, <3>3, ZenonT(30) DEF doStart
    <3>4. CASE doStop
      BY <3>1, <3>2, <3>4, Zenon DEF doStop
    <3>5. CASE ServerChanges
      BY <3>1, <3>5 DEF ServerChanges
    <3> QED
      BY <1>5, <3>3, <3>4, <3>5
  <2> QED
    BY <1>4, <2>1, <2>2
<1> QED
  BY <1>1, <1>2, <1>3, <1>5 DEF Next, vars, panelVars, openSettings, CloseWindow, closeSettings,
     press, Escape, ReleaseElsewhere, OpenCombo, FlipToggle, doApplyLive, PressClose, Replug

\* What a field shows changes only by a choice, when its device has gone, or when a
\* server comes up with another buffer size.
THEOREM ChoicesAreKept == Spec => ChoiceKept
<1>1. ASSUME Inv, [Next]_vars
      PROVE  shown /\ shown' =>
               \A c \in Combos :
                 \/ value(c)' = value(c)
                 \/ isOpen(c) /\ ~isOpen(c)'
                 \/ c = "interface" /\ value(c)' = Default /\ value(c) \notin ToSet(devices')
                 \/ c = "frames" /\ state' = "Running" /\ state /= "Running" /\ value(c)' = live'
  BY <1>1, FieldsStay
<1> QED
  BY <1>1, InitInv, Preserved, PTL DEF Spec, ChoiceKept

\* Two names that last and stand for one device are one name.
LEMMA MeaningIsName ==
  ASSUME NEW a \in Lasting, NEW b \in Lasting, NEW s, Means(s, a) = Means(s, b)
  PROVE  a = b
<1> DEFINE dev(x) == IF x.dev = LeftOff THEN 0 ELSE x.dev
<1>1. a.card = b.card /\ dev(a) = dev(b)
  BY LastingMeans
<1>2. /\ a = [card |-> a.card, number |-> NoNumber, dev |-> a.dev]
      /\ b = [card |-> b.card, number |-> NoNumber, dev |-> b.dev]
      /\ a.dev \in {LeftOff} \cup (Nat \ {0}) /\ b.dev \in {LeftOff} \cup (Nat \ {0})
  BY DEF Lasting
<1>3. a.dev = b.dev
  BY <1>1, <1>2 DEF LeftOff
<1> QED
  BY <1>1, <1>2, <1>3

\* What the window shows when it opens stands for what was saved, if that is there.
LEMMA OpensOnSaved ==
  ASSUME Inv, DeviceInv, openSettings, IsThere(device)
  PROVE  Means(slots, value("interface"))' = device
<1> DEFINE id == config.combo["interface"]
<1>1. slots \in Slots /\ slots' = slots
  BY DEF Inv, TypeOK, openSettings, worldVars
<1>2. /\ Listed \in Seq(Lasting) /\ 1 \in DOMAIN Listed /\ Listed[1] = Default
      /\ \A p \in Found(slots) : DeviceName(slots, p[1], p[2]) \in ToSet(Listed)
  BY <1>1, ListedType
<1>3. IF id \in ToSet(Listed) THEN value("interface")' = id ELSE value("interface")' = Default
  <2>1. LoadedFrom(Listed)["interface"] = selectByValue(Listed, id, 1)
    BY DEF LoadedFrom, Combos
  <2>2. value("interface")' = Listed[LoadedFrom(Listed)["interface"]]
    BY DEF openSettings, value, items
  <2> QED
    BY <1>2, <2>1, <2>2, Selected
<1>4. ToSet(Listed) \subseteq Lasting /\ Default \in ToSet(Listed)
  BY <1>2 DEF ToSet
<1>5. CASE id.number \in Numbers
  <2>1. id \notin ToSet(Listed)
    BY <1>4, <1>5, LastingMeans
  <2>2. device.card \notin Cards
    BY <1>5 DEF DeviceInv
  <2>3. device = Means(slots, Default)
    BY <1>1, <2>2, FoundType DEF IsThere
  <2> QED
    BY <1>1, <1>3, <2>1, <2>3
<1>6. CASE id.number \notin Numbers
  <2>1. id \in Lasting /\ device = Means(slots, id)
    BY <1>6 DEF DeviceInv
  <2>2. CASE device = Means(slots, Default)
    <3>1. id = Default
      BY <1>4, <2>1, <2>2, MeaningIsName
    <3> QED
      BY <1>1, <1>3, <2>1, <3>1
  <2>3. ASSUME NEW p \in Found(slots), device = [card |-> slots[p[1]], dev |-> p[2]]
        PROVE  Means(slots, value("interface"))' = device
    <3> DEFINE name == DeviceName(slots, p[1], p[2])
    <3>1. name \in Lasting /\ name \in ToSet(Listed)
      BY <1>2, <1>4
    <3>2. name = [card |-> slots[p[1]], number |-> NoNumber,
                  dev |-> IF p[2] = 0 THEN LeftOff ELSE p[2]] /\ p[2] \in Nat
      BY <1>1, FoundType DEF DeviceName, Name
    <3> HIDE DEF name
    <3>3. Means(slots, name) = device
      BY <2>3, <3>1, <3>2, LastingMeans DEF LeftOff
    <3>4. id = name
      BY <2>1, <3>1, <3>3, MeaningIsName
    <3> QED
      BY <1>1, <1>3, <2>1, <3>1, <3>4
  <2> QED
    BY <2>2, <2>3 DEF IsThere
<1> QED
  BY <1>5, <1>6

\* However often cards have come, gone and changed numbers, a saved device that is there
\* when the window opens is the one that is selected.
THEOREM SavedDevicesAreShown == Spec => SavedDeviceShown
<1>1. ASSUME Inv, DeviceInv, [Next]_vars, ~shown, shown', IsThere(device)
      PROVE  Means(slots, value("interface"))' = device
  <2>1. openSettings
    BY <1>1 DEF Next, vars, CloseWindow, closeSettings, press, motion, PopupKey, Escape,
       ReleaseOnPopup, ReleaseElsewhere, ReleaseOn, OpenCombo, OpenInterface, FlipToggle,
       doStart, doStop, doApplyLive, PressClose, Replug, ServerChanges
  <2> QED
    BY <1>1, <2>1, OpensOnSaved
<1> QED
  BY <1>1, InitInv, DeviceInit, Preserved, DevicePreserved, PTL DEF Spec, SavedDeviceShown
=============================================================================

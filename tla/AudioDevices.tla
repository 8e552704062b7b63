---------------------------- MODULE AudioDevices ----------------------------
(***************************************************************************)
(* JackServerControl.cpp: the names under which playback devices are       *)
(* offered, saved and given to jackd.                                      *)
(*                                                                         *)
(* ALSA numbers the cards, and plugging one in may renumber the others; a  *)
(* card's id stays with it.  Abstracted: the device's label.               *)
(***************************************************************************)
EXTENDS Integers, FiniteSets, SequencesExt

CONSTANTS Cards,      \* the ids of the cards that have one
          Nameless,   \* cards that have none
          Numbers,    \* the numbers that cards may get
          Free,       \* a number that no card has
          Slots,      \* ALSA: which card may have which number at a time
          playback    \* card -> the numbers of its playback devices

ASSUME SlotsAssumption ==
  /\ Numbers \subseteq Nat
  /\ Slots \subseteq [Numbers -> Cards \cup Nameless \cup {Free}]
  /\ \A s \in Slots : \A m, n \in Numbers : s[m] = s[n] /\ s[m] /= Free => m = n
  /\ Free \notin Cards \cup Nameless /\ Cards \cap Nameless = {}
  /\ playback \in [Cards -> SUBSET Nat]

\* A name is "default", hw:CARD=id[,DEV=n], or hw:N[,n] as jack-graph 1.x saved
\* it.  A device left off is device 0 to ALSA.
LeftOff == -1
NoNumber == -1

Name(card, number, dev) == [card |-> card, number |-> number, dev |-> dev]

\* The names that the program itself makes now, and those it made as jack-graph 1.x.
Lasting  == [card : Cards \cup {"default"}, number : {NoNumber}, dev : {LeftOff} \cup (Nat \ {0})]
Numbered == [card : {""}, number : Numbers, dev : {LeftOff} \cup Nat]

Default == Name("default", NoNumber, LeftOff)

DeviceName(slots, n, dev) ==
  Name(slots[n], NoNumber, IF dev = 0 THEN LeftOff ELSE dev)

\* list_audio_devices: card by card; those without an id are skipped.
Found(slots) ==
  UNION {{n} \X playback[slots[n]] : n \in {m \in Numbers : slots[m] \in Cards}}

ASSUME FoundAssumption == \A s \in Slots : IsFiniteSet(Found(s))

Before(p, q) == p[1] < q[1] \/ (p[1] = q[1] /\ p[2] < q[2])

Ordered(found) ==
  CHOOSE f \in [1 .. Cardinality(found) -> found] :
    \A i, j \in DOMAIN f : i < j => Before(f[i], f[j])

list_audio_devices(slots) ==
  LET order == Ordered(Found(slots))
  IN  [k \in DOMAIN order |-> DeviceName(slots, order[k][1], order[k][2])]

Mutant_migrate_device_id(slots, id) ==  \* hw:N,0 keeps its device number
  IF id.number \in Numbers /\ slots[id.number] \in Cards
  THEN Name(slots[id.number], NoNumber, id.dev)
  ELSE id

\* migrate_device_id, where there is a card of that number and it has an id.
migrate_device_id(slots, id) ==
  IF id.number \in Numbers /\ slots[id.number] \in Cards
  THEN DeviceName(slots, id.number, IF id.dev = LeftOff THEN 0 ELSE id.dev)
  ELSE id

\* What a name stands for at the moment, for jackd.
Means(slots, id) ==
  [card |-> IF id.number \in Numbers THEN slots[id.number] ELSE id.card,
   dev  |-> IF id.dev = LeftOff THEN 0 ELSE id.dev]
=============================================================================

--------------------------- MODULE SettingsPanel ---------------------------
(***************************************************************************)
(* settingspanel.cpp and gfx/combo.cpp: the JACK settings window, with     *)
(* App's openSettings, closeSettings and pushServerState, which create it, *)
(* close it and tell it about the server.                                  *)
(*                                                                         *)
(* The Sample Rate, Periods/Buffer and MIDI Driver fields are treated      *)
(* alike and are the combos of Fixed.  A place of the window is the        *)
(* control drawn there; with a popup open it is also a row of the popup,   *)
(* or none.  Abstracted: where things are, hovering, drawing and messages. *)
(*                                                                         *)
(* The world is the sound cards, the server, and App, whose handlers are   *)
(* reduced to what they push.                                              *)
(***************************************************************************)
EXTENDS AudioDevices

CONSTANTS Fixed,      \* combos whose items never change, and do not apply live
          Toggles,
          options,    \* combo other than "interface" -> the values of its items
          fallback,   \* combo other than "interface" -> what it shows by default
          Unset,      \* a setting that was never saved, and no buffer size
          Sizes,      \* the frames/period a server may run with
          Saved,      \* the settings that may have been saved
          Nobody      \* no server of ours

Combos   == Fixed \cup {"interface", "frames"}
Buttons  == {"start", "stop", "apply", "close"}
Controls == Combos \cup Toggles \cup Buttons
States   == {"Stopped", "Starting", "Running", "Stopping"}

ASSUME PanelAssumption ==
  /\ Fixed \cap ({"interface", "frames"} \cup Toggles) = {}
  /\ (Combos \cup Toggles) \cap (Buttons \cup {"nothing"}) = {}
  /\ {"interface", "frames"} \cap Toggles = {}
  /\ \A c \in Combos \ {"interface"} :
       /\ options[c] \in Seq(ToSet(options[c]))
       /\ fallback[c] \in ToSet(options[c])
  /\ ToSet(options["frames"]) \subseteq Sizes
  /\ \A s \in Saved :
       /\ DOMAIN s = {"combo", "on"} /\ DOMAIN s.combo = Combos /\ s.on \subseteq Toggles
       /\ s.combo["interface"] \in Lasting \cup Numbered

VARIABLES slots,      \* the cards of the machine
          live,       \* the running server's frames/period; Unset with no client
          server,     \* the settings our server was started with, or Nobody
          device,     \* what the saved interface stood for when it was saved
          config,     \* [combo |-> combo -> value, on |-> the toggles that are on]
          shown,      \* mSettingsOpen
          state,      \* what pushServerState told last: mState, mOurs
          ours,
          devices,    \* the values of the items of "interface"
          index,      \* combo -> mIndex; 0 for -1
          popup,      \* combo whose popup is open -> mHighlight
          on,         \* the toggles that are on
          enabled,    \* the controls that are
          pressed     \* mPressTarget

worldVars == <<slots, live, server, device>>
panelVars == <<devices, index, popup, on, enabled, pressed>>
vars == <<worldVars, config, shown, state, ours, panelVars>>

-----------------------------------------------------------------------------
(* Combo.                                                                  *)

items(c) == IF c = "interface" THEN devices ELSE options[c]

value(c) == items(c)[index[c]]

isOpen(c) == c \in DOMAIN popup
NoPopup   == DOMAIN popup = {}
AllClosed == [c \in {} |-> 0]

\* The first item with that value, or the item that is current otherwise.
selectByValue(list, v, otherwise) ==
  IF v \in ToSet(list)
  THEN CHOOSE i \in DOMAIN list : list[i] = v /\ \A j \in 1 .. i - 1 : list[j] /= v
  ELSE otherwise

-----------------------------------------------------------------------------
(* What is offered in which state.                                         *)

Mutant_Offered(s, o) ==           \* every field stays editable with a server running
  {"close"}
    \cup (IF s = "Stopped" THEN {"start"} ELSE {})
    \cup (IF s \in {"Stopped", "Running"} THEN Combos \cup Toggles ELSE {})
    \cup (IF s = "Running" THEN {"apply"} ELSE {})
    \cup (IF s = "Running" /\ o THEN {"stop"} ELSE {})

Offered(s, o) ==
  {"close"}
    \cup (IF s = "Stopped" THEN {"start"} \cup Combos \cup Toggles ELSE {})
    \cup (IF s = "Running" THEN {"apply", "frames"} ELSE {})
    \cup (IF s = "Running" /\ o THEN {"stop"} ELSE {})

Mutant_KeepPopups(now) == popup   \* a combo that is disabled stays open

\* Combo::setEnabled closes a popup.
KeepPopups(now) == [c \in DOMAIN popup \cap now |-> popup[c]]

applyEnables(s, o) ==
  /\ enabled' = Offered(s, o)
  /\ popup' = KeepPopups(enabled')

\* What "frames" shows of a running server, if it has such an item.
LiveFrames(otherwise) == selectByValue(options["frames"], live', otherwise)

\* setServerState, if the window is there to be told.
setServerState(s, o) ==
  /\ state' = s /\ ours' = o
  /\ \/ /\ ~shown \/ (s = state /\ o = ours)
        /\ UNCHANGED <<index, enabled, popup>>
     \/ /\ shown /\ (s /= state \/ o /= ours)
        /\ index' = IF s = "Running" /\ state /= "Running"
                    THEN [index EXCEPT !["frames"] = LiveFrames(@)] ELSE index
        /\ applyEnables(s, o)

-----------------------------------------------------------------------------
(* Opening and closing the window.                                         *)

\* populateDevices.
Listed == <<Default>> \o list_audio_devices(slots)

\* loadCurrentSettings, the devices having been read.
LoadedFrom(list) ==
  [c \in Combos |->
     CASE c = "interface" -> selectByValue(list, config.combo[c], 1)
       [] c = "frames" ->
            LET saved == selectByValue(options[c], config.combo[c],
                                       selectByValue(options[c], fallback[c], 0))
            IN  selectByValue(options[c], live, saved)
       [] OTHER -> selectByValue(options[c], config.combo[c],
                                 selectByValue(options[c], fallback[c], 0))]

\* App::openSettings: a new panel, reload() and pushServerState().
openSettings ==
  /\ ~shown
  /\ shown' = TRUE
  /\ devices' = Listed
  /\ index' = LoadedFrom(Listed)
  /\ on' = config.on
  /\ popup' = AllClosed
  /\ enabled' = Offered(state, ours)
  /\ pressed' = "nothing"
  /\ UNCHANGED <<worldVars, config, state, ours>>

\* App::closeSettings: by the Close button, by Escape or by the window manager.
\* The panel is not used any more.
closeSettings ==
  /\ shown' = FALSE
  /\ devices' = <<>> /\ index' = [c \in Combos |-> 0] /\ popup' = AllClosed
  /\ on' = {} /\ enabled' = {} /\ pressed' = "nothing"
  /\ UNCHANGED <<worldVars, config, state, ours>>

CloseWindow == shown /\ closeSettings

-----------------------------------------------------------------------------
(* The pointer.                                                            *)

Places == Controls \cup {"nothing"}

Mutant_targetAt(place) == IF place \in enabled THEN place ELSE "nothing"

\* An open popup takes everything.
targetAt(place) ==
  IF ~NoPopup THEN CHOOSE c \in Combos : isOpen(c)
  ELSE IF place \in enabled THEN place
  ELSE "nothing"

press ==
  /\ shown
  /\ \E place \in Places : pressed' = targetAt(place)
  /\ UNCHANGED <<worldVars, config, shown, state, ours, devices, index, popup, on, enabled>>

\* The pointer is over a row of the popup.
motion ==
  /\ \E c \in DOMAIN popup : \E row \in DOMAIN items(c) : popup' = [popup EXCEPT ![c] = row]
  /\ UNCHANGED <<worldVars, config, shown, state, ours, devices, index, on, enabled, pressed>>

\* Combo::activateRow.
activateRow(c, row) ==
  /\ index' = [index EXCEPT ![c] = row]
  /\ popup' = [d \in DOMAIN popup \ {c} |-> popup[d]]

close(c) ==
  /\ popup' = [d \in DOMAIN popup \ {c} |-> popup[d]]
  /\ UNCHANGED index

\* release() with a popup open: Combo::click, on a row, outside the popup or on its
\* border.  The click goes no further.
ReleaseOnPopup ==
  /\ \E c \in DOMAIN popup :
       \/ \E row \in DOMAIN items(c) : activateRow(c, row)
       \/ close(c)
       \/ UNCHANGED <<index, popup>>
  /\ pressed' = "nothing"
  /\ UNCHANGED <<worldVars, config, shown, state, ours, devices, on, enabled>>

\* What the release is for: the control the press was on, if it is there still.
Paired(place) == IF targetAt(place) = pressed THEN pressed ELSE "nothing"

\* A release that does nothing.
ReleaseElsewhere ==
  /\ shown /\ NoPopup
  /\ \E place \in Places : Paired(place) = "nothing"
  /\ pressed' = "nothing"
  /\ UNCHANGED <<worldVars, config, shown, state, ours, devices, index, popup, on, enabled>>

ReleaseOn(t) ==
  /\ shown /\ NoPopup
  /\ t /= "nothing" /\ \E place \in Places : Paired(place) = t

\* Combo::open.
OpenPopup(c, current) == popup' = [d \in {c} |-> IF current > 0 THEN current ELSE 1]

OpenCombo ==
  /\ \E c \in Combos \ {"interface"} : ReleaseOn(c) /\ OpenPopup(c, index[c])
  /\ pressed' = "nothing"
  /\ UNCHANGED <<worldVars, config, shown, state, ours, devices, index, on, enabled>>

Mutant_Reselected(list) ==        \* the row that was selected, not the device
  IF index["interface"] <= Len(list) THEN index["interface"] ELSE Len(list)

\* What was selected is selected again, if it is still there.
Reselected(list) == selectByValue(list, value("interface"), 1)

\* The list is read again before it is shown.
OpenInterface ==
  /\ ReleaseOn("interface")
  /\ devices' = Listed
  /\ index' = [index EXCEPT !["interface"] = Reselected(Listed)]
  /\ OpenPopup("interface", index'["interface"])
  /\ pressed' = "nothing"
  /\ UNCHANGED <<worldVars, config, shown, state, ours, on, enabled>>

FlipToggle ==
  /\ \E t \in Toggles :
       /\ ReleaseOn(t)
       /\ on' = IF t \in on THEN on \ {t} ELSE on \cup {t}
  /\ pressed' = "nothing"
  /\ UNCHANGED <<worldVars, config, shown, state, ours, devices, index, popup, enabled>>

PressClose == ReleaseOn("close") /\ closeSettings

-----------------------------------------------------------------------------
(* The commands.                                                           *)

\* doStart: the settings are saved and jackd is started with them.
Chosen == [combo |-> [c \in Combos |-> value(c)], on |-> on]

\* startServer: a jackd of ours is on its way, or it could not be spawned and the
\* window still shows "Stopped", or somebody else's server is already there, to
\* which a client may be opened.
doStart ==
  /\ ReleaseOn("start")
  /\ config' = Chosen
  /\ device' = Means(slots, value("interface"))
  /\ \/ /\ server' = Chosen
        /\ UNCHANGED live
        /\ setServerState("Starting", TRUE)
     \/ /\ server' = Nobody
        /\ UNCHANGED live
        /\ setServerState("Stopped", ours)
     \/ /\ server' = Nobody
        /\ live' \in Sizes \cup {Unset}
        /\ setServerState("Running", ours)
  /\ pressed' = "nothing"
  /\ UNCHANGED <<slots, shown, devices, on>>

\* stopServer: the client is closed first.
doStop ==
  /\ ReleaseOn("stop")
  /\ live' = Unset
  /\ setServerState("Stopping", TRUE)
  /\ pressed' = "nothing"
  /\ UNCHANGED <<slots, server, device, config, shown, devices, on>>

Mutant_SaveFrames(accepted) == [config EXCEPT !.combo["frames"] = value("frames")]

SaveFrames(accepted) ==
  IF accepted THEN [config EXCEPT !.combo["frames"] = value("frames")] ELSE config

\* doApplyLive, which the server may refuse, or which there is no client for.
doApplyLive ==
  /\ ReleaseOn("apply")
  /\ \/ /\ live /= Unset /\ live' = value("frames")
        /\ config' = SaveFrames(TRUE)
     \/ /\ UNCHANGED live
        /\ config' = SaveFrames(FALSE)
  /\ pressed' = "nothing"
  /\ UNCHANGED <<slots, server, device, shown, state, ours, devices, index, popup, on, enabled>>

-----------------------------------------------------------------------------
(* The keyboard.                                                           *)

\* Combo::key, which takes every key while the popup is open.
PopupKey ==
  /\ \E c \in DOMAIN popup :
       LET n == Len(items(c))
       IN  \/ /\ \E row \in {((popup[c] - 2 + n) % n) + 1, (popup[c] % n) + 1, 1, n} :
                    popup' = [popup EXCEPT ![c] = row]
              /\ UNCHANGED index
           \/ activateRow(c, popup[c])
           \/ close(c)
  /\ UNCHANGED <<worldVars, config, shown, state, ours, devices, on, enabled, pressed>>

Escape ==
  /\ shown /\ NoPopup
  /\ closeSettings

-----------------------------------------------------------------------------
(* The world.                                                              *)

\* A card is plugged in or out, and others may be renumbered.
Replug ==
  /\ slots' \in Slots
  /\ UNCHANGED <<live, server, device, config, shown, state, ours, panelVars>>

\* Where the server can go without the window's doing, as App sees it.
Follows ==
  [Stopped |-> {"Stopped", "Running"}, Starting |-> {"Running", "Stopped", "Stopping"},
   Running |-> {"Running", "Stopped"}, Stopping |-> {"Stopped", "Running"}]

\* App tells what has become of the server.  Once it has shown none, or one that is
\* somebody else's, the one we started does not come back.
ServerChanges ==
  /\ \E s \in Follows[state], o \in BOOLEAN :
       /\ live' \in IF s = "Running" THEN Sizes \cup {Unset} ELSE {Unset}
       /\ server' = IF s = "Stopped" \/ ~o THEN Nobody ELSE server
       /\ setServerState(s, o)
  /\ UNCHANGED <<slots, device, config, shown, devices, on, pressed>>

Init ==
  /\ slots \in Slots
  /\ \E s \in Saved :
       /\ config = [s EXCEPT !.combo["interface"] = migrate_device_id(slots, @)]
       /\ device = Means(slots, s.combo["interface"])
  /\ live = Unset /\ server = Nobody
  /\ shown = FALSE /\ state = "Stopped" /\ ours = FALSE
  /\ devices = <<>> /\ index = [c \in Combos |-> 0] /\ popup = AllClosed
  /\ on = {} /\ enabled = {} /\ pressed = "nothing"

Next ==
  \/ openSettings \/ CloseWindow
  \/ press \/ motion \/ PopupKey \/ Escape
  \/ ReleaseOnPopup \/ ReleaseElsewhere
  \/ OpenCombo \/ OpenInterface \/ FlipToggle
  \/ doStart \/ doStop \/ doApplyLive \/ PressClose
  \/ Replug \/ ServerChanges

Spec == Init /\ [][Next]_vars

-----------------------------------------------------------------------------
TypeOK ==
  /\ slots \in Slots
  /\ live \in Sizes \cup {Unset}
  /\ DOMAIN config = {"combo", "on"} /\ DOMAIN config.combo = Combos /\ config.on \subseteq Toggles
  /\ shown \in BOOLEAN /\ state \in States /\ ours \in BOOLEAN
  /\ devices \in Seq(ToSet(devices))
  /\ ToSet(devices) \subseteq Lasting
  /\ index \in [Combos -> Nat]
  /\ DOMAIN popup \subseteq Combos
  /\ on \subseteq Toggles
  /\ enabled \subseteq Controls
  /\ pressed \in Places

\* Whatever is pushed, listed again or pressed meanwhile, every combo has a value to
\* start jackd with, and at most one popup is open, of a combo that is enabled, with
\* the keyboard on one of its rows.
PanelInv ==
  shown =>
    /\ enabled = Offered(state, ours)
    /\ \A c \in Combos : index[c] \in DOMAIN items(c)
    /\ \A c, d \in DOMAIN popup : c = d
    /\ \A c \in DOMAIN popup : c \in enabled /\ popup[c] \in DOMAIN items(c)

\* A closed window has nothing open or pressed.
ClosedInv == ~shown => NoPopup /\ pressed = "nothing"

\* A server of ours that lasts is not shown as stopped, and was started with what
\* the fields have to offer.
ServerInv ==
  server /= Nobody =>
    /\ state \in {"Starting", "Running", "Stopping"}
    /\ \A c \in Fixed : server.combo[c] \in ToSet(options[c])

\* The saved name stands for the device it stood for when it was saved, whatever has
\* been plugged in or out since; unless it is still a number, of a card that has no id.
DeviceInv ==
  LET id == config.combo["interface"]
  IN  IF id.number \in Numbers THEN device.card \notin Cards
      ELSE id \in Lasting /\ device = Means(slots, id)

IInv == TypeOK /\ PanelInv /\ ClosedInv /\ ServerInv /\ DeviceInv

\* A click that dismisses a popup does not also press what is under it: no button
\* and no toggle waits for its release while a popup is open.
NothingUnderPopup == pressed \in Buttons \cup Toggles => NoPopup

\* "Changing a field mid-start would save settings the running server does not
\* have" (applyEnables): while a server of ours lasts, what is saved is what it was
\* started with, and so is what the window shows, unless its card has gone.
InEffect ==
  server /= Nobody =>
    /\ \A c \in Combos \ {"frames"} : config.combo[c] = server.combo[c]
    /\ config.on = server.on
    /\ shown =>
         /\ on = server.on
         /\ \A c \in Fixed : value(c) = server.combo[c]
         /\ \/ value("interface") = server.combo["interface"]
            \/ value("interface") = Default
               /\ server.combo["interface"] \notin ToSet(devices)

\* "So the saved choice is still selected in the Interface field" (loadConfig): when
\* the window opens and the device that was saved is there, it is selected, although
\* its card may have another number by now, and another card its number.
IsThere(d) ==
  \/ d = Means(slots, Default)
  \/ \E p \in Found(slots) : d = [card |-> slots[p[1]], dev |-> p[2]]

SavedDeviceShown ==
  [][~shown /\ shown' /\ IsThere(device) => Means(slots, value("interface"))' = device]_vars

\* What a combo shows changes only by a choice from its own popup, when its device
\* has gone, or, for frames/period, when a server comes up with another.
ChoiceKept ==
  [][shown /\ shown' =>
       \A c \in Combos :
         \/ value(c)' = value(c)
         \/ isOpen(c) /\ ~isOpen(c)'
         \/ c = "interface" /\ value(c)' = Default /\ value(c) \notin ToSet(devices')
         \/ c = "frames" /\ state' = "Running" /\ state /= "Running" /\ value(c)' = live']_vars

\* Apart from Start, which saves whatever the fields show (also on a "Stopped" that is
\* out of date, before startServer finds somebody else's server), nothing that the user
\* or the server does saves a setting, except Apply Live if the server accepts; and that
\* saves frames/period only, with the value that the server runs with from then on: not
\* if it refuses, has gone without the window being told, or is shown as gone between the
\* press of the button and its release.
SavedIfAccepted ==
  [][config' /= config /\ pressed /= "start" =>
       /\ pressed = "apply" /\ state = "Running"
       /\ live /= Unset /\ live' = value("frames")
       /\ config' = [config EXCEPT !.combo["frames"] = live']]_vars
=============================================================================

-------------------------- MODULE MCSettingsPanel --------------------------
(* SettingsPanel with a card that has only device 3, and one that comes and goes and may
   take the other's number. *)
EXTENDS SettingsPanel, TLC

MCplayback == [c \in {"PCH", "USB"} |-> IF c = "PCH" THEN {3} ELSE {0}]
MCSlots ==
  {[n \in {0, 1} |-> IF n = 0 THEN "PCH" ELSE "free"], [n \in {0, 1} |-> IF n = 0 THEN "USB" ELSE "PCH"]}
MCoptions == [c \in {"rate", "frames"} |-> IF c = "rate" THEN <<"44100", "48000">> ELSE <<"256", "1024">>]
MCfallback == [c \in {"rate", "frames"} |-> IF c = "rate" THEN "48000" ELSE "1024"]

MCSettings(interface, rate, frames) ==
  [combo |-> [c \in {"interface", "rate", "frames"} |->
                CASE c = "interface" -> interface [] c = "rate" -> rate [] OTHER -> frames],
   on |-> {}]

\* Saved by 1.x, of the card with number 0, and of one that may be gone; and with a rate
\* that is not offered any more.
MCSaved ==
  {MCSettings(Name("", 0, 0), "48000", "1024"),
   MCSettings(Name("", 1, -1), "48000", "1024"),
   MCSettings(Name("USB", -1, -1), "22050", "0")}
=============================================================================

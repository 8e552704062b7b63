---------------------------- MODULE ConfigStore ----------------------------
(***************************************************************************)
(* Config.cpp: the settings in memory, and the file they are loaded from   *)
(* and saved to, by several runs of the program at once and with the power *)
(* failing at any moment.                                                  *)
(*                                                                         *)
(* Abstracted: which settings there are, and their values.  A setting is a *)
(* number, a text or a flag, which is what decides how a line of the file  *)
(* that does not fit is treated.  A value is what the file shows of it: a  *)
(* zoom has the six digits that are printed, a text has no line break.     *)
(***************************************************************************)
EXTENDS AtomicFile, SequencesExt

CONSTANTS Order,      \* the keys, in the order in which they are saved
          Numbers,    \* the keys of numbers, ...
          Flags,      \* ... of flags; the others are texts
          values,     \* key -> the values it may have in memory
          readable,   \* key of a number -> those that load() accepts
          defaults    \* key -> its value before load()

Keys == ToSet(Order)
Values == UNION {values[k] : k \in Keys}
Line == [key : Keys, value : Values]
Settings == {c \in [Keys -> Values] : \A k \in Keys : c[k] \in values[k]}

\* save(): one line for each key.
Serialize(c) == [i \in 1 .. Len(Order) |-> [key |-> Order[i], value |-> c[Order[i]]]]

\* What is saved are settings, in a file made of lines.
ASSUME ConfigAssumption ==
  /\ Order \in Seq(Keys)
  /\ defaults \in Settings
  /\ \A i, j \in DOMAIN Order : Order[i] = Order[j] => i = j
  /\ \A k \in Keys \cap Numbers : readable[k] \subseteq values[k]
  /\ \A k \in Keys \cap Flags : k \notin Numbers /\ values[k] = {"true", "false"}
  /\ \A k \in Keys \ (Numbers \cup Flags) : values[k] = Values
  /\ Pieces = Line
  /\ Bodies = {Serialize(c) : c \in Settings}

\* load(): a number that cannot be used is passed over.
Usable(k, v) == k \in Numbers => v \in readable[k]

\* A flag is true or it is not.
Interpret(k, v) ==
  IF k \in Flags THEN (IF v = "true" THEN "true" ELSE "false") ELSE v

\* The lines are read from the first to the last, so the last one counts.
Gives(line, k) == line.key = k /\ Usable(k, line.value)

LastOf(text, k) ==
  {i \in DOMAIN text : Gives(text[i], k) /\ \A j \in i + 1 .. Len(text) : ~Gives(text[j], k)}

Parse(text) ==
  [k \in Keys |->
     IF LastOf(text, k) = {} THEN defaults[k]
     ELSE Interpret(k, text[CHOOSE i \in LastOf(text, k) : TRUE].value)]

VARIABLE mem    \* program -> its settings

vars == <<mem, fileVars>>

TypeOK ==
  /\ mem \in [Procs -> Settings]
  /\ FileTypeOK

Init ==
  /\ mem = [p \in Procs |-> defaults]
  /\ FileInit

-----------------------------------------------------------------------------
\* App::loadConfig, at the start of a run.
Load(p) ==
  \/ /\ Open(p) \/ OpenFails(p)
     /\ UNCHANGED mem
  \/ /\ Read(p)
     /\ UNCHANGED mem
  \/ /\ CloseRead(p)
     /\ \/ AtEnd(p) /\ mem' = [mem EXCEPT ![p] = Parse(got[p])]
        \/ UNCHANGED mem                \* a read error

\* A setter, from the settings window or the window's size.
Set(p) ==
  /\ pc[p] = "idle"
  /\ \E k \in Keys : \E v \in values[k] : mem' = [mem EXCEPT ![p][k] = v]
  /\ UNCHANGED fileVars

\* Start, Apply Live, and the end of the program.
Save(p) ==
  /\ Create(p, Serialize(mem[p]))
  /\ UNCHANGED mem

SaveStep(p) ==
  /\ Write(p) \/ Fsync(p) \/ Close(p) \/ Rename(p) \/ Unlink(p)
  /\ UNCHANGED mem

Quit(p) ==
  /\ Exit(p)
  /\ mem' = [mem EXCEPT ![p] = defaults]

PowerFails ==
  /\ PowerCut
  /\ mem' = [p \in Procs |-> defaults]

\* The user deletes the file, and the system writes its cache back.
Environment ==
  /\ RemoveFile \/ WriteBack
  /\ UNCHANGED mem

Next ==
  \/ \E p \in Procs : Load(p) \/ Set(p) \/ Save(p) \/ SaveStep(p) \/ Quit(p)
  \/ PowerFails \/ Environment

Spec == Init /\ [][Next]_vars

-----------------------------------------------------------------------------
\* A run starts with its defaults or with the settings of one save, number for
\* number except those it cannot use, however many pieces they are read in.
StartsWithOneSave ==
  [][\A p \in Procs : pc[p] = "read" /\ pc'[p] = "idle" =>
       \/ mem'[p] = defaults
       \/ data[held[p]] \in Contents
       \/ \E c \in Settings :
            /\ data[held[p]] = Serialize(c)
            /\ \A k \in Keys : mem'[p][k] = IF Usable(k, c[k]) THEN c[k] ELSE defaults[k]]_vars

\* The inductive invariant: a file that has the name, or has had it and is still
\* being read, holds one save or what there was at first, and until it has been
\* read a run has its defaults.
WholeFiles ==
  \A i \in ({entry, disk} \cup {held[p] : p \in Procs}) \ {NoInode} :
     data[i] \in Contents \cup Bodies

Unloaded == \A p \in Procs : pc[p] \in {"off", "read"} => mem[p] = defaults

ConfigInv ==
  /\ FileInv
  /\ mem \in [Procs -> Settings]
  /\ WholeFiles
  /\ Unloaded
=============================================================================

----------------------------- MODULE ConfigFile -----------------------------
(***************************************************************************)
(* config.json (common/util/dsh_cfg.c) and the two programs that may keep  *)
(* their settings in the same one: the relay server and the sender, when   *)
(* they sit in one folder.                                                 *)
(*                                                                         *)
(* A program reads the file once, when it starts, and saves it then and    *)
(* each time its window starts the relay or connects.  A save is a         *)
(* sequence of file operations, and the other program, the user's editor   *)
(* or a crash may come between any two of them.  Two saves at once share   *)
(* the temporary file and an edit during a save may be overwritten: the    *)
(* code prevents neither, and nothing is claimed from there on, so a       *)
(* behaviour is followed up to the first such overlap.                     *)
(*                                                                         *)
(* The order of the keys is left out: when there are more than fit, which  *)
(* ones are dropped is any choice.                                         *)
(***************************************************************************)
EXTENDS Integers, FiniteSets

CONSTANTS Programs,    \* the programs that share the file
          Keys,        \* the keys that can stand in it
          Asked,       \* [Programs -> SUBSET Keys], those a program reads
          Numeric,     \* keys read with dsh_cfg_int
          CfgMaxKeys,  \* DSH_CFG_MAX_KEYS
          MaxValue,    \* bound: values a user gives to a key
          MaxLaunches, \* bound: program starts
          MaxChanges   \* bound: edits by hand and changed window fields

ASSUME ConfigAssumption ==
  /\ Asked \in [Programs -> SUBSET Keys] /\ Numeric \subseteq Keys
  /\ CfgMaxKeys \in Nat /\ MaxValue \in Nat /\ MaxLaunches \in Nat /\ MaxChanges \in Nat
  /\ \A p \in Programs : IsFiniteSet(Asked[p]) /\ Cardinality(Asked[p]) <= CfgMaxKeys

VARIABLES
  file, backup, tmp,  \* config.json, config.json.bak, config.json.tmp
  save,               \* the point a program has reached; "off" when it is not running
  cfg,                \* its entries
  malformed, existed, \* dsh_cfg_file's flags
  saved,              \* history: the content of the last save that succeeded
  overlap,            \* history: did anything touch the file during a save
  launches, changes

cfgDisk == <<file, backup, tmp>>
cfgProg == <<save, cfg, malformed, existed>>
cfgHist == <<saved, overlap>>
cfgVars == <<cfgDisk, cfgProg, cfgHist, launches, changes>>

Default == 0         \* whatever value the program supplies for a key
Junk    == -1        \* text that is no number

Values == {Junk, Default} \cup 1 .. MaxValue
Entries == UNION {[d -> Values] : d \in SUBSET Keys}

\* What a file can be: not there, half of a save, a text no parser accepts, or a
\* whole object.
Absent  == [kind |-> "absent"]
Torn    == [kind |-> "torn"]
Text    == [kind |-> "text"]
Whole(e) == [kind |-> "whole", entries |-> e]

Parses(c) == c.kind = "whole"
NoEntries == [k \in {} |-> Default]
EntriesOf(c) == IF Parses(c) THEN c.entries ELSE NoEntries

Contents == {Absent, Torn, Text} \cup {Whole(e) : e \in Entries}

ConfigTypeOK ==
  /\ {file, backup, tmp, saved} \subseteq Contents
  /\ save \in [Programs -> {"off", "idle", "merge", "open", "flush", "aside", "swap"}]
  /\ \A p \in Programs : cfg[p] \in Entries
  /\ malformed \in [Programs -> BOOLEAN] /\ existed \in [Programs -> BOOLEAN]
  /\ overlap \in BOOLEAN /\ launches \in Nat /\ changes \in Nat

ConfigInit ==
  /\ file = Absent /\ backup = Absent /\ tmp = Absent
  /\ save = [p \in Programs |-> "off"]
  /\ cfg = [p \in Programs |-> NoEntries]
  /\ malformed = [p \in Programs |-> FALSE] /\ existed = [p \in Programs |-> FALSE]
  /\ saved = Absent /\ overlap = FALSE
  /\ launches = 0 /\ changes = 0

-----------------------------------------------------------------------------
\* Entries.

\* The entries of one and, as far as there is room, those of two that one lacks.
Joined(one, two) ==
  LET fresh == DOMAIN two \ DOMAIN one
      room  == CfgMaxKeys - Cardinality(DOMAIN one)
      kept  == {s \in SUBSET fresh :
                  \/ s = fresh /\ Cardinality(s) <= room
                  \/ Cardinality(s) = room /\ Cardinality(fresh) > room}
  IN  {[k \in DOMAIN one \cup s |-> IF k \in DOMAIN one THEN one[k] ELSE two[k]] : s \in kept}

\* dsh_cfg_str and dsh_cfg_int of every key the program asks for: a missing one
\* is recorded with its default, a numeric one that is no number becomes it.
Consulted(e, keys) ==
  LET read(k) == IF e[k] = Junk /\ k \in Numeric THEN Default ELSE e[k]
  IN  {[k \in DOMAIN f |-> IF k \in keys /\ k \in DOMAIN e THEN read(k) ELSE f[k]] :
         f \in Joined(e, [k \in keys |-> Default])}

\* dsh_cfg_set_str and dsh_cfg_set_int.
Set(e, k, v) ==
  IF k \in DOMAIN e THEN {[e EXCEPT ![k] = v]} ELSE Joined(e, [j \in {k} |-> v])

Saving(p) == save[p] \notin {"off", "idle"}
At(p, here, next) == save[p] = here /\ save' = [save EXCEPT ![p] = next]

\* Somebody else is in the middle of a save.
Disturbs(p) == \E q \in Programs \ {p} : Saving(q)

-----------------------------------------------------------------------------
\* A program.

\* main: dsh_cfg_open, the typed reads, the command line's overrides, and the
\* save they end in.
Launch(p) ==
  /\ launches < MaxLaunches /\ launches' = launches + 1
  /\ At(p, "off", "merge")
  /\ existed' = [existed EXCEPT ![p] = file # Absent]
  /\ malformed' = [malformed EXCEPT ![p] = file # Absent /\ ~Parses(file)]
  /\ \E loaded \in Joined(NoEntries, EntriesOf(file)) :
     \E read \in Consulted(loaded, Asked[p]) :
       \/ cfg' = [cfg EXCEPT ![p] = read]
       \/ \E k \in Asked[p], v \in 1 .. MaxValue : \E e \in Set(read, k, v) :
            cfg' = [cfg EXCEPT ![p] = e]
  /\ overlap' = (overlap \/ Disturbs(p))
  /\ UNCHANGED <<cfgDisk, saved, changes>>

\* start_server or connect_sender: a field of the window was changed or not; the
\* settings in use are recorded and saved.  The file is not read again.
Press(p) ==
  /\ At(p, "idle", "merge")
  /\ \/ UNCHANGED <<cfg, changes>>
     \/ /\ changes < MaxChanges /\ changes' = changes + 1
        /\ \E k \in Asked[p] \ Numeric, v \in 1 .. MaxValue : \E e \in Set(cfg[p], k, v) :
             cfg' = [cfg EXCEPT ![p] = e]
  /\ overlap' = (overlap \/ Disturbs(p))
  /\ UNCHANGED <<cfgDisk, malformed, existed, saved, launches>>

\* Mutant: what only the file has is not carried over.
MergeNothing(p) ==
  At(p, "merge", "open") /\ UNCHANGED <<cfgDisk, cfg, malformed, existed, cfgHist, launches, changes>>

\* dsh_cfg_save first carries over what the file has and the program does not.
Merge(p) ==
  /\ At(p, "merge", "open")
  /\ \E e \in Joined(cfg[p], EntriesOf(file)) : cfg' = [cfg EXCEPT ![p] = e]
  /\ UNCHANGED <<cfgDisk, malformed, existed, cfgHist, launches, changes>>

\* The temporary file is truncated, or cannot be opened.
OpenTemporary(p) ==
  /\ \/ At(p, "open", "flush") /\ tmp' = Torn
     \/ At(p, "open", "idle") /\ UNCHANGED tmp
  /\ UNCHANGED <<file, backup, cfg, malformed, existed, cfgHist, launches, changes>>

\* Mutant: a write that failed is not noticed.
IgnoreShortWrite(p) ==
  /\ At(p, "flush", "aside") /\ tmp' \in {Whole(cfg[p]), Torn}
  /\ UNCHANGED <<file, backup, cfg, malformed, existed, cfgHist, launches, changes>>

\* It is written and closed, or the disk is full and it is removed.
Flush(p) ==
  /\ \/ At(p, "flush", "aside") /\ tmp' = Whole(cfg[p])
     \/ At(p, "flush", "idle") /\ tmp' = Absent
  /\ UNCHANGED <<file, backup, cfg, malformed, existed, cfgHist, launches, changes>>

\* Mutant: the working file is deleted instead.
DeleteFirst(p) ==
  /\ At(p, "aside", "swap") /\ file' = Absent
  /\ UNCHANGED <<tmp, backup, cfg, malformed, existed, cfgHist, launches, changes>>

\* A file this program could not parse when it started is moved to the backup;
\* whether that worked is not looked at.
SetAside(p) ==
  /\ At(p, "aside", "swap")
  /\ \/ /\ malformed[p] /\ existed[p] /\ file # Absent
        /\ backup' = file /\ file' = Absent
     \/ UNCHANGED <<file, backup>>
  /\ UNCHANGED <<tmp, cfg, malformed, existed, cfgHist, launches, changes>>

\* The temporary file takes the place of the file, or cannot and is removed.
Swap(p) ==
  /\ At(p, "swap", "idle")
  /\ tmp' = Absent
  /\ \/ /\ file' = tmp /\ saved' = tmp
        /\ existed' = [existed EXCEPT ![p] = TRUE]
     \/ UNCHANGED <<file, saved, existed>>
  /\ UNCHANGED <<backup, cfg, malformed, overlap, launches, changes>>

\* The window is closed (dsh_cfg_close), or the program is killed at any point.
Quit(p) ==
  /\ save[p] # "off" /\ save' = [save EXCEPT ![p] = "off"]
  /\ cfg' = [cfg EXCEPT ![p] = NoEntries]
  /\ malformed' = [malformed EXCEPT ![p] = FALSE] /\ existed' = [existed EXCEPT ![p] = FALSE]
  /\ UNCHANGED <<cfgDisk, cfgHist, launches, changes>>

-----------------------------------------------------------------------------
\* The user's editor.

Edited == changes < MaxChanges /\ changes' = changes + 1
          /\ overlap' = (overlap \/ \E p \in Programs : Saving(p))
          /\ saved' = Absent
          /\ UNCHANGED <<backup, tmp, cfgProg, launches>>

EditKey(k, v) ==
  /\ Parses(file)
  /\ file' = Whole([j \in DOMAIN file.entries \cup {k} |->
                      IF j = k THEN v ELSE file.entries[j]])
  /\ Edited

Spoil ==
  /\ file' = Text
  /\ Edited

ConfigNext ==
  /\ ~overlap
  /\ \/ \E p \in Programs :
          \/ Launch(p) \/ Press(p) \/ Quit(p)
          \/ Merge(p) \/ OpenTemporary(p) \/ Flush(p) \/ SetAside(p) \/ Swap(p)
     \/ \E k \in Keys, v \in Values : EditKey(k, v)
     \/ Spoil

ConfigSpec == ConfigInit /\ [][ConfigNext]_cfgVars

-----------------------------------------------------------------------------
\* Properties.

\* Neither a crash nor a full disk at any step of a save leaves half a file in
\* the place of the settings, or of what was set aside (dsh_cfg_save).
NeverTorn == file # Torn /\ backup # Torn

\* The settings last saved are found in the file, or else in the backup, whatever
\* step of a later save the program dies at (dsh_cfg_save).
SavedIsKept == ~overlap /\ saved # Absent => saved \in {file, backup}

\* A save never takes a key out of the file, asked for by this program or not,
\* unless there are more than fit (dsh_cfg_save).
NoKeyErased ==
  [][ \A p \in Programs :
        save[p] = "swap" /\ save'[p] = "idle" /\ Parses(file) /\ ~overlap =>
          \/ DOMAIN file.entries \subseteq DOMAIN EntriesOf(file')
          \/ Cardinality(DOMAIN EntriesOf(file')) = CfgMaxKeys ]_cfgVars
=============================================================================

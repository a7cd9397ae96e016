-------------------------------- MODULE Lfn --------------------------------
(***************************************************************************)
(* The long file names of a VFAT directory (lfn.c, called by add_file and  *)
(* scan_dir of check.c). A name is spread over slots in front of the short *)
(* entry it belongs to: the slot with the start bit comes first and has    *)
(* the highest number. Slots are read one after the other into buffers     *)
(* that lfn_reset frees; what the buffers hold outlives a damaged name.    *)
(***************************************************************************)
EXTENDS Integers, Sequences, SequencesExt

CONSTANTS
  MaxEntries,    \* bound: entries of the directory
  MaxSlot,       \* bound: highest slot number
  Sums           \* checksums of short names

ASSUME LfnAssumption == MaxEntries \in Nat /\ MaxSlot \in Nat

Erased == [kind |-> "free"]
EntryTypes ==
  {Erased} \cup [kind : {"short"}, sum : Sums]
    \cup [kind : {"lfn"}, start : BOOLEAN, num : 1..MaxSlot, sum : Sums, junk : {FALSE}]
    \cup [kind : {"lfn"}, start : {TRUE}, num : {1}, sum : {1}, junk : {TRUE}]

VARIABLES
  entries,     \* the directory as it is now; an entry's place is its offset
  old,         \* history: as it was
  interactive,
  st,          \* where the run is: "fill", "scan", "done", "wild"
  pos,         \* the entry to be read next
  lfn,         \* the module's variables, in a record
  names        \* history: new->lfn for each entry, a sequence of offsets

lfnVars == <<entries, old, interactive, st, pos, lfn, names>>

\* lfn_slot, lfn_checksum, lfn_offsets[0..lfn_parts-1], lfn_unicode (which slot
\* each piece was copied from; 0 is memory never written) and where it ends.
Reset == [slot |-> -1, sum |-> 0, offs |-> <<>>, uni |-> <<>>, end |-> 0]
X_lfn_reset(l) == [l EXCEPT !.uni = <<>>, !.end = 0]
lfn_reset(l) == [Reset EXCEPT !.sum = l.sum]
Begin(e) == [slot |-> e.num, sum |-> e.sum, offs |-> <<>>,
             uni |-> [i \in 1..e.num |-> 0], end |-> 0]

LfnInit ==
  /\ entries = <<>> /\ old = <<>> /\ interactive \in BOOLEAN
  /\ st = "fill" /\ pos = 1 /\ lfn = Reset /\ names = <<>>

AddEntry ==
  /\ st = "fill" /\ Len(entries) < MaxEntries
  /\ \E e \in EntryTypes : entries' = Append(entries, e)
  /\ UNCHANGED <<old, interactive, st, pos, lfn, names>>

\* scan_dir: new_dir resets what an earlier directory left.
ScanDir ==
  /\ st = "fill" /\ entries # <<>>
  /\ st' = "scan" /\ old' = entries /\ lfn' = lfn_reset(lfn)
  /\ names' = [i \in DOMAIN entries |-> <<>>]
  /\ UNCHANGED <<entries, interactive, pos>>

Keys(K) == IF interactive THEN K ELSE {0}

clear_lfn_slots(d, offs) ==
  [i \in DOMAIN d |-> IF i \in ToSet(offs) THEN Erased ELSE d[i]]

\* The end of lfn_add_slot: the piece is stored, then fields that must be zero.
\* lfn_slot may have been 0: the piece would be copied in front of the buffer.
Store(d, l, zero) ==
  LET e  == d[pos]
      k  == l.slot
      l2 == IF k < 1 THEN l
            ELSE [l EXCEPT !.slot = k - 1, !.uni[k] = pos, !.offs = Append(@, pos),
                           !.end = IF e.start THEN k ELSE @]
  IN /\ entries' = [d EXCEPT ![pos].junk = IF zero THEN FALSE ELSE @]
     /\ lfn' = l2
     /\ st' = IF k = 0 THEN "wild" ELSE st
Abandon(d, l) == entries' = d /\ lfn' = lfn_reset(l) /\ UNCHANGED st

\* A slot's checksum is compared with that of the name it continues, after
\* every other question about the slot has been settled.
Checksum(d, l, zero) ==
  \/ d[pos].sum = l.sum /\ Store(d, l, zero)
  \/ /\ d[pos].sum # l.sum
     /\ \E key \in Keys(1..3) :
          \/ key = 1 /\ Abandon(clear_lfn_slots(d, Append(l.offs, pos)), l)
          \/ key \in {0, 2} /\ Store(d, l, zero)
          \/ key = 3 /\ Store([d EXCEPT ![pos].sum = l.sum], l, zero)

\* The five situations of lfn_add_slot: a name starts; a name starts within an
\* old one (clearing its start bit does not join the two); a fragment without a
\* start, for which lfn_checksum is what the last name left; not the number that
\* should come next; the slot that should come next.
FirstSlot(e, zero) ==
  /\ e.start /\ lfn.slot = -1
  /\ Store(entries, Begin(e), zero)
StartWithin(e, zero) ==
  /\ e.start /\ lfn.slot # -1
  /\ \E key \in Keys({1, 2} \cup (IF e.num = lfn.slot /\ e.sum = lfn.sum THEN {3} ELSE {})) :
       \/ key \in {0, 2} /\ Store(entries, Begin(e), zero)
       \/ key = 1 /\ Store(clear_lfn_slots(entries, lfn.offs), Begin(e), zero)
       \/ key = 3 /\ Store([entries EXCEPT ![pos].start = FALSE], Begin(e), zero)
Fragment(e, zero) ==
  /\ ~e.start /\ lfn.slot = -1
  /\ \E key \in Keys(1..3) :
       \/ key = 0 /\ Checksum(entries, lfn, zero)
       \/ key = 1 /\ Abandon(clear_lfn_slots(entries, <<pos>>), lfn)
       \/ key = 2 /\ Abandon(entries, lfn)
       \/ key = 3 /\ Store([entries EXCEPT ![pos].start = TRUE], Begin(e), zero)
WrongNumber(e, zero) ==
  /\ ~e.start /\ lfn.slot # -1 /\ e.num # lfn.slot
  /\ \E key \in Keys({1, 2} \cup (IF e.sum = lfn.sum THEN {3} ELSE {})) :
       \/ key = 0 /\ Checksum(entries, lfn, zero)
       \/ key = 1 /\ Abandon(clear_lfn_slots(entries, Append(lfn.offs, pos)), lfn)
       \/ key = 2 /\ Abandon(entries, lfn)
       \/ key = 3 /\ Checksum([entries EXCEPT ![pos].num = lfn.slot], lfn, zero)
NextSlot(e, zero) ==
  /\ ~e.start /\ lfn.slot # -1 /\ e.num = lfn.slot
  /\ Checksum(entries, lfn, zero)

AddSlot ==
  /\ st = "scan" /\ pos <= Len(entries) /\ entries[pos].kind = "lfn"
  /\ \E zero \in IF interactive /\ entries[pos].junk THEN BOOLEAN ELSE {TRUE} :
       LET e == entries[pos] IN
       \/ FirstSlot(e, zero) \/ StartWithin(e, zero) \/ Fragment(e, zero)
       \/ WrongNumber(e, zero) \/ NextSlot(e, zero)
  /\ pos' = pos + 1 /\ UNCHANGED <<old, interactive, names>>

\* lfn_get. The long name is read from the start of lfn_unicode to its end,
\* whether or not all its slots have been there; without a slot with the start
\* bit nothing ends it, and it runs on into memory never written.
LongName(l) == IF l.end = 0 THEN Append(l.uni, 0) ELSE SubSeq(l.uni, 1, l.end)
Renumbered(d, offs) ==
  [i \in DOMAIN d |-> IF i \notin ToSet(offs) THEN d[i]
     ELSE LET k == CHOOSE j \in DOMAIN offs : offs[j] = i
          IN [d[i] EXCEPT !.num = Len(offs) - k + 1, !.start = (k = 1)]]
\* memmove takes the pieces to the start of lfn_unicode, and leaves its end.
MovedUp(l) == [l EXCEPT !.uni = [i \in DOMAIN l.uni |-> IF i <= Len(l.offs)
                                                       THEN l.uni[i + l.slot] ELSE l.uni[i]]]

Got(d, l) ==
  \/ /\ d[pos].sum = l.sum
     /\ entries' = d /\ names' = [names EXCEPT ![pos] = LongName(l)]
  \/ /\ d[pos].sum # l.sum
     /\ \E key \in Keys(1..3) :
          \/ key = 0 /\ entries' = d /\ names' = [names EXCEPT ![pos] = LongName(l)]
          \/ key = 1 /\ entries' = clear_lfn_slots(d, l.offs) /\ UNCHANGED names
          \/ key = 2 /\ entries' = d /\ UNCHANGED names
          \/ /\ key = 3
             /\ entries' = [i \in DOMAIN d |-> IF i \in ToSet(l.offs)
                              THEN [d[i] EXCEPT !.sum = d[pos].sum] ELSE d[i]]
             /\ names' = [names EXCEPT ![pos] = LongName(l)]
LfnGet ==
  /\ st = "scan" /\ pos <= Len(entries) /\ entries[pos].kind = "short"
  /\ \/ lfn.slot = -1 /\ UNCHANGED <<entries, names>>
     \/ lfn.slot = 0 /\ Got(entries, lfn)
     \* Unfinished.
     \/ /\ lfn.slot > 0
        /\ \E key \in Keys(1..3) :
             \/ key = 0 /\ Got(entries, lfn)
             \/ /\ key = 1
                /\ entries' = clear_lfn_slots(entries, lfn.offs) /\ UNCHANGED names
             \/ key = 2 /\ UNCHANGED <<entries, names>>
             \/ key = 3 /\ Got(Renumbered(entries, lfn.offs), MovedUp(lfn))
  /\ lfn' = IF lfn.slot = -1 THEN lfn ELSE lfn_reset(lfn)
  /\ pos' = pos + 1 /\ UNCHANGED <<old, interactive, st>>

\* lfn_check_orphaned: at a free entry and at the end of the directory.
CheckOrphaned ==
  /\ \/ lfn.slot = -1 /\ UNCHANGED <<entries, lfn>>
     \/ /\ lfn.slot # -1
        /\ \E key \in Keys({1, 2}) :
             \/ key \in {0, 1} /\ entries' = clear_lfn_slots(entries, lfn.offs)
             \/ key = 2 /\ UNCHANGED entries
        /\ lfn' = lfn_reset(lfn)
  /\ UNCHANGED <<old, interactive, names>>
FreeEntry ==
  /\ st = "scan" /\ pos <= Len(entries) /\ entries[pos].kind = "free"
  /\ CheckOrphaned /\ pos' = pos + 1 /\ UNCHANGED st
EndOfDir ==
  /\ st = "scan" /\ pos > Len(entries)
  /\ CheckOrphaned /\ st' = "done" /\ UNCHANGED pos

LfnNext == AddEntry \/ ScanDir \/ AddSlot \/ LfnGet \/ FreeEntry \/ EndOfDir

LfnSpec == LfnInit /\ [][LfnNext]_lfnVars

-----------------------------------------------------------------------------
\* The slots from a to b - 1 spell a name for the short entry at b.
Proper(d, a, b) ==
  /\ d[b].kind = "short" /\ a < b
  /\ \A i \in a..(b - 1) : /\ d[i].kind = "lfn" /\ d[i].num = b - i
                           /\ d[i].sum = d[b].sum /\ (d[i].start <=> i = a)
Field(e) == IF e.kind = "lfn" THEN <<e.start, e.num, e.sum>> ELSE <<e.kind>>

\* lfn.c: a long name whose slots are in order is read as it is, and an
\* automatic run keeps its slots, whatever damaged names surround it; a user's
\* answers can only cost a name whose own slots they change.
LongNamesKept ==
  st = "done" =>
    \A a, b \in DOMAIN old : a < b /\ Proper(old, a, b) =>
      LET same == \A i \in a..b : Field(entries[i]) = Field(old[i]) IN
      /\ ~interactive => same
      /\ same => names[b] = [i \in 1..(b - a) |-> b - i]
=============================================================================

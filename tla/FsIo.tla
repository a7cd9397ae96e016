-------------------------------- MODULE FsIo --------------------------------
(***************************************************************************)
(* dosfsck's access to the device (io.c). Writes are kept in a list until  *)
(* the end (unless -w), reads are patched with the list, and the list is   *)
(* flushed or thrown away when the file system is closed. A byte is its    *)
(* last writer.                                                            *)
(***************************************************************************)
EXTENDS Integers, Sequences

CONSTANTS
  DevSize,       \* bytes of the device
  MaxWrites      \* bound: calls of fs_write

ASSUME FsIoAssumption == DevSize \in Nat /\ MaxWrites \in Nat

Pos == 0..(DevSize - 1)

VARIABLES
  device,        \* the bytes on the device
  changes,       \* the list of CHANGEs: <<pos, data>>
  did_change, write_immed,
  io,            \* "open", "flush", "closed", "dead"
  written,       \* history: how many writes there were
  view,          \* history: what a reader should see
  lost           \* history: a write of the flush failed

ioVars == <<device, changes, did_change, write_immed, io, written, view, lost>>

Poke(d, p, data) == [x \in Pos |-> IF x \in p..(p + Len(data) - 1) THEN data[x - p + 1] ELSE d[x]]

FsIoInit ==
  /\ device = [x \in Pos |-> 0] /\ view = device /\ changes = <<>>
  /\ did_change = FALSE /\ write_immed \in BOOLEAN
  /\ io = "open" /\ written = 0 /\ lost = FALSE

fs_write ==
  /\ io = "open" /\ written < MaxWrites
  /\ \E p \in Pos : \E n \in 1..(DevSize - p) :
       LET data == [i \in 1..n |-> written + 1] IN
       \/ /\ write_immed
          /\ did_change' = TRUE /\ device' = Poke(device, p, data)
          /\ view' = Poke(view, p, data) /\ UNCHANGED <<changes, io>>
       \* The device takes less than all of it: die.
       \/ /\ write_immed
          /\ did_change' = TRUE /\ io' = "dead"
          /\ \E k \in 0..(n - 1) : device' = Poke(device, p, SubSeq(data, 1, k))
          /\ UNCHANGED <<changes, view>>
       \/ /\ ~write_immed
          /\ changes' = Append(changes, <<p, data>>)
          /\ view' = Poke(view, p, data) /\ UNCHANGED <<device, did_change, io>>
  /\ written' = written + 1 /\ UNCHANGED <<write_immed, lost>>

\* fs_read: each change that overlaps what was read is copied over it; which
\* bytes depends on whether it starts before or within.
X_Patch(buf, pos, size, c) ==
  LET from == c[1] - pos  n == Len(c[2])
  IN [i \in 1..size |->
        IF from >= 0 /\ i > from /\ i <= from + n THEN c[2][i - from] ELSE buf[i]]
Patch(buf, pos, size, c) ==
  LET wpos == c[1]  wsize == Len(c[2])
      skip == pos - wpos
      Smaller(a, b) == IF a < b THEN a ELSE b
  IN IF ~(wpos < pos + size /\ wpos + wsize > pos) THEN buf
     ELSE IF wpos < pos
     THEN [i \in 1..size |-> IF i <= Smaller(size, wsize - skip) THEN c[2][i + skip] ELSE buf[i]]
     ELSE [i \in 1..size |-> IF i \in (wpos - pos + 1)..(wpos - pos + Smaller(wsize, size + pos - wpos))
                             THEN c[2][i - (wpos - pos)] ELSE buf[i]]
PatchAll(buf, pos, size, cs) ==
  LET after[k \in 0..Len(cs)] ==
        IF k = 0 THEN buf ELSE Patch(after[k - 1], pos, size, cs[k])
  IN after[Len(cs)]
fs_read(pos, size) == PatchAll([i \in 1..size |-> device[pos + i - 1]], pos, size, changes)

\* fs_close: flush or forget. A write that fails is reported, no more.
fs_close ==
  /\ io = "open"
  /\ \/ io' = "flush" /\ UNCHANGED <<changes, view>>
     \/ io' = "closed" /\ changes' = <<>> /\ view' = device
  /\ UNCHANGED <<device, did_change, write_immed, written, lost>>
fs_flush ==
  /\ io = "flush" /\ changes # <<>>
  /\ LET c == Head(changes) IN
     \/ device' = Poke(device, c[1], c[2]) /\ UNCHANGED lost
     \/ /\ \E k \in 0..(Len(c[2]) - 1) : device' = Poke(device, c[1], SubSeq(c[2], 1, k))
        /\ lost' = TRUE
  /\ changes' = Tail(changes)
  /\ UNCHANGED <<did_change, write_immed, io, written, view>>
Closed ==
  /\ io = "flush" /\ changes = <<>> /\ io' = "closed"
  /\ UNCHANGED <<device, changes, did_change, write_immed, written, view, lost>>

FsIoNext == fs_write \/ fs_close \/ fs_flush \/ Closed

FsIoSpec == FsIoInit /\ [][FsIoNext]_ioVars

-----------------------------------------------------------------------------
\* io.c: while the file system is open every read sees every write made before
\* it, however reads and writes overlap; once closed the device holds what the
\* readers saw, unless a write failed or the changes were dropped.
ReadsSeeWrites ==
  /\ io \in {"open", "closed"} /\ ~lost =>
       \A p \in Pos : \A n \in 1..(DevSize - p) :
         fs_read(p, n) = [i \in 1..n |-> view[p + i - 1]]
  /\ io = "closed" /\ ~lost => device = view
=============================================================================

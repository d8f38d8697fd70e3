---------------------------- MODULE WritableFile ----------------------------
(***************************************************************************)
(* PosixWritableFile of bench/util/env_posix.cc: a file written through a  *)
(* buffer of kBufSize bytes, one step per system call, each of which may   *)
(* fail; a kill loses the buffer, a power failure any tail of the file     *)
(* that was not synced, or all of it if its name was not.                  *)
(*                                                                         *)
(* The bytes given to Append are numbered in the order they are given, so  *)
(* that a byte that is lost, repeated or moved can be told.  A write that  *)
(* is interrupted changes nothing and is tried again: a stuttering step.   *)
(***************************************************************************)
EXTENDS Integers, Sequences

CONSTANTS
  kBufSize,    \* the size of the buffer
  MaxBytes     \* bound: the bytes given to one file

ASSUME WritableFileAssumption == kBufSize \in Nat \ {0} /\ MaxBytes \in Nat

VARIABLES
  manifest,  \* the file's name starts with "MANIFEST"
  fd,        \* fd_ >= 0
  buf,       \* buf_[0, pos_-1]
  op,        \* the function under way, or "none"
  pc,        \* the system call it comes to next
  out,       \* what its WriteRaw has still to write
  rest,      \* what Append has still to place behind the buffer
  status,    \* what the last function returned; in Close: result
  disk,      \* the file as the kernel has it
  synced,    \* how much of it is on the medium
  entry,     \* its directory entry is on the medium
  given,     \* history: how many bytes were given to Append
  failed,    \* history: a function has failed on this file, or a crash hit it
  promised   \* history: given, at the last Sync that succeeded on a sound file

call == <<op, pc, out, rest>>
kernel == <<disk, synced, entry>>
history == <<given, failed, promised>>
vars == <<manifest, fd, buf, call, status, kernel, history>>

Bytes == [i \in 1 .. given |-> i]
Drop(s, n) == SubSeq(s, n + 1, Len(s))

TypeOK ==
  /\ manifest \in BOOLEAN
  /\ fd \in BOOLEAN
  /\ buf \in Seq(1 .. MaxBytes) /\ Len(buf) <= kBufSize
  /\ op \in {"none", "append", "flush", "sync", "close"}
  /\ pc \in {"idle", "syncdir", "flush", "raw", "fdatasync", "close"}
  /\ op = "none" <=> pc = "idle"
  /\ out \in Seq(1 .. MaxBytes)
  /\ rest \in Seq(1 .. MaxBytes)
  /\ status \in {"ok", "error"}
  /\ disk \in Seq(1 .. MaxBytes)
  /\ synced \in 0 .. Len(disk)
  /\ entry \in BOOLEAN
  /\ given \in 0 .. MaxBytes
  /\ failed \in BOOLEAN
  /\ promised \in 0 .. MaxBytes

Init ==
  /\ manifest \in BOOLEAN
  /\ fd = FALSE
  /\ buf = <<>>
  /\ op = "none" /\ pc = "idle" /\ out = <<>> /\ rest = <<>>
  /\ status = "ok"
  /\ disk = <<>> /\ synced = 0 /\ entry \in BOOLEAN
  /\ given = 0 /\ failed = FALSE /\ promised = 0

-----------------------------------------------------------------------------
(* The functions of the class, each as far as its first system call. *)

Idle == fd /\ op = "none"

Return(s) ==
  /\ op' = "none" /\ pc' = "idle" /\ out' = <<>> /\ rest' = <<>>
  /\ status' = s
  /\ failed' = (failed \/ s = "error")

Enter(f, at, data, more) ==
  /\ op' = f /\ pc' = at /\ out' = data /\ rest' = more
  /\ UNCHANGED <<status, failed>>

(* open(O_TRUNC): the file starts again, for good.                           *)
NewWritableFile ==
  /\ ~fd
  /\ fd' = TRUE
  /\ disk' = <<>> /\ synced' = 0
  /\ given' = 0 /\ failed' = FALSE /\ promised' = 0
  /\ UNCHANGED <<manifest, buf, call, status, entry>>

(* open(O_APPEND): the file goes on where it ends.                          *)
NewAppendableFile ==
  /\ ~fd
  /\ fd' = TRUE
  /\ UNCHANGED <<manifest, buf, call, status, kernel, history>>

(* As much as fits goes to the buffer; if there is more, the buffer has to   *)
(* be written.                                                               *)
Append1(n) ==
  LET copy == IF n < kBufSize - Len(buf) THEN n ELSE kBufSize - Len(buf)
      data == [i \in 1 .. n |-> given + i]
  IN  /\ Idle
      /\ given + n <= MaxBytes
      /\ given' = given + n
      /\ buf' = buf \o SubSeq(data, 1, copy)
      /\ IF copy = n THEN Return("ok") ELSE Enter("append", "flush", buf', Drop(data, copy))
      /\ UNCHANGED <<manifest, fd, kernel, promised>>

Flush ==
  /\ Idle
  /\ Enter("flush", "flush", buf, <<>>)
  /\ UNCHANGED <<manifest, fd, buf, kernel, given, promised>>

Sync ==
  /\ Idle
  /\ Enter("sync", IF manifest THEN "syncdir" ELSE "flush", buf, <<>>)
  /\ UNCHANGED <<manifest, fd, buf, kernel, given, promised>>

(* Called, or by the destructor of a file that is still open. *)
Close ==
  /\ Idle
  /\ Enter("close", "flush", buf, <<>>)
  /\ UNCHANGED <<manifest, fd, buf, kernel, given, promised>>

-----------------------------------------------------------------------------
(* The system calls. *)

SyncDirIfManifest ==
  /\ pc = "syncdir"
  /\ \/ entry' = TRUE /\ pc' = "flush" /\ UNCHANGED <<op, out, rest, status, failed>>
     \/ Return("error") /\ UNCHANGED entry
  /\ UNCHANGED <<manifest, fd, buf, disk, synced, given, promised>>

(* write(2) takes any part of what it is given. *)
WriteRaw ==
  /\ pc \in {"flush", "raw"}
  /\ \E r \in 1 .. Len(out) :
       /\ disk' = disk \o SubSeq(out, 1, r)
       /\ out' = Drop(out, r)
  /\ UNCHANGED <<manifest, fd, buf, op, pc, rest, status, synced, entry, history>>

(* Bug: FlushBuffered keeps the buffer when the write fails. *)
WriteFailsKeeps ==
  /\ pc \in {"flush", "raw"}
  /\ out # <<>>
  /\ UNCHANGED buf
  /\ IF op = "close"
     THEN /\ pc' = "close" /\ status' = "error" /\ failed' = TRUE /\ out' = <<>>
          /\ UNCHANGED <<op, rest>>
     ELSE Return("error")
  /\ UNCHANGED <<manifest, fd, kernel, given, promised>>

(* The write fails: the buffer is emptied all the same, and Close goes on.  *)
WriteFails ==
  /\ pc \in {"flush", "raw"}
  /\ out # <<>>
  /\ buf' = <<>>
  /\ IF op = "close"
     THEN /\ pc' = "close" /\ status' = "error" /\ failed' = TRUE /\ out' = <<>>
          /\ UNCHANGED <<op, rest>>
     ELSE Return("error")
  /\ UNCHANGED <<manifest, fd, kernel, given, promised>>

(* Bug: a rest that does not fit the buffer is put there as far as it goes.  *)
AppendRestCut ==
  /\ op = "append" /\ pc = "flush" /\ out = <<>>
  /\ buf' = IF Len(rest) < kBufSize THEN rest ELSE SubSeq(rest, 1, kBufSize)
  /\ Return("ok")
  /\ UNCHANGED <<manifest, fd, kernel, given, promised>>

(* Behind the flush the rest is buffered if it is small, else written.       *)
AppendRest ==
  /\ op = "append" /\ pc = "flush" /\ out = <<>>
  /\ IF Len(rest) < kBufSize
     THEN buf' = rest /\ Return("ok")
     ELSE buf' = <<>> /\ Enter("append", "raw", rest, <<>>)
  /\ UNCHANGED <<manifest, fd, kernel, given, promised>>

AppendRaw ==
  /\ pc = "raw" /\ out = <<>>
  /\ Return("ok")
  /\ UNCHANGED <<manifest, fd, buf, kernel, given, promised>>

(* FlushBuffered is done. *)
Flushed ==
  /\ op \in {"flush", "sync", "close"} /\ pc = "flush" /\ out = <<>>
  /\ buf' = <<>>
  /\ \/ op = "flush" /\ Return("ok")
     \/ op = "sync" /\ Enter("sync", "fdatasync", <<>>, <<>>)
     \/ /\ op = "close" /\ pc' = "close" /\ status' = "ok"
        /\ UNCHANGED <<op, out, rest, failed>>
  /\ UNCHANGED <<manifest, fd, kernel, given, promised>>

(* Bug: Sync is content with the flush. *)
FdatasyncForgotten ==
  /\ pc = "fdatasync"
  /\ promised' = IF failed THEN promised ELSE given
  /\ Return("ok")
  /\ UNCHANGED <<manifest, fd, buf, kernel, given>>

Fdatasync ==
  /\ pc = "fdatasync"
  /\ \/ /\ synced' = Len(disk)
        /\ promised' = IF failed THEN promised ELSE given
        /\ Return("ok")
     \/ Return("error") /\ UNCHANGED <<synced, promised>>
  /\ UNCHANGED <<manifest, fd, buf, disk, entry, given>>

(* fd_ = -1 whether or not close(2) succeeds. *)
CloseFd ==
  /\ pc = "close"
  /\ fd' = FALSE
  /\ Return(status) \/ Return("error")
  /\ UNCHANGED <<manifest, buf, kernel, given, promised>>

-----------------------------------------------------------------------------
Gone ==
  /\ fd' = FALSE /\ buf' = <<>>
  /\ op' = "none" /\ pc' = "idle" /\ out' = <<>> /\ rest' = <<>>
  /\ failed' = TRUE
  /\ UNCHANGED <<manifest, status, given, promised>>

(* The process dies: what was written stays with the kernel. *)
Kill == fd /\ Gone /\ UNCHANGED kernel

(* The machine dies: a prefix at least as long as what was synced is left,   *)
(* or no file at all if its entry was not.                                   *)
PowerFailure ==
  /\ Gone
  /\ \/ \E k \in synced .. Len(disk) : disk' = SubSeq(disk, 1, k)
     \/ ~entry /\ disk' = <<>>
  /\ synced' = Len(disk')
  /\ UNCHANGED entry

Functions ==
  \/ \E n \in 0 .. MaxBytes : Append1(n)
  \/ Flush \/ Sync \/ Close

SystemCall ==
  \/ SyncDirIfManifest \/ WriteRaw \/ WriteFails \/ AppendRest \/ AppendRaw \/ Flushed
  \/ Fdatasync \/ CloseFd

Next ==
  \/ NewWritableFile \/ NewAppendableFile \/ Functions \/ SystemCall
  \/ Kill \/ PowerFailure

Spec == Init /\ [][Next]_vars

-----------------------------------------------------------------------------
(* Properties. *)

(* The bytes that are still to go to the kernel. *)
Pending == IF op = "none" THEN buf ELSE out \o rest

(* As long as no function has reported an error, no byte given to Append is  *)
(* missing, repeated or moved, at any point of any function: the file and    *)
(* what is still to be written are together what was given.                  *)
NothingLost == ~failed => disk \o Pending = Bytes

(* An error, or a crash and an O_APPEND, may leave a gap, but what is        *)
(* written after it never repeats or overtakes what was written before.      *)
InOrder ==
  LET all == disk \o Pending IN
  /\ \A i \in 1 .. Len(all) - 1 : all[i] < all[i + 1]
  /\ \A i \in 1 .. Len(all) : all[i] <= given

(* What a successful Sync covered outlives every later failure and crash,    *)
(* as long as the file's name does, and the name of a manifest does.         *)
SyncKept ==
  /\ entry => Len(disk) >= promised /\ \A i \in 1 .. promised : disk[i] = i
  /\ manifest /\ promised > 0 => entry
=============================================================================

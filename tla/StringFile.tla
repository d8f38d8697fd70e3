----------------------------- MODULE StringFile -----------------------------
(***************************************************************************)
(* DoWriteStringToFile and ReadFileToString of bench/util/env.cc, by two   *)
(* threads on one file, over WritableFile and PosixSequentialFile.  Each   *)
(* call of DoWriteStringToFile writes another version of the file.  Beside  *)
(* this use of a WritableFile there is the direct one: its functions in    *)
(* any order, with kills and power failures.                               *)
(***************************************************************************)
EXTENDS WritableFile

CONSTANTS
  Lengths,      \* the lengths of the strings
  kBufferSize,  \* what ReadFileToString asks for at a time
  MaxWrites     \* bound: the calls of DoWriteStringToFile that open the file

ASSUME StringFileAssumption ==
  /\ Lengths \subseteq 0 .. MaxBytes
  /\ kBufferSize \in Nat \ {0}
  /\ MaxWrites \in Nat

VARIABLES
  wpc,          \* where the writer is; "direct": it is another program
  should_sync,
  length,       \* data.size()
  s,            \* the writer's status
  version,      \* which version of the file this is
  exists,       \* fname names a file
  undeleted,    \* the DeleteFile of the last call failed
  rpc,          \* where the reader is
  quiet,        \* no writer since the reader opened the file
  orphan,       \* what the reader has open: <<>>, or a file without a name
  data          \* the reader's data: the version and the number of each byte

writer == <<wpc, should_sync, length, s, version, exists, undeleted>>
reader == <<rpc, quiet, orphan, data>>
allvars == <<vars, writer, reader>>

Contents == [i \in 1 .. Len(disk) |-> <<version, disk[i]>>]
View == IF orphan = <<>> THEN Contents ELSE orphan[1]

StringInit ==
  /\ Init
  /\ wpc \in {"idle", "direct"} /\ should_sync = FALSE /\ length = 0 /\ s = "ok" /\ version = 0
  /\ exists = FALSE /\ undeleted = FALSE
  /\ rpc = "idle" /\ quiet = FALSE /\ orphan = <<>> /\ data = <<>>

-----------------------------------------------------------------------------
(* DoWriteStringToFile *)

(* A file that cannot be opened ends the call. *)
DoWriteStringToFile(n, sync) ==
  /\ wpc = "idle"
  /\ \/ /\ version < MaxWrites
        /\ NewWritableFile
        /\ wpc' = "append"
        /\ should_sync' = sync
        /\ length' = n
        /\ version' = version + 1
        /\ exists' = TRUE
        /\ quiet' = FALSE
        /\ UNCHANGED <<s, undeleted, rpc, orphan, data>>
     \/ s' = "error" /\ UNCHANGED <<vars, wpc, should_sync, length, version, exists, undeleted, reader>>

AppendString ==
  /\ wpc = "append"
  /\ Append1(length)
  /\ wpc' = "appended"
  /\ UNCHANGED <<should_sync, length, s, version, exists, undeleted, reader>>

SyncString ==
  /\ wpc = "appended" /\ status = "ok" /\ should_sync
  /\ Sync
  /\ wpc' = "synced"
  /\ UNCHANGED <<should_sync, length, s, version, exists, undeleted, reader>>

CloseString ==
  /\ wpc = "synced" \/ (wpc = "appended" /\ ~should_sync)
  /\ status = "ok"
  /\ Close
  /\ wpc' = "closed"
  /\ UNCHANGED <<should_sync, length, s, version, exists, undeleted, reader>>

(* delete file, whose destructor closes a file that is open.                 *)
DeleteObject ==
  /\ op = "none"
  /\ wpc = "closed" \/ (wpc \in {"appended", "synced"} /\ status = "error")
  /\ s' = status
  /\ IF fd THEN Close ELSE UNCHANGED vars
  /\ wpc' = "deleted"
  /\ UNCHANGED <<should_sync, length, version, exists, undeleted, reader>>

(* Bug: the file is left to the caller. *)
CleanupForgotten ==
  /\ wpc = "deleted" /\ op = "none"
  /\ wpc' = "idle"
  /\ undeleted' = FALSE
  /\ UNCHANGED <<vars, should_sync, length, s, version, exists, reader>>

(* The end: a file that could not be written is removed, if possible.  What  *)
(* a reader has open stays what it is.                                       *)
Cleanup ==
  /\ wpc = "deleted" /\ op = "none"
  /\ wpc' = "idle"
  /\ exists' \in IF s = "error" THEN BOOLEAN ELSE {TRUE}
  /\ undeleted' = (s = "error" /\ exists')
  /\ orphan' = IF rpc = "read" /\ ~exists' THEN <<View>> ELSE orphan
  /\ UNCHANGED <<vars, should_sync, length, s, version, rpc, quiet, data>>

Writer ==
  \/ \E n \in Lengths, sync \in BOOLEAN : DoWriteStringToFile(n, sync)
  \/ AppendString \/ SyncString \/ CloseString \/ DeleteObject \/ Cleanup
  \/ wpc # "direct" /\ SystemCall /\ UNCHANGED <<writer, reader>>

-----------------------------------------------------------------------------
(* ReadFileToString *)

NewSequentialFile ==
  /\ rpc # "read"
  /\ data' = <<>>
  /\ orphan' = <<>>
  /\ \/ exists /\ rpc' = "read" /\ quiet' = (wpc = "idle")
     \/ rpc' = "error" /\ UNCHANGED quiet
  /\ UNCHANGED <<vars, writer>>

(* Bug: a fragment shorter than kBufferSize ends the loop. *)
ReadShortEnds ==
  /\ rpc = "read"
  /\ \E r \in 0 .. kBufferSize :
       /\ Len(data) + r <= Len(View)
       /\ Len(data) < Len(View) => r > 0
       /\ data' = data \o SubSeq(View, Len(data) + 1, Len(data) + r)
       /\ rpc' = IF r < kBufferSize THEN "ok" ELSE "read"
  /\ UNCHANGED <<vars, writer, quiet, orphan>>

(* Bug: the empty fragment does not end the loop. *)
ReadForever ==
  /\ rpc = "read"
  /\ \E r \in 0 .. kBufferSize :
       /\ Len(data) + r <= Len(View)
       /\ data' = data \o SubSeq(View, Len(data) + 1, Len(data) + r)
  /\ UNCHANGED <<vars, writer, rpc, quiet, orphan>>

(* read(2) gives any part of what is left up to kBufferSize; nothing left    *)
(* ends the loop.                                                            *)
Read ==
  /\ rpc = "read"
  /\ \/ /\ Len(data) >= Len(View)
        /\ rpc' = "ok"
        /\ UNCHANGED data
     \/ \E r \in 1 .. kBufferSize :
          /\ Len(data) + r <= Len(View)
          /\ data' = data \o SubSeq(View, Len(data) + 1, Len(data) + r)
          /\ UNCHANGED rpc
  /\ UNCHANGED <<vars, writer, quiet, orphan>>

ReadFails ==
  /\ rpc = "read"
  /\ rpc' = "error"
  /\ UNCHANGED <<vars, writer, quiet, orphan, data>>

Reader == NewSequentialFile \/ Read \/ ReadFails

(* Any use of a WritableFile. *)
Direct == wpc = "direct" /\ Next /\ UNCHANGED <<writer, reader>>

StringNext == Writer \/ Reader \/ Direct

StringSpec == StringInit /\ [][StringNext]_allvars

(* System calls return, and are not interrupted for ever. *)
FairStringSpec ==
  /\ StringSpec
  /\ WF_allvars(Writer /\ wpc \notin {"idle", "direct"})
  /\ WF_allvars(Read)

-----------------------------------------------------------------------------
(* Properties. *)

Complete == disk = [i \in 1 .. length |-> i]

(* DoWriteStringToFile leaves no descriptor open on any path; when it         *)
(* returns OK the file is there, whole and, if asked for, synced; a file in   *)
(* part written is never left behind, unless it could not be deleted.         *)
WriteOutcome ==
  wpc = "idle" =>
    /\ ~fd
    /\ s = "ok" /\ version > 0 => exists /\ Complete /\ (should_sync => synced = length)
    /\ exists /\ ~undeleted => Complete

(* A ReadFileToString that no writer disturbs returns the whole file.         *)
ReadWhole == rpc = "ok" /\ quiet /\ wpc = "idle" => data = Contents

(* Both functions return. *)
CallsReturn ==
  /\ wpc \notin {"idle", "direct"} ~> wpc = "idle"
  /\ rpc = "read" ~> rpc # "read"
=============================================================================

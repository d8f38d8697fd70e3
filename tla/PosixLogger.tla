---------------------------- MODULE PosixLogger -----------------------------
(***************************************************************************)
(* bench/util/posix_logger.h: the line Logv writes for a message.  The     *)
(* message is formatted into a buffer on the stack and, if that is too     *)
(* small, again into a larger one; a text is the header and the message as *)
(* snprintf and vsnprintf would print them in a buffer without limit, and  *)
(* the two attempts need not print the same text, for each reads the clock.*)
(***************************************************************************)
EXTENDS Integers, Sequences

Stack == 500
Heap == 30000
Newline == "\n"

\* p, as an offset from base, after the two snprintf calls: the length of the text
\* even when it was cut.  It is not the message's end if it is not below the limit.
Fits(text, bufsize) == Len(text) < bufsize

\* p is moved back to the last byte of the buffer.
Kept(text, bufsize) == IF Fits(text, bufsize) THEN Len(text) ELSE bufsize - 1

\* "Add newline if necessary", and the bytes handed to fwrite.
Line(text, bufsize) ==
  LET p == Kept(text, bufsize)
      base == SubSeq(text, 1, p)
  IN IF p = 0 \/ base[p] # Newline THEN Append(base, Newline) ELSE base

Logv(first, second) ==
  IF Fits(first, Stack) THEN Line(first, Stack) ELSE Line(second, Heap)

\* NewLogger: a logger on a file opened (and emptied) by fopen, or no logger.
NewLogger(opened, error) ==
  IF opened THEN [status |-> "ok", result |-> "logger"] ELSE [status |-> error, result |-> "NULL"]
=============================================================================

---------------------------- MODULE TraceBuffer ----------------------------
(***************************************************************************)
(* The job's log in memory (helpers/trace/buffer.go): what the build       *)
(* writes goes through a pipe to process, which adds one character at a    *)
(* time, holds back what may become a masked value, replaces a value by    *)
(* [MASKED], and stops at the limit.  Bytes shows the part that is not     *)
(* held back; the job's trace sends it to GitLab.                          *)
(*                                                                         *)
(* The log is a sequence of characters and of the tokens Masked and        *)
(* Exceeded, the message about the limit.                                  *)
(***************************************************************************)
EXTENDS Naturals, Sequences, SequencesExt, FiniteSets

CONSTANTS
  Chars,         \* characters the build writes
  Invalid,       \* a byte of Chars that is no character
  Replacement,   \* U+FFFD, what a reader of runes makes of it
  ValueSets,     \* the sets of masked values a job may have
  Limits,        \* the limits a runner may have, in bytes
  MaxWrite,      \* characters of one write
  MaxText        \* characters of all writes

ASSUME BufferAssumption == \A values \in ValueSets : values \subseteq Seq(Chars)

Masked   == "[MASKED]"
Exceeded == "Job's log exceeded limit"

VARIABLES
  maskTree,       \* the masked values, {} when there is no tree
  bytesLimit,
  unread,         \* characters process has read from the pipe and not handled
  log,
  logMaskedSize,  \* how much of log is shown
  stopped,        \* process ignores what follows
  writer,         \* the pipe: "open" or "closed"
  finish,         \* process has ended
  written,        \* history: every character written
  read            \* history: the runes process has added to log

vars == <<maskTree, bytesLimit, unread, log, logMaskedSize, stopped, writer, finish,
          written, read>>

Init ==
  /\ maskTree = {} /\ bytesLimit \in Limits
  /\ unread = <<>> /\ log = <<>> /\ logMaskedSize = 0
  /\ stopped = FALSE /\ writer = "open" /\ finish = FALSE
  /\ written = <<>> /\ read = <<>>

\* --- Bytes ---------------------------------------------------------------------
Bytes   == SubSeq(log, 1, logMaskedSize)
Pending == SubSeq(log, logMaskedSize + 1, Len(log))

\* A reader of runes turns an invalid byte into U+FFFD, three bytes long.
Rune(c)  == IF c = Invalid THEN Replacement ELSE c
Size(t)  == CASE t = Masked -> 8 [] t = Replacement -> 3 [] OTHER -> 1
LenOf(l) == FoldLeft(LAMBDA n, t : n + Size(t), 0, l)

\* --- The writers -----------------------------------------------------------------
\* Build.Run sets the values once the first lines have been written.
SetMasked ==
  /\ maskTree = {} /\ writer = "open"
  /\ maskTree' \in ValueSets \ {{}}
  /\ UNCHANGED <<bytesLimit, unread, log, logMaskedSize, stopped, writer, finish, written, read>>

\* A write returns when process, which reads only when it has nothing left, has
\* taken it.
Write ==
  /\ writer = "open" /\ unread = <<>>
  /\ \E data \in BoundedSeq(Chars, MaxWrite) \ {<<>>} :
       /\ Len(written) + Len(data) <= MaxText
       /\ unread' = data /\ written' = written \o data
  /\ UNCHANGED <<maskTree, bytesLimit, log, logMaskedSize, stopped, writer, finish, read>>

\* Close closes the pipe and waits for finish.
Close ==
  /\ writer = "open" /\ unread = <<>> /\ writer' = "closed"
  /\ UNCHANGED <<maskTree, bytesLimit, unread, log, logMaskedSize, stopped, finish, written, read>>

\* --- process -----------------------------------------------------------------------
\* The values of the tree that begin with rest.
Search(rest) == {v \in maskTree : IsPrefix(rest, v)}

\* Variant of advanceLogUnsafe: [MASKED] is written without removing the value.
advanceAppending(l) ==
  LET rest == SubSeq(l, logMaskedSize + 1, Len(l))
  IN  CASE Search(rest) = {}     -> [log |-> l, shown |-> Len(l)]
        [] Search(rest) = {rest} -> [log |-> Append(l, Masked), shown |-> Len(l) + 1]
        [] OTHER                 -> [log |-> l, shown |-> logMaskedSize]

\* Variant of advanceLogUnsafe: a partial match is shown while it grows.
advanceShowing(l) ==
  LET full == {v \in maskTree : IsSuffix(v, l)}
  IN  IF full = {} THEN [log |-> l, shown |-> Len(l)]
      ELSE LET v == CHOOSE x \in full : TRUE
               k == Append(SubSeq(l, 1, Len(l) - Len(v)), Masked)
           IN  [log |-> k, shown |-> Len(k)]

\* Variant of advanceLogUnsafe: a value waits although no other begins with it.
advanceWaiting(l) ==
  LET rest == SubSeq(l, logMaskedSize + 1, Len(l))
  IN  [log |-> l, shown |-> IF Search(rest) = {} THEN Len(l) ELSE logMaskedSize]

\* advanceLogUnsafe, on the log with the new character: show everything when what
\* is held back begins no value; replace it when it is a value and begins no other;
\* hold it back otherwise.
advanceLogUnsafe(l) ==
  LET rest == SubSeq(l, logMaskedSize + 1, Len(l))
  IN  CASE Search(rest) = {} ->
             [log |-> l, shown |-> Len(l)]
        [] Search(rest) = {rest} ->
             LET k == Append(SubSeq(l, 1, logMaskedSize), Masked)
             IN  [log |-> k, shown |-> Len(k)]
        [] OTHER ->
             [log |-> l, shown |-> logMaskedSize]

\* writeRune: add the character, then the message if the log is full.
writeRune(r) ==
  LET a == advanceLogUnsafe(Append(log, r))
      full == LenOf(a.log) >= bytesLimit
  IN  /\ log' = IF full THEN Append(a.log, Exceeded) ELSE a.log
      /\ logMaskedSize' = a.shown
      /\ stopped' = full
      /\ read' = Append(read, r)

\* One round of process.
process ==
  /\ unread # <<>> /\ unread' = Tail(unread)
  /\ \/ stopped /\ UNCHANGED <<log, logMaskedSize, stopped, read>>
     \/ ~stopped /\ writeRune(Rune(Head(unread)))
  /\ UNCHANGED <<maskTree, bytesLimit, writer, finish, written>>

\* The pipe is closed and empty: everything is shown, and Close returns.
advanceAll ==
  /\ unread = <<>> /\ writer = "closed" /\ ~finish
  /\ logMaskedSize' = Len(log) /\ finish' = TRUE
  /\ UNCHANGED <<maskTree, bytesLimit, unread, log, stopped, writer, written, read>>

Next == SetMasked \/ Write \/ Close \/ process \/ advanceAll

Spec == Init /\ [][Next]_vars

(***************************************************************************)
(* Properties                                                              *)
(***************************************************************************)
\* What a log stands for: each [MASKED] some value, the message nothing.
Texts(l) ==
  FoldLeft(LAMBDA ts, t :
             IF t = Exceeded THEN ts
             ELSE {s \o v : s \in ts, v \in IF t = Masked THEN maskTree ELSE {<<t>>}},
           {<<>>}, l)

\* However the build's output is cut into writes, the log is the text that was
\* read with values replaced by [MASKED]: nothing is lost, repeated, invented or
\* moved.  When Close has returned, all of it is shown, and it is everything that
\* was written unless the limit was met.
TextKept ==
  /\ read \in Texts(log)
  /\ finish => /\ Bytes = log
               /\ stopped \/ read = [i \in DOMAIN written |-> Rune(written[i])]

\* What process holds back begins a value, and is none itself unless a longer one
\* begins with it: a value whose first character found nothing held back is masked
\* with its last one, and ordinary output is never held back for long.
HeldBack ==
  ~stopped /\ ~finish /\ Pending # <<>> =>
    /\ Search(Pending) # {}
    /\ Pending \in maskTree => \E v \in maskTree : Len(v) > Len(Pending) /\ IsPrefix(Pending, v)

\* What Bytes has shown stays as it is, with more after it: the job's trace sends
\* it to GitLab in pieces, by offset.
ShownStays == [][IsPrefix(Bytes, Bytes')]_vars
=============================================================================

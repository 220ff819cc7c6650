-------------------------- MODULE TraceBufferProofs --------------------------
(***************************************************************************)
(* The job's log, for texts, writes and masked values of every length and  *)
(* every limit: what was shown stays, and only the beginning of a value is *)
(* held back.                                                              *)
(***************************************************************************)
EXTENDS TraceBuffer, SequenceTheorems, TLAPS

Token == Chars \cup {Replacement, Masked, Exceeded}

\* The inductive invariant.  Without values nothing is held back, so that values set
\* later meet no half of one.
BufferInv ==
  /\ unread \in Seq(Chars) /\ log \in Seq(Token)
  /\ logMaskedSize \in 0 .. Len(log)
  /\ maskTree \subseteq Seq(Chars)
  /\ (maskTree = {} /\ ~stopped /\ ~finish) => logMaskedSize = Len(log)
  /\ HeldBack

\* What advanceLogUnsafe makes of a log that begins with the part that is shown: that
\* part is still there, and at least as much is shown.
Keeps(l, a) ==
  /\ a.log \in Seq(Token)
  /\ a.shown \in logMaskedSize .. Len(a.log)
  /\ \A i \in 1 .. logMaskedSize : a.log[i] = l[i]

\* advanceLogUnsafe changes nothing that is shown, whichever of its cases applies.
LEMMA AdvanceKeeps ==
  ASSUME NEW l \in Seq(Token), logMaskedSize \in 0 .. Len(l)
  PROVE  Keeps(l, advanceLogUnsafe(l))
<1> DEFINE rest == SubSeq(l, logMaskedSize + 1, Len(l))
           k    == Append(SubSeq(l, 1, logMaskedSize), Masked)
           All  == [log |-> l, shown |-> Len(l)]
           Repl == [log |-> k, shown |-> Len(k)]
           Hold == [log |-> l, shown |-> logMaskedSize]
<1>1. Keeps(l, All) /\ Keeps(l, Hold)
  BY DEF Keeps
<1>2. Keeps(l, Repl)
  <2>1. /\ SubSeq(l, 1, logMaskedSize) \in Seq(Token)
        /\ Len(SubSeq(l, 1, logMaskedSize)) = logMaskedSize
        /\ \A i \in 1 .. logMaskedSize : SubSeq(l, 1, logMaskedSize)[i] = l[i]
    OBVIOUS
  <2>2. Masked \in Token
    BY DEF Token
  <2>3. /\ k \in Seq(Token) /\ Len(k) = logMaskedSize + 1
        /\ \A i \in 1 .. logMaskedSize : k[i] = l[i]
    BY <2>1, <2>2
  <2> QED
    BY <2>3 DEF Keeps
<1>3. advanceLogUnsafe(l) \in {All, Repl, Hold}
  <2> HIDE DEF k
  <2> QED BY DEF advanceLogUnsafe, k
<1> QED
  BY <1>1, <1>2, <1>3

\* The first n elements of t begin with the first m of s when these are the same.
LEMMA PrefixShown ==
  ASSUME NEW s \in Seq(Token), NEW t \in Seq(Token),
         NEW m \in 0 .. Len(s), NEW n \in m .. Len(t),
         \A i \in 1 .. m : t[i] = s[i]
  PROVE  IsPrefix(SubSeq(s, 1, m), SubSeq(t, 1, n))
<1> DEFINE u == SubSeq(s, 1, m)
           v == SubSeq(t, 1, n)
<1>1. u \in Seq(Token) /\ Len(u) = m /\ \A i \in 1 .. m : u[i] = s[i]
  OBVIOUS
<1>2. v \in Seq(Token) /\ Len(v) = n /\ \A i \in 1 .. n : v[i] = t[i]
  OBVIOUS
<1> HIDE DEF u, v
<1>3. /\ SubSeq(u, 1, m) \in Seq(Token) /\ Len(SubSeq(u, 1, m)) = m
      /\ \A i \in 1 .. m : SubSeq(u, 1, m)[i] = s[i]
  BY <1>1
<1>4. /\ SubSeq(v, 1, m) \in Seq(Token) /\ Len(SubSeq(v, 1, m)) = m
      /\ \A i \in 1 .. m : SubSeq(v, 1, m)[i] = s[i]
  BY <1>2
<1>5. SubSeq(u, 1, m) = SubSeq(v, 1, m)
  BY <1>3, <1>4
<1> QED
  BY <1>1, <1>2, <1>5 DEF IsPrefix, u, v

\* A value that begins with rest and is not rest is longer.
LEMMA LongerValue ==
  ASSUME NEW rest \in Seq(Token), NEW v \in Seq(Token), IsPrefix(rest, v), v # rest
  PROVE  Len(v) > Len(rest)
<1> SUFFICES ASSUME Len(v) = Len(rest) PROVE FALSE
  BY DEF IsPrefix
<1>1. SubSeq(rest, 1, Len(rest)) = rest /\ SubSeq(v, 1, Len(v)) = v
  BY SubSeqFull
<1> QED
  BY <1>1 DEF IsPrefix

\* At first nothing is written, shown or held back.
LEMMA BufferInitInv == Init => BufferInv
<1> SUFFICES ASSUME Init PROVE BufferInv
  OBVIOUS
<1>1. Pending = <<>>
  BY DEF Init, Pending
<1> QED
  BY <1>1 DEF Init, BufferInv, HeldBack

\* A round of process that adds a character.
LEMMA WriteRuneStep ==
  ASSUME BufferInv, NEW r \in Chars \cup {Replacement}, writeRune(r)
  PROVE  /\ log' \in Seq(Token) /\ logMaskedSize' \in logMaskedSize .. Len(log')
         /\ \A i \in 1 .. logMaskedSize : log'[i] = log[i]
         /\ ~stopped' => /\ log' = advanceLogUnsafe(Append(log, r)).log
                         /\ logMaskedSize' = advanceLogUnsafe(Append(log, r)).shown
<1> DEFINE l == Append(log, r)
           a == advanceLogUnsafe(l)
           full == LenOf(a.log) >= bytesLimit
<1>1. /\ l \in Seq(Token) /\ logMaskedSize \in 0 .. Len(l)
      /\ \A i \in 1 .. logMaskedSize : l[i] = log[i]
  BY DEF BufferInv, Token
<1>2. Keeps(l, a)
  BY <1>1, AdvanceKeeps
<1>3. /\ log' = IF full THEN Append(a.log, Exceeded) ELSE a.log
      /\ logMaskedSize' = a.shown /\ stopped' = full
  BY DEF writeRune
<1>4. Exceeded \in Token /\ logMaskedSize \in Nat
  BY DEF Token, BufferInv
<1> HIDE DEF l, a, full
<1>5. /\ a.log \in Seq(Token) /\ a.shown \in logMaskedSize .. Len(a.log)
      /\ \A i \in 1 .. logMaskedSize : a.log[i] = log[i]
  BY <1>1, <1>2 DEF Keeps
<1>6. CASE full
  <2>1. log' = Append(a.log, Exceeded)
    BY <1>3, <1>6
  <2>2. stopped'
    BY <1>3, <1>6
  <2>3. /\ log' \in Seq(Token) /\ Len(log') = Len(a.log) + 1
        /\ \A i \in 1 .. logMaskedSize : log'[i] = log[i]
    BY <2>1, <1>4, <1>5
  <2> QED
    BY <1>3, <1>4, <1>5, <2>2, <2>3
<1>7. CASE ~full
  BY <1>3, <1>5, <1>7 DEF a, l
<1> QED
  BY <1>6, <1>7

\* What advanceLogUnsafe leaves after the part that is shown.
Rest(a) == SubSeq(a.log, a.shown + 1, Len(a.log))

\* advanceLogUnsafe holds back the beginning of a value, or nothing.
LEMMA AdvanceHolds ==
  ASSUME NEW l \in Seq(Token), logMaskedSize \in 0 .. Len(l), maskTree \subseteq Seq(Chars),
         Rest(advanceLogUnsafe(l)) # <<>>
  PROVE  LET rest == Rest(advanceLogUnsafe(l))
         IN  /\ Search(rest) # {}
             /\ rest \in maskTree => \E v \in maskTree : Len(v) > Len(rest) /\ IsPrefix(rest, v)
<1> DEFINE rest == SubSeq(l, logMaskedSize + 1, Len(l))
           k    == Append(SubSeq(l, 1, logMaskedSize), Masked)
           All  == [log |-> l, shown |-> Len(l)]
           Repl == [log |-> k, shown |-> Len(k)]
           Hold == [log |-> l, shown |-> logMaskedSize]
<1>1. k \in Seq(Token)
  <2>1. SubSeq(l, 1, logMaskedSize) \in Seq(Token) /\ Masked \in Token
    BY DEF Token
  <2> QED
    BY <2>1
<1>2. Rest(All) = <<>>
  BY SubSeqEmpty DEF Rest
<1> HIDE DEF k
<1>3. Rest(Repl) = <<>>
  BY <1>1, SubSeqEmpty DEF Rest
<1>4. Rest(Hold) = rest
  BY DEF Rest
<1>5. \/ advanceLogUnsafe(l) \in {All, Repl}
      \/ advanceLogUnsafe(l) = Hold /\ Search(rest) # {} /\ Search(rest) # {rest}
  BY DEF advanceLogUnsafe, k
<1>6. advanceLogUnsafe(l) = Hold /\ Search(rest) # {} /\ Search(rest) # {rest}
  BY <1>2, <1>3, <1>5
<1>7. rest \in Seq(Token)
  OBVIOUS
<1> HIDE DEF rest, All, Repl, Hold
<1>8. ASSUME rest \in maskTree
      PROVE  \E v \in maskTree : Len(v) > Len(rest) /\ IsPrefix(rest, v)
  <2>1. PICK v \in Search(rest) : v # rest
    BY <1>6
  <2>2. v \in maskTree /\ IsPrefix(rest, v)
    BY <2>1 DEF Search
  <2>3. v \in Seq(Token)
    <3>1. v \in Seq(Chars)
      BY <2>2
    <3>2. Chars \subseteq Token
      BY DEF Token
    <3> QED
      BY <3>1, <3>2
  <2>4. Len(v) > Len(rest)
    BY <1>7, <2>1, <2>2, <2>3, LongerValue
  <2> QED
    BY <2>2, <2>4
<1> QED
  BY <1>4, <1>6, <1>8

\* A step that leaves the log alone leaves what it shows alone.
LEMMA SameBytes ==
  ASSUME BufferInv, UNCHANGED <<log, logMaskedSize>>
  PROVE  IsPrefix(Bytes, Bytes') /\ Pending' = Pending
<1>1. IsPrefix(SubSeq(log, 1, logMaskedSize), SubSeq(log, 1, logMaskedSize))
  BY PrefixShown DEF BufferInv
<1> QED
  BY <1>1 DEF Bytes, Pending

\* Values are set when nothing is held back.
LEMMA SetMaskedStep ==
  ASSUME BufferInv, SetMasked
  PROVE  BufferInv' /\ IsPrefix(Bytes, Bytes')
<1>1. maskTree' \subseteq Seq(Chars) /\ maskTree' # {}
  BY BufferAssumption DEF SetMasked
<1>2. IsPrefix(Bytes, Bytes') /\ Pending' = Pending
  BY SameBytes DEF SetMasked
<1>3. ASSUME ~stopped, ~finish PROVE Pending = <<>>
  <2>1. logMaskedSize = Len(log) /\ logMaskedSize \in Nat
    BY <1>3 DEF BufferInv, SetMasked
  <2> QED
    BY <2>1, SubSeqEmpty DEF Pending
<1>4. HeldBack'
  BY <1>2, <1>3 DEF SetMasked, HeldBack
<1> QED
  BY <1>1, <1>2, <1>4 DEF BufferInv, SetMasked

\* The writer's steps and the end of process.
LEMMA WriterStep ==
  ASSUME BufferInv, Write \/ Close
  PROVE  BufferInv' /\ IsPrefix(Bytes, Bytes')
<1>1. IsPrefix(Bytes, Bytes') /\ Pending' = Pending
  BY SameBytes DEF Write, Close
<1>2. unread' \in Seq(Chars)
  <2>1. CASE Write
    <3>1. PICK data \in BoundedSeq(Chars, MaxWrite) : unread' = data
      BY <2>1 DEF Write
    <3>2. data \in Seq(Chars)
      BY <3>1 DEF BoundedSeq, SeqOf
    <3> QED
      BY <3>1, <3>2
  <2>2. CASE Close
    BY <2>2 DEF Close, BufferInv
  <2> QED
    BY <2>1, <2>2
<1>3. UNCHANGED <<maskTree, log, logMaskedSize, stopped, finish>>
  BY DEF Write, Close
<1>4. HeldBack'
  BY <1>1, <1>3 DEF BufferInv, HeldBack, Search
<1> QED
  BY <1>1, <1>2, <1>3, <1>4 DEF BufferInv

\* At the end everything is shown.
LEMMA AdvanceAllStep ==
  ASSUME BufferInv, advanceAll
  PROVE  BufferInv' /\ IsPrefix(Bytes, Bytes')
<1>1. IsPrefix(SubSeq(log, 1, logMaskedSize), SubSeq(log, 1, Len(log)))
  BY PrefixShown DEF BufferInv
<1>2. IsPrefix(Bytes, Bytes')
  BY <1>1 DEF Bytes, advanceAll
<1> QED
  BY <1>2 DEF BufferInv, advanceAll, HeldBack

\* A round of process.
LEMMA ProcessStep ==
  ASSUME BufferInv, process
  PROVE  BufferInv' /\ IsPrefix(Bytes, Bytes')
<1>1. unread' \in Seq(Chars) /\ Head(unread) \in Chars
  BY DEF process, BufferInv
<1>2. UNCHANGED <<maskTree, finish>>
  BY DEF process
<1>3. CASE stopped /\ UNCHANGED <<log, logMaskedSize, stopped, read>>
  <2>1. IsPrefix(Bytes, Bytes') /\ Pending' = Pending
    BY <1>3, SameBytes
  <2> QED
    BY <1>1, <1>2, <1>3, <2>1 DEF BufferInv, HeldBack
<1>4. CASE ~stopped /\ writeRune(Rune(Head(unread)))
  <2> DEFINE r == Rune(Head(unread))
             l == Append(log, r)
             a == advanceLogUnsafe(l)
  <2>1. r \in Chars \cup {Replacement} /\ writeRune(r)
    BY <1>1, <1>4 DEF Rune
  <2> HIDE DEF r
  <2>2. /\ log' \in Seq(Token) /\ logMaskedSize' \in logMaskedSize .. Len(log')
        /\ \A i \in 1 .. logMaskedSize : log'[i] = log[i]
        /\ ~stopped' => log' = a.log /\ logMaskedSize' = a.shown
    BY <2>1, WriteRuneStep
  <2>3. logMaskedSize \in 0 .. Len(log) /\ log \in Seq(Token) /\ logMaskedSize' \in 0 .. Len(log')
    BY <2>2 DEF BufferInv
  <2>4. IsPrefix(Bytes, Bytes')
    <3>1. IsPrefix(SubSeq(log, 1, logMaskedSize), SubSeq(log', 1, logMaskedSize'))
      BY <2>2, <2>3, PrefixShown
    <3> QED
      BY <3>1 DEF Bytes
  <2>5. l \in Seq(Token) /\ logMaskedSize \in 0 .. Len(l)
    BY <2>1, <2>3 DEF Token
  <2> HIDE DEF l
  <2>6. (maskTree' = {} /\ ~stopped' /\ ~finish') => logMaskedSize' = Len(log')
    <3> SUFFICES ASSUME maskTree = {}, ~stopped' PROVE logMaskedSize' = Len(log')
      BY <1>2
    <3>1. Search(SubSeq(l, logMaskedSize + 1, Len(l))) = {}
      BY DEF Search
    <3>2. a = [log |-> l, shown |-> Len(l)]
      BY <3>1 DEF advanceLogUnsafe
    <3> QED
      BY <2>2, <3>2
  <2>7. HeldBack'
    <3> SUFFICES ASSUME ~stopped', Pending' # <<>>
                 PROVE  /\ Search(Pending)' # {}
                        /\ Pending' \in maskTree' =>
                             \E v \in maskTree' : Len(v) > Len(Pending') /\ IsPrefix(Pending', v)
      BY DEF HeldBack
    <3>1. Pending' = Rest(a)
      BY <2>2 DEF Pending, Rest
    <3>2. maskTree \subseteq Seq(Chars)
      BY DEF BufferInv
    <3>3. /\ Search(Rest(a)) # {}
          /\ Rest(a) \in maskTree =>
               \E v \in maskTree : Len(v) > Len(Rest(a)) /\ IsPrefix(Rest(a), v)
      BY <2>5, <3>1, <3>2, AdvanceHolds
    <3>4. Search(Pending)' = Search(Rest(a))
      BY <1>2, <3>1 DEF Search
    <3> HIDE DEF a
    <3> QED
      BY <1>2, <3>1, <3>3, <3>4
  <2> QED
    BY <1>1, <1>2, <2>2, <2>3, <2>4, <2>6, <2>7 DEF BufferInv
<1> QED
  BY <1>3, <1>4 DEF process

\* Every step keeps the invariant and what is shown.
LEMMA BufferStep == BufferInv /\ [Next]_vars => BufferInv' /\ IsPrefix(Bytes, Bytes')
<1> SUFFICES ASSUME BufferInv, [Next]_vars PROVE BufferInv' /\ IsPrefix(Bytes, Bytes')
  OBVIOUS
<1>1. CASE UNCHANGED vars
  <2>1. IsPrefix(Bytes, Bytes') /\ Pending' = Pending
    BY <1>1, SameBytes DEF vars
  <2> QED
    BY <1>1, <2>1 DEF BufferInv, HeldBack, Search, vars
<1> QED
  BY <1>1, SetMaskedStep, WriterStep, AdvanceAllStep, ProcessStep DEF Next

\* Whatever the build writes, in whatever pieces, and whatever values are masked: only
\* the beginning of a value is held back (advanceLogUnsafe).
THEOREM OnlyBeginningsHeldBack == Spec => []HeldBack
<1>1. BufferInv => HeldBack
  BY DEF BufferInv
<1> QED
  BY <1>1, BufferInitInv, BufferStep, PTL DEF Spec

\* The text that Bytes has shown is never taken back or changed: the offsets under which
\* the job's trace has sent it stay good.
THEOREM ShownNeverChanges == Spec => ShownStays
<1>1. BufferInv /\ [Next]_vars => [IsPrefix(Bytes, Bytes')]_vars
  BY BufferStep
<1> QED
  BY <1>1, BufferInitInv, BufferStep, PTL DEF Spec, ShownStays
=============================================================================

-------------------------- MODULE SyncLoggerProofs --------------------------
(***************************************************************************)
(* The files of a synchronous logger's sink hold the messages in the order *)
(* the sink was given them, for every number of threads, files, failures   *)
(* and crashes, every size and every rotation time; a crash loses nothing  *)
(* that was flushed; dumps of the backtracer keep the order of calls; no   *)
(* file outgrows its size but by a single message; and without failures    *)
(* nothing but the oldest messages is missing.                             *)
(***************************************************************************)
EXTENDS SyncLogger, CircularQProofs, FiniteSetTheorems, SequenceTheorems, WellFoundedInduction

-----------------------------------------------------------------------------
(* Data                                                                    *)

\* Days follow the clock.
LEMMA DayMonotone ==
  ASSUME NEW s \in Nat, NEW t \in Nat, s <= t
  PROVE  Day(s) \in Nat /\ Day(t) \in Nat /\ Day(s) <= Day(t)
<1>1. DayLength \in Nat /\ DayLength > 0
  BY DailyAssumption
<1>. QED
  BY <1>1 DEF Day

\* The contents of the files are sequences, those of a missing file empty.
LEMMA ContentType ==
  ASSUME disk \in [Names -> Seq(Nat) \cup {NoFile}], NEW a \in Names
  PROVE  Content(a) \in Seq(Nat)
BY DEF Content, Exists

\* The elements of a sequence that another one was appended to.
LEMMA Concatenation ==
  ASSUME NEW s \in Seq(Nat), NEW t \in Seq(Nat)
  PROVE  /\ s \o t \in Seq(Nat) /\ DOMAIN (s \o t) = 1..(Len(s) + Len(t))
         /\ Len(s) \in Nat /\ Len(t) \in Nat
OBVIOUS

\* The next rotation is after the clock, on its day or later.
LEMMA NextRotationLater ==
  ASSUME now \in Nat
  PROVE  NextRotation \in Nat /\ NextRotation > now
<1>1. DayLength \in Nat /\ DayLength > 0 /\ RotationAt \in Nat /\ RotationAt < DayLength
  BY DailyAssumption
<1>. QED
  BY <1>1 DEF NextRotation, Day

-----------------------------------------------------------------------------
(* The order of the files                                                  *)

FilesOK ==
  /\ disk \in [Names -> Seq(Nat) \cup {NoFile}]
  /\ fd \in Names \cup {NoName} /\ (fd # NoName => Exists(fd))
  /\ buffer \in Seq(Nat) /\ (fd = NoName => buffer = <<>>)

\* The messages of file a are older than those of file b.
Older(a, b) == IF sink = "rotating" THEN a > b /\ a <= MaxFiles ELSE a < b

Ordered ==
  /\ \A a \in Names : Sorted(Content(a))
  /\ \A a, b \in Names : Older(a, b) => Before(a, b)

\* The buffer is newer than the files.
BufferNewest ==
  /\ Sorted(buffer)
  /\ \A a \in Names : \A x \in DOMAIN Content(a), y \in DOMAIN buffer :
       Content(a)[x] < buffer[y]

\* Message k is neither in a file nor in the buffer.
Absent(k) ==
  /\ \A a \in Names : \A x \in DOMAIN Content(a) : Content(a)[x] # k
  /\ \A y \in DOMAIN buffer : buffer[y] # k

\* The files and the buffer hold what the sink was given.
Past == \A k \in Nat : k > Len(given) => Absent(k)

FInv == FilesOK /\ Ordered /\ BufferNewest /\ Past

\* A step that writes no message, and no file but the one that is open.
NoNewData ==
  /\ \A k \in Nat : Absent(k) => Absent(k)'
  /\ \A a \in Names : Content(a)' # <<>> => Content(a) # <<>> \/ a = fd

\* No file is newer than the one that is open.
OpenIsNewest ==
  fd # NoName => \A a \in Names : Older(fd, a) => Content(a) = <<>>

\* The order is kept by what empties or removes files, or drops the buffer.
LEMMA OrderShrinks ==
  ASSUME FilesOK, Ordered, BufferNewest, bounds' = bounds,
         \A a \in Names : Content(a)' \in {Content(a), <<>>},
         buffer' \in {buffer, <<>>}
  PROVE  Ordered' /\ BufferNewest' /\ NoNewData
<1>1. \A a, b \in Names : Older(a, b)' <=> Older(a, b)
  BY DEF Older, sink
<1>2. \A a \in Names : Sorted(Content(a))'
  BY DEF Ordered, Sorted
<1>3. ASSUME NEW a \in Names, NEW b \in Names, Older(a, b)' PROVE Before(a, b)'
  BY <1>1, <1>3 DEF Ordered, Before
<1>4. BufferNewest'
  BY DEF BufferNewest, Sorted
<1>5. NoNewData
  BY DEF NoNewData, Absent
<1>. QED
  BY <1>1, <1>2, <1>3, <1>4, <1>5 DEF Ordered

\* Part of the buffer reaches the file that is open; the rest stays or is lost.
LEMMA OrderWritten ==
  ASSUME FilesOK, Ordered, BufferNewest, OpenIsNewest, bounds' = bounds,
         NEW n \in 0..Len(buffer), disk' = Written(n),
         buffer' \in {<<>>, SubSeq(buffer, n + 1, Len(buffer))}
  PROVE  /\ Ordered' /\ BufferNewest' /\ NoNewData
         /\ disk' \in [Names -> Seq(Nat) \cup {NoFile}] /\ buffer' \in Seq(Nat)
         /\ \A a \in Names : Exists(a)' <=> Exists(a)
         /\ \A a \in Names : a # fd => Content(a)' = Content(a)
<1>. DEFINE part == SubSeq(buffer, 1, n)
<1>1. /\ part \in Seq(Nat) /\ Len(part) = n /\ Len(buffer) \in Nat
      /\ \A y \in 1..n : part[y] = buffer[y] /\ y \in DOMAIN buffer
  BY DEF FilesOK
<1>2. /\ buffer' \in Seq(Nat)
      /\ \A y \in DOMAIN buffer' :
           y \in Nat /\ y > 0 /\ n + y \in DOMAIN buffer /\ buffer'[y] = buffer[n + y]
  <2>1. CASE buffer' = <<>>
    BY <2>1
  <2>2. CASE buffer' = SubSeq(buffer, n + 1, Len(buffer))
    <3>1. Len(buffer) \in Nat /\ n \in Nat /\ n <= Len(buffer) /\ buffer \in Seq(Nat)
      BY DEF FilesOK
    <3>. HIDE DEF part
    <3>2. buffer' \in Seq(Nat) /\ DOMAIN buffer' = 1..(Len(buffer) - n)
      BY <2>2, <3>1
    <3>3. ASSUME NEW y \in 1..(Len(buffer) - n)
          PROVE  buffer'[y] = buffer[n + y] /\ n + y \in DOMAIN buffer
      BY <2>2, <3>1
    <3>4. ASSUME NEW y \in DOMAIN buffer'
          PROVE  y \in Nat /\ y > 0 /\ n + y \in DOMAIN buffer /\ buffer'[y] = buffer[n + y]
      <4>1. y \in 1..(Len(buffer) - n)
        BY <3>2, <3>4
      <4>2. y \in Nat /\ y > 0
        BY <3>1, <4>1
      <4>. QED
        BY <3>3, <4>1, <4>2
    <3>. QED
      BY <3>2, <3>4
  <2>. QED
    BY <2>1, <2>2
<1>3. disk' \in [Names -> Seq(Nat) \cup {NoFile}]
  <2>1. CASE fd = NoName
    BY <2>1 DEF Written, FilesOK
  <2>2. CASE fd # NoName
    <3>1. disk[fd] \in Seq(Nat) /\ fd \in Names
      BY <2>2 DEF FilesOK, Exists
    <3>2. disk[fd] \o part \in Seq(Nat)
      BY <1>1, <3>1
    <3>. QED
      BY <2>2, <3>1, <3>2 DEF Written, FilesOK
  <2>. QED
    BY <2>1, <2>2
<1>4. /\ \A a \in Names : a # fd => Content(a)' = Content(a) /\ (Exists(a)' <=> Exists(a))
      /\ \A a \in Names : a = fd => /\ Content(a)' = Content(a) \o part
                                  /\ Exists(a)' /\ Exists(a)
  <2>1. CASE fd = NoName
    BY <2>1, FileAssumption DEF Written, Content, Exists
  <2>2. CASE fd # NoName
    <3>1. disk[fd] \in Seq(Nat) /\ fd \in Names /\ Exists(fd)
      BY <2>2 DEF FilesOK, Exists
    <3>2. disk[fd] \o part \in Seq(Nat)
      BY <1>1, <3>1
    <3>3. disk' = [disk EXCEPT ![fd] = disk[fd] \o part]
      BY <2>2 DEF Written
    <3>4. disk[fd] \o part # NoFile
      BY <3>2, FileAssumption
    <3>5. disk'[fd] = disk[fd] \o part /\ \A a \in Names : a # fd => disk'[a] = disk[a]
      BY <3>1, <3>3 DEF FilesOK
    <3>6. ASSUME NEW a \in Names, a = fd
          PROVE  Content(a)' = Content(a) \o part /\ Exists(a)'
      BY <3>1, <3>4, <3>5, <3>6 DEF Content, Exists
    <3>7. ASSUME NEW a \in Names, a # fd
          PROVE  Content(a)' = Content(a) /\ (Exists(a)' <=> Exists(a))
      BY <3>5, <3>7 DEF Content, Exists
    <3>. QED
      BY <3>1, <3>6, <3>7
  <2>. QED
    BY <2>1, <2>2
<1>. HIDE DEF part
<1>5. \A a \in Names : Content(a) \in Seq(Nat)
  BY ContentType DEF FilesOK
<1>6. ASSUME NEW a \in Names, NEW x \in DOMAIN Content(a)'
      PROVE  \/ x \in DOMAIN Content(a) /\ Content(a)'[x] = Content(a)[x]
             \/ /\ a = fd /\ x > Len(Content(a)) /\ x - Len(Content(a)) \in 1..n
                /\ Content(a)'[x] = buffer[x - Len(Content(a))]
  <2>1. CASE a # fd
    BY <1>4, <2>1
  <2>2. CASE a = fd
    <3>1. Content(a)' = Content(a) \o part /\ Content(a) \in Seq(Nat)
      BY <1>4, <1>5, <2>2
    <3>2. Len(Content(a)) \in Nat /\ DOMAIN Content(a)' = 1..(Len(Content(a)) + n)
      BY <1>1, <3>1, Concatenation
    <3>3. x \in 1..(Len(Content(a)) + n)
      BY <1>6, <3>2
    <3>4. CASE x <= Len(Content(a))
      BY <3>1, <3>2, <3>3, <3>4
    <3>5. CASE x > Len(Content(a))
      <4>1. x - Len(Content(a)) \in 1..n
        BY <3>2, <3>3, <3>5
      <4>2. Content(a)'[x] = part[x - Len(Content(a))]
        BY <1>1, <3>1, <3>2, <3>3, <3>5
      <4>. QED
        BY <1>1, <2>2, <3>5, <4>1, <4>2
    <3>. QED
      BY <3>2, <3>3, <3>4, <3>5
  <2>. QED
    BY <2>1, <2>2
<1>7. ASSUME NEW a \in Names PROVE Sorted(Content(a)')
  <2>. SUFFICES ASSUME NEW x \in DOMAIN Content(a)', NEW y \in DOMAIN Content(a)', x < y
                PROVE  Content(a)'[x] < Content(a)'[y]
    BY DEF Sorted
  <2>1. Len(Content(a)) \in Nat /\ DOMAIN Content(a) = 1..Len(Content(a))
    BY <1>5
  <2>2. CASE y \in DOMAIN Content(a) /\ Content(a)'[y] = Content(a)[y]
    <3>1. x \in Nat /\ x > 0
      <4>1. Content(a)' \in Seq(Nat)
        BY <1>1, <1>4, <1>5, Concatenation
      <4>. QED
        BY <4>1
    <3>2. x \in DOMAIN Content(a) /\ ~(x > Len(Content(a)))
      BY <2>1, <2>2, <3>1
    <3>3. Content(a)'[x] = Content(a)[x]
      BY <1>6, <3>2
    <3>4. Sorted(Content(a))
      BY DEF Ordered
    <3>. QED
      BY <2>2, <3>2, <3>3, <3>4 DEF Sorted
  <2>3. CASE a = fd /\ y - Len(Content(a)) \in 1..n /\ Content(a)'[y] = buffer[y - Len(Content(a))]
    <3>1. y - Len(Content(a)) \in DOMAIN buffer
      BY <1>1, <2>3
    <3>2. CASE x \in DOMAIN Content(a) /\ Content(a)'[x] = Content(a)[x]
      BY <2>3, <3>1, <3>2 DEF BufferNewest
    <3>3. CASE x - Len(Content(a)) \in 1..n /\ Content(a)'[x] = buffer[x - Len(Content(a))]
      <4>1. x \in Nat /\ y \in Nat
        <5>1. Content(a)' \in Seq(Nat)
          BY <1>1, <1>4, <1>5, Concatenation
        <5>. QED
          BY <5>1
      <4>2. x - Len(Content(a)) < y - Len(Content(a))
        BY <2>1, <4>1
      <4>. QED
        BY <1>1, <2>3, <3>1, <3>3, <4>2 DEF BufferNewest, Sorted
    <3>. QED
      BY <1>6, <3>2, <3>3
  <2>. QED
    BY <1>6, <2>2, <2>3
<1>8. ASSUME NEW a \in Names, NEW b \in Names, Older(a, b)' PROVE Before(a, b)'
  <2>1. Older(a, b) /\ Before(a, b)
    BY <1>8 DEF Older, sink, Ordered
  <2>2. a # b
    BY <2>1, FileAssumption DEF Older
  <2>3. CASE a = fd
    BY <1>4, <1>5, <2>1, <2>2, <2>3, FileAssumption DEF OpenIsNewest, Before
  <2>4. CASE a # fd
    <3>. SUFFICES ASSUME NEW x \in DOMAIN Content(a)', NEW y \in DOMAIN Content(b)'
                  PROVE  Content(a)'[x] < Content(b)'[y]
      BY DEF Before
    <3>1. x \in DOMAIN Content(a) /\ Content(a)'[x] = Content(a)[x]
      BY <1>6, <2>4
    <3>. QED
      BY <1>1, <1>6, <2>1, <3>1 DEF Before, BufferNewest
  <2>. QED
    BY <2>3, <2>4
<1>9. BufferNewest'
  <2>1. Sorted(buffer')
    BY <1>1, <1>2 DEF BufferNewest, Sorted
  <2>2. ASSUME NEW a \in Names, NEW x \in DOMAIN Content(a)', NEW y \in DOMAIN buffer'
        PROVE  Content(a)'[x] < buffer'[y]
    <3>1. n + y \in DOMAIN buffer /\ buffer'[y] = buffer[n + y] /\ y > 0 /\ y \in Nat
      BY <1>2
    <3>2. CASE x \in DOMAIN Content(a) /\ Content(a)'[x] = Content(a)[x]
      BY <3>1, <3>2 DEF BufferNewest
    <3>3. CASE x - Len(Content(a)) \in 1..n /\ Content(a)'[x] = buffer[x - Len(Content(a))]
      BY <1>1, <3>1, <3>3 DEF BufferNewest, Sorted
    <3>. QED
      BY <1>6, <3>2, <3>3
  <2>. QED
    BY <2>1, <2>2 DEF BufferNewest
<1>10. Ordered'
  <2>1. \A a \in Names : Sorted(Content(a))'
    BY <1>7 DEF Sorted
  <2>2. \A a, b \in Names : Older(a, b)' => Before(a, b)'
    BY <1>8
  <2>. QED
    BY <2>1, <2>2 DEF Ordered
<1>11. NoNewData
  <2>1. ASSUME NEW k \in Nat, Absent(k) PROVE Absent(k)'
    <3>1. ASSUME NEW a \in Names, NEW x \in DOMAIN Content(a)' PROVE Content(a)'[x] # k
      BY <1>1, <1>6, <2>1 DEF Absent
    <3>2. \A y \in DOMAIN buffer' : buffer'[y] # k
      BY <1>2, <2>1 DEF Absent
    <3>. QED
      BY <3>1, <3>2 DEF Absent
  <2>. QED
    BY <1>4, <2>1 DEF NoNewData
<1>. QED
  BY <1>2, <1>3, <1>4, <1>9, <1>10, <1>11

\* The message under way is written to the buffer.
LEMMA OrderAppends ==
  ASSUME FInv, Absent(msg), msg = Len(given), msg \in Nat,
         UNCHANGED <<disk, fd, bounds, given>>, buffer' = Append(buffer, msg)
  PROVE  Ordered' /\ BufferNewest' /\ Past' /\ buffer' \in Seq(Nat)
<1>. USE DEF FInv
<1>1. /\ buffer' \in Seq(Nat) /\ buffer \in Seq(Nat) /\ Len(buffer) \in Nat
      /\ DOMAIN buffer' = 1..(Len(buffer) + 1) /\ DOMAIN buffer = 1..Len(buffer)
      /\ buffer'[Len(buffer) + 1] = msg
      /\ \A y \in 1..Len(buffer) : buffer'[y] = buffer[y] /\ buffer[y] \in Nat
  BY DEF FilesOK
<1>2. /\ \A a \in Names : Content(a)' = Content(a) /\ Content(a) \in Seq(Nat)
      /\ \A a, b \in Names : (Older(a, b)' <=> Older(a, b)) /\ (Before(a, b)' <=> Before(a, b))
  BY ContentType DEF FilesOK, Content, Exists, Older, sink, Before
<1>3. \A y \in 1..Len(buffer) : buffer[y] < msg
  BY <1>1 DEF Past, Absent
<1>4. \A a \in Names : \A x \in DOMAIN Content(a) : Content(a)[x] < msg
  <2>. SUFFICES ASSUME NEW a \in Names, NEW x \in DOMAIN Content(a) PROVE Content(a)[x] < msg
    OBVIOUS
  <2>1. Content(a)[x] \in Nat
    BY <1>2
  <2>2. ~(Content(a)[x] > Len(given))
    BY <2>1 DEF Past, Absent
  <2>3. Content(a)[x] # msg
    BY DEF Absent
  <2>. QED
    BY <2>1, <2>2, <2>3
<1>5. Sorted(buffer')
  BY <1>1, <1>3 DEF Sorted, BufferNewest
<1>6. BufferNewest'
  BY <1>1, <1>2, <1>4, <1>5 DEF BufferNewest
<1>7. Ordered'
  BY <1>2 DEF Ordered
<1>8. Past'
  BY <1>1, <1>2 DEF Past, Absent
<1>. QED
  BY <1>1, <1>6, <1>7, <1>8

\* File i - 1 becomes file i, in the place of what file i was.
LEMMA OrderRenamed ==
  ASSUME FilesOK, Ordered, BufferNewest, sink = "rotating", bounds' = bounds,
         index \in 1..MaxFiles, Exists(index - 1), buffer' = buffer,
         disk' = [disk EXCEPT ![index] = disk[index - 1], ![index - 1] = NoFile]
  PROVE  /\ Ordered' /\ BufferNewest'
         /\ \A k \in Nat : Absent(k) => Absent(k)'
         /\ disk' \in [Names -> Seq(Nat) \cup {NoFile}]
<1>1. index \in Names /\ index - 1 \in Names /\ index # index - 1 /\ Names \subseteq Nat
      /\ index \in Nat /\ MaxFiles \in Nat
  BY RotatingAssumption, FileAssumption
<1>2. /\ disk' \in [Names -> Seq(Nat) \cup {NoFile}]
      /\ disk'[index] = disk[index - 1] /\ disk'[index - 1] = NoFile
      /\ \A a \in Names : a # index /\ a # index - 1 => disk'[a] = disk[a]
  BY <1>1 DEF FilesOK
<1>3. ASSUME NEW a \in Names
      PROVE  /\ a = index => Content(a)' = Content(index - 1)
             /\ a = index - 1 => Content(a)' = <<>>
             /\ a # index /\ a # index - 1 => Content(a)' = Content(a)
  BY <1>1, <1>2 DEF Content, Exists
<1>4. \A a \in Names : Sorted(Content(a)')
  BY <1>1, <1>3 DEF Ordered, Sorted
<1>5. ASSUME NEW a \in Names, NEW b \in Names, Older(a, b)' PROVE Before(a, b)'
  <2>1. a > b /\ a <= MaxFiles
    BY <1>5 DEF Older, sink
  <2>2. CASE a = index
    <3>1. CASE b = index - 1
      BY <1>3, <3>1 DEF Before
    <3>2. CASE b # index - 1
      <4>1. Older(index - 1, b)
        BY <1>1, <2>1, <2>2, <3>2 DEF Older
      <4>. QED
        BY <1>1, <1>3, <2>1, <2>2, <3>2, <4>1 DEF Ordered, Before
    <3>. QED
      BY <3>1, <3>2
  <2>3. CASE a = index - 1
    BY <1>3, <2>3 DEF Before
  <2>4. CASE a # index /\ a # index - 1
    <3>1. Before(a, b)
      BY <2>1 DEF Older, Ordered
    <3>2. CASE b = index
      <4>1. Older(a, index - 1)
        BY <1>1, <2>1, <3>2 DEF Older
      <4>. QED
        BY <1>1, <1>3, <2>4, <3>2, <4>1 DEF Ordered, Before
    <3>3. CASE b = index - 1
      BY <1>3, <3>3 DEF Before
    <3>4. CASE b # index /\ b # index - 1
      BY <1>3, <2>4, <3>1, <3>4 DEF Before
    <3>. QED
      BY <3>2, <3>3, <3>4
  <2>. QED
    BY <2>2, <2>3, <2>4
<1>6. BufferNewest'
  BY <1>1, <1>3 DEF BufferNewest
<1>7. Ordered'
  <2>1. \A a \in Names : Sorted(Content(a))'
    BY <1>4 DEF Sorted
  <2>. QED
    BY <1>5, <2>1 DEF Ordered
<1>8. \A k \in Nat : Absent(k) => Absent(k)'
  <2>1. ASSUME NEW k \in Nat, Absent(k), NEW a \in Names, NEW x \in DOMAIN Content(a)'
        PROVE  Content(a)'[x] # k
    BY <1>1, <1>3, <2>1 DEF Absent
  <2>. QED
    BY <2>1 DEF Absent
<1>. QED
  BY <1>2, <1>6, <1>7, <1>8

-----------------------------------------------------------------------------
(* What the operations of file_helper do to the order                      *)

\* Part of the buffer reaches the disk; the file may be closed then.
LEMMA WrittenKeeps ==
  ASSUME FInv, OpenIsNewest, UNCHANGED <<bounds, given>>,
         NEW n \in 0..Len(buffer), disk' = Written(n),
         buffer' \in {<<>>, SubSeq(buffer, n + 1, Len(buffer))},
         fd' = fd \/ (fd' = NoName /\ buffer' = <<>>)
  PROVE  FInv' /\ OpenIsNewest' /\ NoNewData
<1>. USE DEF FInv
<1>1. /\ Ordered' /\ BufferNewest' /\ NoNewData
      /\ disk' \in [Names -> Seq(Nat) \cup {NoFile}] /\ buffer' \in Seq(Nat)
      /\ \A a \in Names : Exists(a)' <=> Exists(a)
      /\ \A a \in Names : a # fd => Content(a)' = Content(a)
  BY OrderWritten
<1>2. fd' \in Names \cup {NoName} /\ (fd' # NoName => fd' = fd)
  BY DEF FilesOK
<1>3. fd' # NoName => disk'[fd'] # NoFile
  BY <1>1, <1>2 DEF FilesOK, Exists
<1>4. fd' = NoName => buffer' = <<>>
  <2>1. CASE fd = NoName
    <3>1. buffer = <<>> /\ n = 0
      BY <2>1 DEF FilesOK
    <3>. QED
      BY <3>1
  <2>2. CASE fd # NoName
    BY <2>2
  <2>. QED
    BY <2>1, <2>2
<1>5. FilesOK'
  BY <1>1, <1>2, <1>3, <1>4 DEF FilesOK, Exists
<1>6. Past'
  BY <1>1 DEF Past, NoNewData
<1>7. OpenIsNewest'
  <2>. SUFFICES ASSUME fd' # NoName, NEW a \in Names, Older(fd, a)'
                PROVE  Content(a)' = <<>>
    BY DEF OpenIsNewest
  <2>1. fd' = fd /\ Older(fd, a)
    BY <1>2 DEF Older, sink
  <2>2. a # fd
    BY <2>1, <1>2, FileAssumption DEF Older
  <2>. QED
    BY <1>1, <2>1, <2>2 DEF OpenIsNewest
<1>. QED
  BY <1>1, <1>5, <1>6, <1>7

\* flush, whether it succeeds or not.
LEMMA FlushKeeps ==
  ASSUME FInv, OpenIsNewest, UNCHANGED <<bounds, given>>, FlushFile \/ FlushFails
  PROVE  FInv' /\ OpenIsNewest' /\ NoNewData /\ fd' = fd
<1>1. Len(buffer) \in 0..Len(buffer)
  BY DEF FInv, FilesOK
<1>2. CASE FlushFile
  BY <1>1, <1>2, WrittenKeeps DEF FlushFile
<1>3. CASE FlushFails
  BY <1>3, WrittenKeeps DEF FlushFails
<1>. QED
  BY <1>2, <1>3

\* close, whatever fclose returned.
LEMMA CloseKeeps ==
  ASSUME FInv, OpenIsNewest, UNCHANGED <<bounds, given>>, CloseFile
  PROVE  FInv' /\ OpenIsNewest' /\ NoNewData /\ fd' = NoName
<1>1. Len(buffer) \in 0..Len(buffer)
  BY DEF FInv, FilesOK
<1>2. \E n \in 0..Len(buffer) : disk' = Written(n)
  BY <1>1 DEF CloseFile
<1>. QED
  BY <1>2, WrittenKeeps DEF CloseFile

\* The death of the process.
LEMMA DieKeeps ==
  ASSUME FInv, OpenIsNewest, bounds' = bounds, Die
  PROVE  FInv' /\ OpenIsNewest' /\ NoNewData /\ fd' = NoName
BY WrittenKeeps DEF Die

\* What Opened does to the contents of the files.
LEMMA OpenedContents ==
  ASSUME FilesOK, NEW name \in Names, NEW truncate \in BOOLEAN,
         disk' = Opened(name, truncate)
  PROVE  /\ disk' \in [Names -> Seq(Nat) \cup {NoFile}]
         /\ \A a \in Names : Content(a)' \in {Content(a), <<>>}
         /\ \A a \in Names : Exists(a) => Exists(a)'
         /\ Exists(name)'
<1>1. <<>> \in Seq(Nat) /\ <<>> # NoFile
  <2>1. <<>> \in Seq(Nat)
    OBVIOUS
  <2>. QED
    BY <2>1, FileAssumption
<1>2. disk' \in [Names -> Seq(Nat) \cup {NoFile}]
  BY <1>1 DEF Opened, FilesOK
<1>3. \A a \in Names : a # name => disk'[a] = disk[a]
  BY DEF Opened, FilesOK
<1>4. disk'[name] = IF truncate \/ disk[name] = NoFile THEN <<>> ELSE disk[name]
  BY DEF Opened, FilesOK
<1>. QED
  BY <1>1, <1>2, <1>3, <1>4 DEF Content, Exists

\* open of a file that no other is newer than, by a helper without a file.
LEMMA OpenKeeps ==
  ASSUME FInv, UNCHANGED <<bounds, given>>, fd = NoName,
         NEW name \in Names, NEW truncate \in BOOLEAN, OpenFile(name, truncate),
         \A a \in Names : Older(name, a) => Content(a) = <<>>
  PROVE  FInv' /\ OpenIsNewest' /\ NoNewData /\ fd' = name
<1>. USE DEF FInv
<1>1. disk' = Opened(name, truncate) /\ fd' = name /\ buffer' = buffer
  BY DEF OpenFile
<1>2. /\ disk' \in [Names -> Seq(Nat) \cup {NoFile}]
      /\ \A a \in Names : Content(a)' \in {Content(a), <<>>}
      /\ Exists(name)'
  BY <1>1, OpenedContents
<1>3. Ordered' /\ BufferNewest' /\ NoNewData
  BY <1>1, <1>2, OrderShrinks
<1>4. FilesOK'
  BY <1>1, <1>2, FileAssumption DEF FilesOK, Exists
<1>5. Past'
  BY <1>3 DEF Past, NoNewData
<1>6. OpenIsNewest'
  BY <1>1, <1>2 DEF OpenIsNewest, Older, sink
<1>. QED
  BY <1>1, <1>3, <1>4, <1>5, <1>6

\* What leaves every file as it was or empty, or removes one that is not open.
LEMMA RemovalKeeps ==
  ASSUME FInv, OpenIsNewest, UNCHANGED <<bounds, given, fd, buffer>>,
         disk' \in [Names -> Seq(Nat) \cup {NoFile}],
         \A a \in Names : Content(a)' \in {Content(a), <<>>},
         \A a \in Names : a = fd /\ Exists(a) => Exists(a)'
  PROVE  FInv' /\ OpenIsNewest' /\ NoNewData
<1>. USE DEF FInv
<1>1. Ordered' /\ BufferNewest' /\ NoNewData
  BY OrderShrinks
<1>2. FilesOK'
  BY DEF FilesOK, Exists
<1>3. Past'
  BY <1>1 DEF Past, NoNewData
<1>4. OpenIsNewest'
  BY DEF OpenIsNewest, Older, sink
<1>. QED
  BY <1>1, <1>2, <1>3, <1>4

\* A failed open may have truncated the file.
LEMMA OpenFailsKeeps ==
  ASSUME FInv, OpenIsNewest, UNCHANGED <<bounds, given>>,
         NEW name \in Names, NEW truncate \in BOOLEAN, OpenFails(name, truncate)
  PROVE  FInv' /\ OpenIsNewest' /\ NoNewData /\ fd' = fd
<1>1. disk' \in {disk, Opened(name, TRUE)} /\ fd' = fd /\ buffer' = buffer
  BY DEF OpenFails
<1>2. CASE disk' = disk
  BY <1>1, <1>2, RemovalKeeps DEF FInv, FilesOK, Content, Exists
<1>3. CASE disk' = Opened(name, TRUE)
  BY <1>1, <1>3, OpenedContents, RemovalKeeps DEF FInv
<1>. QED
  BY <1>1, <1>2, <1>3

\* write, whether it succeeds or not, of the message given last.
LEMMA WriteKeeps ==
  ASSUME FInv, OpenIsNewest, UNCHANGED <<bounds, given>>,
         msg = Len(given), msg \in Nat, Absent(msg), WriteMessage \/ WriteFails
  PROVE  /\ FInv' /\ OpenIsNewest' /\ fd' = fd
         /\ \A a \in Names : Content(a)' = Content(a)
<1>. USE DEF FInv
<1>1. disk' = disk /\ fd' = fd /\ buffer' \in {buffer, Append(buffer, msg)}
  BY DEF WriteMessage, WriteFails
<1>2. \A a \in Names : Content(a)' = Content(a) /\ (Exists(a)' <=> Exists(a))
  BY <1>1 DEF Content, Exists
<1>3. OpenIsNewest'
  BY <1>1, <1>2 DEF OpenIsNewest, Older, sink
<1>4. CASE buffer' = buffer
  BY <1>1, <1>2, <1>3, <1>4, RemovalKeeps, FileAssumption DEF FilesOK
<1>5. CASE buffer' # buffer
  <2>1. fd # NoName /\ buffer' = Append(buffer, msg)
    BY <1>1, <1>5 DEF WriteMessage, WriteFails
  <2>2. Ordered' /\ BufferNewest' /\ Past' /\ buffer' \in Seq(Nat)
    BY <1>1, <2>1, OrderAppends
  <2>3. FilesOK'
    BY <1>1, <2>1, <2>2 DEF FilesOK, Exists
  <2>. QED
    BY <1>1, <1>2, <1>3, <2>2, <2>3
<1>. QED
  BY <1>4, <1>5

-----------------------------------------------------------------------------
(* The inductive invariant                                                 *)

\* Where the call in the sink has not written its message yet.
Waiting == {"flush", "rotate", "rename", "rename_failed", "write",
            "close", "open", "write_rotated"}

\* The call in the sink is that of the message given last, which is not in
\* the files before it writes it; the constructor has number 0.
SinkOK ==
  /\ msg \in 0..Len(given)
  /\ step = "down" => msg = 0
  /\ step \in {"down", "rename", "rename_failed", "open"} => fd = NoName
  /\ step \in {"flush", "write", "close", "open", "write_rotated"} => msg # 0
  /\ step \in Waiting /\ msg # 0 => msg = Len(given) /\ Absent(msg)

\* A rotating sink writes to file 0.
RotatingOK ==
  sink = "rotating" =>
    /\ step \in {"down", "idle", "flush", "rotate", "rename", "rename_failed", "write"}
    /\ fd \in {0, NoName} /\ index \in 0..MaxFiles

InUse(a) == Content(a) # <<>> \/ a = fd

\* A daily sink uses no file of a day to come, and none after the day of the
\* next rotation: a message that rotates opens the newest file.
DailyOK ==
  sink = "daily" =>
    /\ step \in {"down", "schedule", "list", "idle", "close", "open", "write",
                "write_rotated", "delete_old"}
    /\ rotationTp \in Nat
    /\ \A a \in Names : InUse(a) =>
         a <= Day(now) /\ (step \notin {"down", "schedule"} => a <= Day(rotationTp))
    /\ step \in {"close", "open"} => rotationTp <= given[msg].time

OrderInv == FInv /\ OpenIsNewest /\ SinkOK /\ RotatingOK /\ DailyOK

\* A step of the sink that writes nothing new leaves the message of the call
\* where it was.
LEMMA StillAbsent ==
  ASSUME SinkOK, Len(given) \in Nat, UNCHANGED <<msg, given>>, NoNewData,
         step \in Waiting
  PROVE  msg' # 0 => msg' = Len(given') /\ Absent(msg)'
<1>. SUFFICES ASSUME msg # 0 PROVE msg = Len(given) /\ Absent(msg)'
  OBVIOUS
<1>1. msg = Len(given) /\ Absent(msg) /\ msg \in Nat
  BY DEF SinkOK
<1>2. \A k \in Nat : Absent(k) => Absent(k)'
  BY DEF NoNewData
<1>3. msg' = msg
  OBVIOUS
<1>. QED
  BY <1>1, <1>2, <1>3 DEF Absent

-----------------------------------------------------------------------------
(* The rotating sink                                                       *)

\* The constructor of the rotating sink.
LEMMA ROpenOK ==
  ASSUME OrderInv, sink = "rotating", bounds' = bounds, Len(given) \in Nat,
         ROpen \/ ROpenFails
  PROVE  FInv' /\ OpenIsNewest' /\ SinkOK' /\ RotatingOK'
<1>. USE DEF OrderInv
<1>1. 0 \in Names /\ MaxFiles \in Nat /\ Names \subseteq Nat
  BY RotatingAssumption, FileAssumption
<1>2. step = "down" /\ msg = 0 /\ fd = NoName /\ UNCHANGED <<msg, given, index>>
  BY DEF ROpen, ROpenFails, SinkOK, Goto, callFrame, rotatingVars
<1>3. CASE ROpen
  <2>1. FInv' /\ OpenIsNewest' /\ fd' = 0
    <3>1. \A a \in Names : Older(0, a) => Content(a) = <<>>
      BY <1>1 DEF Older
    <3>2. OpenFile(0, FALSE)
      BY <1>3 DEF ROpen
    <3>. QED
      BY <1>1, <1>2, <3>1, <3>2, OpenKeeps
  <2>2. step' \in {"rotate", "idle"}
    BY <1>3 DEF ROpen, Goto
  <2>3. SinkOK' /\ RotatingOK'
    BY <1>2, <2>1, <2>2 DEF SinkOK, RotatingOK, Waiting, sink
  <2>. QED
    BY <2>1, <2>3
<1>4. CASE ROpenFails
  <2>1. OpenFails(0, FALSE) /\ step' = step
    BY <1>4 DEF ROpenFails, callFrame
  <2>2. FInv' /\ OpenIsNewest' /\ fd' = fd
    BY <1>1, <1>2, <2>1, OpenFailsKeeps
  <2>3. SinkOK' /\ RotatingOK'
    BY <1>2, <2>1, <2>2 DEF SinkOK, RotatingOK, Waiting, sink
  <2>. QED
    BY <2>2, <2>3
<1>. QED
  BY <1>3, <1>4

\* The flush before a rotation, and the close.
LEMMA RFlushOK ==
  ASSUME OrderInv, sink = "rotating", bounds' = bounds, Len(given) \in Nat,
         RFlush \/ RFlushFails \/ RClose
  PROVE  FInv' /\ OpenIsNewest' /\ SinkOK' /\ RotatingOK'
<1>. USE DEF OrderInv
<1>1. MaxFiles \in Nat
  BY RotatingAssumption
<1>2. UNCHANGED <<msg, given>> /\ step \in {"flush", "rotate"} /\ step \in Waiting
  BY DEF RFlush, RFlushFails, RClose, Goto, Throw, Waiting
<1>3. CASE RFlush \/ RFlushFails
  <2>1. FInv' /\ OpenIsNewest' /\ NoNewData /\ fd' = fd
    BY <1>2, <1>3, FlushKeeps DEF RFlush, RFlushFails
  <2>2. /\ step = "flush" /\ step' \in {"idle", "write", "rotate"}
        /\ UNCHANGED index
    BY <1>3 DEF RFlush, RFlushFails, Goto, Throw, rotatingVars
  <2>3. msg' # 0 => msg' = Len(given') /\ Absent(msg)'
    BY <1>2, <2>1, StillAbsent
  <2>4. msg # 0
    BY <2>2 DEF SinkOK
  <2>5. SinkOK'
    BY <1>2, <2>1, <2>2, <2>3, <2>4 DEF SinkOK
  <2>6. RotatingOK'
    BY <2>1, <2>2 DEF RotatingOK, sink
  <2>. QED
    BY <2>1, <2>5, <2>6
<1>4. CASE RClose
  <2>1. FInv' /\ OpenIsNewest' /\ NoNewData /\ fd' = NoName
    BY <1>2, <1>4, CloseKeeps DEF RClose
  <2>2. step' = "rename" /\ index' = MaxFiles
    BY <1>4 DEF RClose, Goto
  <2>3. msg' # 0 => msg' = Len(given') /\ Absent(msg)'
    BY <1>2, <2>1, StillAbsent
  <2>4. SinkOK'
    BY <1>2, <2>1, <2>2, <2>3 DEF SinkOK
  <2>5. RotatingOK'
    BY <1>1, <2>1, <2>2 DEF RotatingOK, sink
  <2>. QED
    BY <2>1, <2>4, <2>5
<1>. QED
  BY <1>3, <1>4

\* The renames.
LEMMA RenameOK ==
  ASSUME OrderInv, sink = "rotating", bounds' = bounds, Len(given) \in Nat,
         Rename \/ RenameFails
  PROVE  FInv' /\ OpenIsNewest' /\ SinkOK' /\ RotatingOK'
<1>. USE DEF OrderInv
<1>1. /\ step = "rename" /\ fd = NoName /\ fd' = fd /\ buffer' = buffer
      /\ UNCHANGED <<msg, given>> /\ step \in Waiting /\ index > 0
      /\ index \in 0..MaxFiles /\ MaxFiles \in Nat
      /\ \A i \in 0..MaxFiles : i \in Names
  BY RotatingAssumption
     DEF Rename, RenameFails, SinkOK, RotatingOK, Goto, callFrame, rotatingVars, Waiting
<1>2. OpenIsNewest'
  BY <1>1 DEF OpenIsNewest
<1>3. CASE Rename
  <2>1. index' = index - 1 /\ step' = step
    BY <1>3 DEF Rename, callFrame
  <2>2. /\ Ordered' /\ BufferNewest' /\ \A k \in Nat : Absent(k) => Absent(k)'
        /\ disk' \in [Names -> Seq(Nat) \cup {NoFile}]
    <3>1. CASE Exists(index - 1)
      <4>1. index \in 1..MaxFiles
        BY <1>1
      <4>2. disk' = [disk EXCEPT ![index] = disk[index - 1], ![index - 1] = NoFile]
        BY <1>3, <3>1 DEF Rename
      <4>. QED
        BY <1>1, <3>1, <4>1, <4>2, OrderRenamed DEF FInv
    <3>2. CASE ~Exists(index - 1)
      <4>1. disk' = disk
        BY <1>3, <3>2 DEF Rename
      <4>2. \A a \in Names : Content(a)' = Content(a)
        BY <4>1 DEF Content, Exists
      <4>. QED
        BY <1>1, <4>1, <4>2, OrderShrinks DEF FInv, FilesOK, NoNewData
    <3>. QED
      BY <3>1, <3>2
  <2>3. FInv'
    BY <1>1, <2>2 DEF FInv, FilesOK, Past
  <2>4. SinkOK'
    <3>1. msg' # 0 => msg' = Len(given') /\ Absent(msg)'
      <4>. SUFFICES ASSUME msg # 0 PROVE msg = Len(given) /\ Absent(msg)'
        BY <1>1
      <4>1. msg = Len(given) /\ Absent(msg) /\ msg \in Nat
        BY <1>1 DEF SinkOK
      <4>. QED
        BY <1>1, <2>2, <4>1 DEF Absent
    <3>. QED
      BY <1>1, <2>1, <3>1 DEF SinkOK
  <2>5. RotatingOK'
    BY <1>1, <2>1 DEF RotatingOK, sink
  <2>. QED
    BY <1>2, <2>3, <2>4, <2>5
<1>4. CASE RenameFails
  <2>1. step' = "rename_failed" /\ index' = index /\ index \in Names
    BY <1>1, <1>4 DEF RenameFails, Goto, rotatingVars
  <2>2. /\ disk' \in [Names -> Seq(Nat) \cup {NoFile}]
        /\ \A a \in Names : Content(a)' \in {Content(a), <<>>}
    <3>1. disk' = disk \/ disk' = [disk EXCEPT ![index] = NoFile]
      BY <1>4 DEF RenameFails
    <3>2. disk \in [Names -> Seq(Nat) \cup {NoFile}]
      BY DEF FInv, FilesOK
    <3>3. \A a \in Names : disk'[a] = disk[a] \/ disk'[a] = NoFile
      BY <3>1, <3>2
    <3>. QED
      BY <3>1, <3>2, <3>3 DEF Content, Exists
  <2>3. \A a \in Names : a # fd
    BY <1>1, FileAssumption
  <2>4. FInv' /\ NoNewData
    BY <1>1, <2>2, <2>3, RemovalKeeps
  <2>5. msg' # 0 => msg' = Len(given') /\ Absent(msg)'
    BY <1>1, <2>4, StillAbsent
  <2>6. SinkOK'
    BY <1>1, <2>1, <2>5 DEF SinkOK
  <2>7. RotatingOK'
    BY <1>1, <2>1 DEF RotatingOK, sink
  <2>. QED
    BY <1>2, <2>4, <2>6, <2>7
<1>. QED
  BY <1>3, <1>4

\* The open that ends a rotation, after the renames or instead of them.
LEMMA ReopenOK ==
  ASSUME OrderInv, sink = "rotating", bounds' = bounds, Len(given) \in Nat,
         Reopen \/ ReopenFails \/ Abandon \/ AbandonFails
  PROVE  FInv' /\ OpenIsNewest' /\ SinkOK' /\ RotatingOK'
<1>. USE DEF OrderInv
<1>0. step \in {"rename", "rename_failed"} /\ UNCHANGED <<msg, given, index>>
  BY DEF Reopen, ReopenFails, Abandon, AbandonFails, Goto, Throw, RThrow, rotatingVars
<1>1. /\ step \in {"rename", "rename_failed"} /\ fd = NoName
      /\ UNCHANGED <<msg, given, index>> /\ step \in Waiting
      /\ index \in 0..MaxFiles /\ 0 \in Names /\ Names \subseteq Nat
      /\ 0..MaxFiles \subseteq Names
      /\ TRUE \in BOOLEAN /\ MaxFiles \in Nat
  <2>1. MaxFiles \in Nat /\ 0..MaxFiles \subseteq Names /\ Names \subseteq Nat
    BY RotatingAssumption, FileAssumption
  <2>2. fd = NoName /\ step \in Waiting /\ index \in 0..MaxFiles
    BY <1>0 DEF SinkOK, RotatingOK, Waiting
  <2>3. 0 \in Names
    BY <2>1
  <2>. QED
    BY <1>0, <2>1, <2>2, <2>3
<1>2. step' \in {"idle", "write", "down"}
      /\ (step' = "down" => msg = 0) /\ (step' = "write" => msg # 0)
  BY DEF Reopen, ReopenFails, Abandon, AbandonFails, RThrow, Throw, Goto
<1>3. /\ FInv' /\ OpenIsNewest' /\ NoNewData
      /\ fd' \in {0, NoName} /\ (step' = "down" => fd' = NoName)
  <2>1. \A a \in Names : Older(0, a) => Content(a) = <<>>
    BY <1>1 DEF Older
  <2>2. CASE OpenFile(0, TRUE) /\ ~(step' = "down")
    BY <1>1, <2>1, <2>2, OpenKeeps
  <2>3. CASE OpenFails(0, TRUE)
    BY <1>1, <2>3, OpenFailsKeeps
  <2>4. CASE Abandon /\ msg = 0
    <3>1. disk' = Opened(0, TRUE) /\ UNCHANGED <<fd, buffer>>
      BY <2>4 DEF Abandon
    <3>2. FInv' /\ OpenIsNewest' /\ NoNewData
      BY <1>1, <3>1, OpenedContents, RemovalKeeps DEF FInv
    <3>. QED
      BY <1>1, <3>1, <3>2
  <2>. QED
    BY <2>2, <2>3, <2>4 DEF Reopen, ReopenFails, Abandon, AbandonFails, RThrow, Throw, Goto
<1>4. msg' # 0 => msg' = Len(given') /\ Absent(msg)'
  BY <1>1, <1>3, StillAbsent
<1>5. SinkOK'
  BY <1>1, <1>2, <1>3, <1>4 DEF SinkOK
<1>6. RotatingOK'
  BY <1>1, <1>2, <1>3 DEF RotatingOK, sink
<1>. QED
  BY <1>3, <1>5, <1>6

\* The write.
LEMMA RWriteOK ==
  ASSUME OrderInv, sink = "rotating", bounds' = bounds, Len(given) \in Nat,
         RWrite \/ RWriteFails
  PROVE  FInv' /\ OpenIsNewest' /\ SinkOK' /\ RotatingOK'
<1>. USE DEF OrderInv
<1>1. /\ step = "write" /\ step' = "idle" /\ UNCHANGED <<msg, given, index>>
      /\ msg = Len(given) /\ msg \in Nat /\ Absent(msg)
  BY DEF RWrite, RWriteFails, SinkOK, Goto, Throw, rotatingVars, Waiting
<1>2. FInv' /\ OpenIsNewest' /\ fd' = fd
  BY <1>1, WriteKeeps DEF RWrite, RWriteFails
<1>3. SinkOK' /\ RotatingOK'
  BY <1>1, <1>2 DEF SinkOK, RotatingOK, Waiting, sink
<1>. QED
  BY <1>2, <1>3

\* Every step of the rotating sink.
LEMMA RStepOK ==
  ASSUME OrderInv, sink = "rotating", bounds' = bounds, Len(given) \in Nat, RStep
  PROVE  OrderInv' /\ given' = given
<1>1. DailyOK'
  BY DEF DailyOK, sink
<1>2. given' = given
  BY DEF RStep, ROpen, ROpenFails, RFlush, RFlushFails, RClose, Rename, RenameFails,
         Reopen, ReopenFails, Abandon, AbandonFails, RWrite, RWriteFails, RThrow, Throw,
         Goto, callFrame
<1>3. FInv' /\ OpenIsNewest' /\ SinkOK' /\ RotatingOK'
  BY ROpenOK, RFlushOK, RenameOK, ReopenOK, RWriteOK DEF RStep
<1>. QED
  BY <1>1, <1>2, <1>3 DEF OrderInv

-----------------------------------------------------------------------------
(* The daily sink                                                          *)

\* What clients give the sink: messages made before now.
Stamped == [by : Threads, n : Nat, size : Nat, time : 0..now]

\* Files in use stay the only ones while no other file is opened.
LEMMA StillInUse ==
  ASSUME NoNewData, fd' \in {fd, NoName}, NoName \notin Names, NEW a \in Names, InUse(a)'
  PROVE  InUse(a)
BY DEF NoNewData, InUse

\* The message of the call under way was made before now.
LEMMA CallStamped ==
  ASSUME SinkOK, given \in Seq(Stamped), now \in Nat, step \in Waiting, msg # 0
  PROVE  given[msg].time \in Nat /\ given[msg].time <= now
<1>1. msg \in 1..Len(given)
  BY DEF SinkOK
<1>2. given[msg] \in Stamped
  BY <1>1
<1>. QED
  BY <1>2 DEF Stamped

\* The constructor of the daily sink.
LEMMA DOpenOK ==
  ASSUME OrderInv, sink = "daily", UNCHANGED <<bounds, now>>, now \in 0..MaxTime,
         Len(given) \in Nat, DOpen \/ DOpenFails
  PROVE  FInv' /\ OpenIsNewest' /\ SinkOK' /\ DailyOK'
<1>. USE DEF OrderInv
<1>1. /\ Day(now) \in Names /\ Names \subseteq Nat /\ Truncate \in BOOLEAN
      /\ now \in Nat /\ NoName \notin Names /\ Day(now) \in Nat
  <2>1. MaxTime \in Nat /\ Truncate \in BOOLEAN /\ Day(now) \in Names
    BY DailyAssumption DEF Day
  <2>2. Names \subseteq Nat /\ NoName \notin Names
    BY FileAssumption
  <2>3. now \in Nat
    BY <2>1
  <2>. QED
    BY <2>1, <2>2, <2>3
<1>2. step = "down" /\ msg = 0 /\ fd = NoName /\ UNCHANGED <<msg, given>>
  BY DEF DOpen, DOpenFails, SinkOK, Goto, callFrame
<1>3. \A a \in Names : InUse(a) => a <= Day(now)
  BY DEF DailyOK
<1>4. CASE DOpen
  <2>1. OpenFile(Day(now), Truncate) /\ step' = "schedule" /\ rotationTp' = rotationTp
    BY <1>4 DEF DOpen, Goto, dailyVars
  <2>2. \A a \in Names : Older(Day(now), a) => Content(a) = <<>>
    <3>. SUFFICES ASSUME NEW a \in Names, Day(now) < a PROVE Content(a) = <<>>
      BY DEF Older
    <3>1. ~(a <= Day(now))
      BY <1>1
    <3>. QED
      BY <1>3, <3>1 DEF InUse
  <2>3. FInv' /\ OpenIsNewest' /\ NoNewData /\ fd' = Day(now)
    BY <1>1, <1>2, <2>1, <2>2, OpenKeeps
  <2>4. SinkOK'
    BY <1>2, <2>1, <2>3 DEF SinkOK, Waiting
  <2>5. ASSUME NEW a \in Names, InUse(a)' PROVE a <= Day(now)
    BY <1>1, <1>3, <2>3, <2>5 DEF InUse, NoNewData
  <2>6. DailyOK'
    BY <2>1, <2>5 DEF DailyOK, Day
  <2>. QED
    BY <2>3, <2>4, <2>6
<1>5. CASE DOpenFails
  <2>1. OpenFails(Day(now), Truncate) /\ UNCHANGED <<step, rotationTp>>
    BY <1>5 DEF DOpenFails, callFrame, dailyVars
  <2>2. FInv' /\ OpenIsNewest' /\ fd' = fd /\ NoNewData
    BY <1>1, <1>2, <2>1, OpenFailsKeeps
  <2>3. SinkOK'
    BY <1>2, <2>1, <2>2 DEF SinkOK, Waiting
  <2>4. \A a \in Names : InUse(a)' => InUse(a)
    BY <1>1, <2>2, StillInUse
  <2>5. DailyOK'
    BY <1>2, <1>3, <2>1, <2>4 DEF DailyOK, Day
  <2>. QED
    BY <2>2, <2>3, <2>5
<1>. QED
  BY <1>4, <1>5

\* The rest of the constructor: the next rotation is after all there is.
LEMMA DScheduleOK ==
  ASSUME OrderInv, sink = "daily", UNCHANGED <<bounds, now>>, now \in 0..MaxTime,
         Len(given) \in Nat, DSchedule \/ DList
  PROVE  FInv' /\ OpenIsNewest' /\ SinkOK' /\ DailyOK'
<1>. USE DEF OrderInv
<1>1. now \in Nat /\ Names \subseteq Nat
  BY DailyAssumption, FileAssumption
<1>2. /\ UNCHANGED <<disk, fd, buffer, msg, given>> /\ step \in {"schedule", "list"}
      /\ step' \in {"list", "idle"}
  BY DEF DSchedule, DList, Goto, fileVars
<1>3. /\ \A a \in Names : Content(a)' = Content(a) /\ (Exists(a)' <=> Exists(a))
      /\ \A a \in Names : InUse(a)' <=> InUse(a)
  BY <1>2 DEF Content, Exists, InUse
<1>4. FInv'
  BY <1>2, <1>3 DEF FInv, FilesOK, Ordered, BufferNewest, Past, Absent, Before,
                    Sorted, Older, sink, Exists
<1>5. OpenIsNewest' /\ SinkOK'
  BY <1>2, <1>3 DEF OpenIsNewest, Older, sink, SinkOK, Waiting
<1>6. \A a \in Names : InUse(a) => a <= Day(now)
  BY DEF DailyOK
<1>7. rotationTp' \in Nat /\ \A a \in Names : InUse(a) => a <= Day(rotationTp')
  <2>1. CASE DSchedule
    <3>1. rotationTp' \in Nat /\ now <= rotationTp'
      BY <1>1, <2>1, NextRotationLater DEF DSchedule
    <3>2. Day(now) <= Day(rotationTp') /\ Day(now) \in Nat /\ Day(rotationTp') \in Nat
      BY <1>1, <3>1, DayMonotone
    <3>. QED
      BY <1>1, <1>6, <3>1, <3>2
  <2>2. CASE DList
    BY <2>2 DEF DList, DailyOK
  <2>. QED
    BY <2>1, <2>2
<1>8. DailyOK'
  BY <1>2, <1>3, <1>6, <1>7 DEF DailyOK, Day
<1>. QED
  BY <1>4, <1>5, <1>8

\* The close before a rotation.
LEMMA DCloseOK ==
  ASSUME OrderInv, sink = "daily", UNCHANGED <<bounds, now>>, Len(given) \in Nat, DClose
  PROVE  FInv' /\ OpenIsNewest' /\ SinkOK' /\ DailyOK'
<1>. USE DEF OrderInv
<1>1. /\ step = "close" /\ step' = "open" /\ UNCHANGED <<msg, given, rotationTp>>
      /\ step \in Waiting /\ msg # 0 /\ NoName \notin Names
  BY FileAssumption DEF DClose, Goto, dailyVars, SinkOK, Waiting
<1>2. FInv' /\ OpenIsNewest' /\ NoNewData /\ fd' = NoName
  BY <1>1, CloseKeeps DEF DClose
<1>3. msg' # 0 => msg' = Len(given') /\ Absent(msg)'
  BY <1>1, <1>2, StillAbsent
<1>4. SinkOK'
  BY <1>1, <1>2, <1>3 DEF SinkOK
<1>5. \A a \in Names : InUse(a)' => InUse(a)
  BY <1>1, <1>2, StillInUse
<1>6. DailyOK'
  BY <1>1, <1>5 DEF DailyOK, Day
<1>. QED
  BY <1>2, <1>4, <1>6

\* The open of the file of the message's day: no file in use is newer.
LEMMA DReopenOK ==
  ASSUME OrderInv, sink = "daily", UNCHANGED <<bounds, now>>, now \in 0..MaxTime,
         given \in Seq(Stamped), DReopen \/ DReopenFails
  PROVE  FInv' /\ OpenIsNewest' /\ SinkOK' /\ DailyOK'
<1>. USE DEF OrderInv
<1>. DEFINE time == given[msg].time
<1>1. /\ step = "open" /\ step \in Waiting /\ fd = NoName /\ msg # 0
      /\ UNCHANGED <<msg, given>> /\ Len(given) \in Nat
  BY DEF DReopen, DReopenFails, SinkOK, Goto, Throw, Waiting
<1>2. now \in Nat /\ time \in Nat /\ time <= now /\ time \in 0..MaxTime
  <2>1. MaxTime \in Nat
    BY DailyAssumption
  <2>2. time \in Nat /\ time <= now
    BY <1>1, CallStamped
  <2>. QED
    BY <2>1, <2>2
<1>3. /\ Day(time) \in Names /\ Names \subseteq Nat /\ Truncate \in BOOLEAN
      /\ NoName \notin Names
  BY <1>2, DailyAssumption, FileAssumption DEF Day
<1>4. rotationTp \in Nat /\ rotationTp <= time
  BY <1>1 DEF DailyOK
<1>5. /\ Day(rotationTp) <= Day(time) /\ Day(time) <= Day(now)
      /\ Day(rotationTp) \in Nat /\ Day(time) \in Nat /\ Day(now) \in Nat
  BY <1>2, <1>4, DayMonotone
<1>6. \A a \in Names : InUse(a) => a <= Day(now) /\ a <= Day(rotationTp)
  BY <1>1 DEF DailyOK
<1>. HIDE DEF time
<1>7. CASE DReopen
  <2>1. /\ OpenFile(Day(time), Truncate) /\ step' = "write_rotated"
        /\ rotationTp' = NextRotation
    BY <1>7 DEF DReopen, Goto, time
  <2>2. \A a \in Names : Older(Day(time), a) => Content(a) = <<>>
    BY <1>3, <1>5, <1>6 DEF Older, InUse
  <2>3. FInv' /\ OpenIsNewest' /\ NoNewData /\ fd' = Day(time)
    BY <1>1, <1>3, <2>1, <2>2, OpenKeeps
  <2>4. msg' # 0 => msg' = Len(given') /\ Absent(msg)'
    BY <1>1, <2>3, StillAbsent
  <2>5. SinkOK'
    BY <1>1, <2>1, <2>3, <2>4 DEF SinkOK
  <2>6. /\ rotationTp' \in Nat /\ Day(now) <= Day(rotationTp')
        /\ Day(rotationTp') \in Nat
    BY <1>2, <2>1, NextRotationLater, DayMonotone
  <2>7. \A a \in Names : InUse(a)' => a <= Day(now)
    BY <1>3, <1>5, <1>6, <2>3 DEF InUse, NoNewData
  <2>8. \A a \in Names : InUse(a)' => a <= Day(now)' /\ a <= Day(rotationTp)'
    BY <1>3, <1>5, <2>6, <2>7 DEF Day
  <2>9. DailyOK'
    BY <2>1, <2>6, <2>8 DEF DailyOK
  <2>. QED
    BY <2>3, <2>5, <2>9
<1>8. CASE DReopenFails
  <2>1. /\ OpenFails(Day(time), Truncate) /\ step' = "idle"
        /\ UNCHANGED rotationTp
    BY <1>8 DEF DReopenFails, Throw, dailyVars, time
  <2>2. FInv' /\ OpenIsNewest' /\ fd' = fd /\ NoNewData
    BY <1>1, <1>3, <2>1, OpenFailsKeeps
  <2>3. SinkOK'
    BY <1>1, <2>1 DEF SinkOK, Waiting
  <2>4. \A a \in Names : InUse(a)' => InUse(a)
    BY <1>3, <2>2, StillInUse
  <2>5. DailyOK'
    BY <1>6, <2>1, <2>4, <1>4 DEF DailyOK, Day
  <2>. QED
    BY <2>2, <2>3, <2>5
<1>. QED
  BY <1>7, <1>8

\* The write.
LEMMA DWriteOK ==
  ASSUME OrderInv, sink = "daily", UNCHANGED <<bounds, now>>, Len(given) \in Nat,
         DWrite \/ DWriteFails
  PROVE  FInv' /\ OpenIsNewest' /\ SinkOK' /\ DailyOK'
<1>. USE DEF OrderInv
<1>1. /\ step \in {"write", "write_rotated"} /\ step' \in {"idle", "delete_old"}
      /\ UNCHANGED <<msg, given, rotationTp>>
      /\ msg = Len(given) /\ msg \in Nat /\ Absent(msg)
  BY DEF DWrite, DWriteFails, SinkOK, Goto, Throw, dailyVars, Waiting
<1>2. FInv' /\ OpenIsNewest' /\ fd' = fd /\ \A a \in Names : Content(a)' = Content(a)
  BY <1>1, WriteKeeps DEF DWrite, DWriteFails
<1>3. SinkOK'
  BY <1>1, <1>2 DEF SinkOK, Waiting
<1>4. \A a \in Names : InUse(a)' => InUse(a)
  BY <1>2 DEF InUse
<1>5. DailyOK'
  BY <1>1, <1>4 DEF DailyOK, Day
<1>. QED
  BY <1>2, <1>3, <1>5

\* The removal of the oldest file.
LEMMA DeleteOldOK ==
  ASSUME OrderInv, sink = "daily", UNCHANGED <<bounds, now>>, Len(given) \in Nat,
         AddFilename \/ DeleteOldFails
  PROVE  FInv' /\ OpenIsNewest' /\ SinkOK' /\ DailyOK'
<1>. USE DEF OrderInv
<1>1. /\ step = "delete_old" /\ step' = "idle" /\ UNCHANGED <<msg, given, rotationTp, fd, buffer>>
      /\ NoName \notin Names
  BY FileAssumption DEF AddFilename, DeleteOldFails, Goto, Throw
<1>2. \/ disk' = disk
      \/ Front(filenames) # fd /\ disk' = [disk EXCEPT ![Front(filenames)] = NoFile]
  BY DEF AddFilename, DeleteOldFails
<1>3. disk \in [Names -> Seq(Nat) \cup {NoFile}]
  BY DEF FInv, FilesOK
<1>4. /\ disk' \in [Names -> Seq(Nat) \cup {NoFile}]
      /\ \A a \in Names : disk'[a] = disk[a] \/ (disk'[a] = NoFile /\ a # fd)
  BY <1>2, <1>3
<1>5. FInv' /\ OpenIsNewest' /\ NoNewData
  BY <1>1, <1>4, RemovalKeeps DEF Content, Exists
<1>6. SinkOK'
  BY <1>1, <1>5 DEF SinkOK, Waiting
<1>7. \A a \in Names : InUse(a)' => InUse(a)
  BY <1>1, <1>5, StillInUse
<1>8. DailyOK'
  BY <1>1, <1>7 DEF DailyOK, Day
<1>. QED
  BY <1>5, <1>6, <1>8

\* Every step of the daily sink.
LEMMA DStepOK ==
  ASSUME OrderInv, sink = "daily", UNCHANGED <<bounds, now>>, now \in 0..MaxTime,
         given \in Seq(Stamped), DStep
  PROVE  OrderInv' /\ given' = given
<1>1. RotatingOK'
  BY DEF RotatingOK, sink
<1>2. given' = given /\ Len(given) \in Nat
  BY DEF DStep, DOpen, DOpenFails, DSchedule, DList, DClose, DReopen, DReopenFails, DWrite, DWriteFails,
         AddFilename, DeleteOldFails, Throw, Goto, callFrame
<1>3. FInv' /\ OpenIsNewest' /\ SinkOK' /\ DailyOK'
  BY <1>2, DOpenOK, DScheduleOK, DCloseOK, DReopenOK, DWriteOK, DeleteOldOK DEF DStep
<1>. QED
  BY <1>1, <1>2, <1>3 DEF OrderInv

-----------------------------------------------------------------------------
(* The threads and the backtracer                                          *)

Calls == [kind : {"traced", "untraced", "start", "item", "end"}, m : Stamped]
Places == {"idle", "sink", "in_sink", "sunk", "trace", "lock", "each", "pop"}

CallsTyped ==
  /\ pc \in [Threads -> Places] /\ call \in [Threads -> Calls \cup {NoCall}]
  /\ \A t \in Threads : pc[t] # "idle" => call[t] \in Calls

\* Every message on its way to the sink, and every one in the ring, was made
\* before now.
\* A thread that dumps has the tracer's mutex, and the message it has given
\* the sink is the front of the ring until it pops it.
DumperOK ==
  \A t \in Threads :
    /\ call[t].kind = "item" \/ pc[t] = "each" => holder = t
    /\ call[t].kind = "item" /\ pc[t] # "each" =>
         ~IsEmpty(messages) /\ Front(messages) = call[t].m
    /\ pc[t] = "pop" => call[t].kind = "item"

ClientsOK ==
  /\ now \in 0..MaxTime /\ logged \in Nat /\ bounds \in Scenarios
  /\ given \in Seq(Stamped)
  /\ CallsTyped /\ DumperOK
  /\ messages \in QueueType(BacktraceSize, Stamped)
  /\ Contents(messages) \in Seq(Stamped)

IInv == OrderInv /\ ClientsOK

\* push_back keeps a ring full of items of S.
LEMMA PushedContents ==
  ASSUME NEW n \in Nat, NEW S, NEW q \in QueueType(n, S), NEW m \in S,
         Contents(q) \in Seq(S)
  PROVE  PushBack(q, m) \in QueueType(n, S) /\ Contents(PushBack(q, m)) \in Seq(S)
<1>1. PushBack(q, m) \in QueueType(n, S)
  BY PushBackType
<1>2. CASE ~IsFull(q)
  BY <1>1, <1>2, PushBackAppends
<1>3. CASE IsFull(q)
  <2>1. Contents(PushBack(q, m)) = Tail(Append(Contents(q), m))
    BY <1>3, PushBackOverruns
  <2>2. /\ Append(Contents(q), m) \in Seq(S)
        /\ Len(Append(Contents(q), m)) = Len(Contents(q)) + 1 /\ Len(Contents(q)) \in Nat
    OBVIOUS
  <2>3. Append(Contents(q), m) # <<>>
    BY <2>2
  <2>. QED
    BY <1>1, <2>1, <2>2, <2>3
<1>. QED
  BY <1>2, <1>3

\* So does pop_front, and the front is one of them.
LEMMA PoppedContents ==
  ASSUME NEW n \in Nat, NEW S, NEW q \in QueueType(n, S), Contents(q) \in Seq(S),
         ~IsEmpty(q)
  PROVE  /\ PopFront(q) \in QueueType(n, S) /\ Contents(PopFront(q)) \in Seq(S)
         /\ Front(q) \in S
<1>1. PopFront(q) \in QueueType(n, S) /\ Contents(PopFront(q)) = Tail(Contents(q))
  BY PopFrontLeavesTail
<1>2. Contents(q) # <<>> /\ Front(q) = Head(Contents(q))
  BY TakeFrontTakesHead
<1>. QED
  BY <1>1, <1>2

\* A larger set of items.
LEMMA WiderContents ==
  ASSUME NEW n \in Nat, NEW S, NEW T, S \subseteq T, NEW q \in QueueType(n, S),
         Contents(q) \in Seq(S)
  PROVE  q \in QueueType(n, T) /\ Contents(q) \in Seq(T)
<1>1. q \in QueueType(n, T)
  BY DEF QueueType
<1>. QED
  BY <1>1

\* The invariant of the sink looks at the sink's state only.
LEMMA OrderUnchanged ==
  ASSUME OrderInv, UNCHANGED <<files, bounds>>
  PROVE  OrderInv'
<1>1. UNCHANGED <<disk, fd, buffer, step, msg, given, index, rotationTp, now, bounds>>
  BY DEF files, sinkVars, fileVars, callFrame, rotatingVars, dailyVars
<1>2. \A a \in Names : Content(a)' = Content(a) /\ (Exists(a)' <=> Exists(a))
  BY <1>1 DEF Content, Exists
<1>3. FInv'
  BY <1>1, <1>2 DEF OrderInv, FInv, FilesOK, Ordered, BufferNewest, Past, Absent, Before,
                    Sorted, Older, sink, Exists
<1>4. OpenIsNewest'
  BY <1>1, <1>2 DEF OrderInv, OpenIsNewest, Older, sink
<1>5. SinkOK'
  BY <1>1, <1>2 DEF OrderInv, SinkOK, Absent
<1>6. RotatingOK'
  BY <1>1 DEF OrderInv, RotatingOK, sink
<1>7. DailyOK'
  BY <1>1, <1>2 DEF OrderInv, DailyOK, InUse, Day, sink
<1>. QED
  BY <1>3, <1>4, <1>5, <1>6, <1>7 DEF OrderInv

\* A message made now.
LEMMA NewMessageStamped ==
  ASSUME now \in 0..MaxTime, NEW t \in Threads, NEW n \in Nat, NEW size \in Nat
  PROVE  NewMessage(t, n, size) \in Stamped
<1>1. MaxTime \in Nat
  BY DailyAssumption
<1>2. now \in 0..now
  BY <1>1
<1>. QED
  BY <1>2 DEF NewMessage, Stamped

\* A call begins, goes on and returns.
LEMMA CallMoves ==
  ASSUME CallsTyped, Stamped' = Stamped, NEW t \in Threads, NEW place \in Places,
         NEW kind \in {"traced", "untraced", "start", "item", "end"}, NEW m \in Stamped,
         \/ To(t, place) /\ Becomes(t, kind, m)
         \/ To(t, place) /\ call' = call /\ pc[t] # "idle"
         \/ Return(t)
  PROVE  CallsTyped'
<1>1. Calls' = Calls
  BY DEF Calls
<1>2. CASE To(t, place) /\ Becomes(t, kind, m)
  <2>1. [kind |-> kind, m |-> m] \in Calls
    BY DEF Calls
  <2>. QED
    BY <1>1, <1>2, <2>1 DEF CallsTyped, To, Becomes
<1>3. CASE To(t, place) /\ call' = call /\ pc[t] # "idle"
  BY <1>1, <1>3 DEF CallsTyped, To
<1>4. CASE Return(t)
  BY <1>1, <1>4 DEF CallsTyped, Return, To, Places
<1>. QED
  BY <1>2, <1>3, <1>4

\* What the thread does after its message is in the sink.
LEMMA ContinueMoves ==
  ASSUME CallsTyped, Stamped' = Stamped, NEW t \in Threads, pc[t] # "idle", Continue(t)
  PROVE  CallsTyped'
<1>1. call[t] \in Calls
  BY DEF CallsTyped
<1>2. call[t].kind \in {"traced", "untraced", "start", "item", "end"} /\ call[t].m \in Stamped
  BY <1>1 DEF Calls
<1>3. \/ Return(t)
      \/ call' = call /\ \E place \in {"trace", "lock", "pop"} : To(t, place)
  BY <1>2 DEF Continue
<1>. QED
  BY <1>2, <1>3, CallMoves DEF Places

\* The mutex of the tracer keeps the ring to the thread that dumps.
LEMMA DumperAlone ==
  ASSUME CallsTyped, DumperOK, NEW t \in Threads, NEW level \in {"debug", "info"},
         \/ Log(t, level) \/ Trace(t) \/ Switch(t) \/ Dump(t)
         \/ Lock(t) \/ Item(t) \/ Pop(t) \/ Unlock(t)
  PROVE  DumperOK'
<1>1. NoThread \notin Threads
  BY LoggerAssumption
<1>2. CASE Log(t, level) \/ Dump(t)
  BY <1>2 DEF Log, Dump, To, Becomes, CallsTyped, DumperOK, tracerVars
<1>3. CASE Trace(t)
  BY <1>1, <1>3 DEF Trace, Return, To, CallsTyped, DumperOK, NoCall
<1>4. CASE Switch(t)
  BY <1>1, <1>4 DEF Switch, DumperOK, threadVars
<1>5. CASE Lock(t)
  BY <1>1, <1>5 DEF Lock, To, CallsTyped, DumperOK
<1>6. CASE Item(t)
  BY <1>6 DEF Item, To, Becomes, CallsTyped, DumperOK, tracerVars
<1>7. CASE Pop(t)
  BY <1>1, <1>7 DEF Pop, To, CallsTyped, DumperOK
<1>8. CASE Unlock(t)
  BY <1>1, <1>8 DEF Unlock, To, Becomes, CallsTyped, DumperOK
<1>. QED
  BY <1>2, <1>3, <1>4, <1>5, <1>6, <1>7, <1>8

\* Calls of the logger and of the tracer, which do not touch the sink.
LEMMA ThreadsOK ==
  ASSUME IInv, NEW t \in Threads, NEW level \in {"debug", "info"},
         \/ Log(t, level) \/ Trace(t) \/ Switch(t) \/ Dump(t)
         \/ Lock(t) \/ Item(t) \/ Pop(t) \/ Unlock(t)
  PROVE  IInv'
<1>. USE DEF IInv
<1>1. /\ now' = now /\ given' = given /\ bounds' = bounds /\ UNCHANGED <<files, bounds>>
      /\ Stamped' = Stamped /\ Calls' = Calls
  BY DEF Log, Trace, Switch, Dump, Lock, Item, Pop, Unlock, files, sinkVars, callFrame,
         counts, Stamped, Calls
<1>2. OrderInv'
  BY <1>1, OrderUnchanged
<1>3. /\ now \in 0..MaxTime /\ logged \in Nat /\ BacktraceSize \in Nat
      /\ CallsTyped /\ DumperOK /\ messages \in QueueType(BacktraceSize, Stamped)
      /\ Contents(messages) \in Seq(Stamped)
  BY LoggerAssumption DEF ClientsOK
<1>4. /\ logged' \in Nat /\ messages' \in QueueType(BacktraceSize, Stamped)
      /\ Contents(messages') \in Seq(Stamped)
  <2>1. CASE Log(t, level)
    BY <1>3, <2>1 DEF Log, tracerVars
  <2>2. CASE Trace(t)
    <3>1. call[t] \in Calls
      BY <1>3, <2>2 DEF Trace, CallsTyped
    <3>2. call[t].m \in Stamped
      BY <3>1 DEF Calls
    <3>3. messages' = PushBack(messages, call[t].m) /\ logged' = logged
      BY <2>2 DEF Trace, counts
    <3>. QED
      BY <1>3, <3>2, <3>3, PushedContents
  <2>3. CASE Switch(t)
    <3>1. logged' = logged /\ messages' \in {messages, NewQ(BacktraceSize)}
      BY <2>3 DEF Switch
    <3>2. <<>> \in Seq(Stamped)
      OBVIOUS
    <3>. QED
      BY <1>3, <3>1, <3>2, NewQEmpty
  <2>4. CASE Dump(t) \/ Lock(t) \/ Item(t) \/ Unlock(t)
    BY <1>3, <2>4 DEF Dump, Lock, Item, Unlock, tracerVars, counts
  <2>5. CASE Pop(t)
    <3>1. messages' = PopFront(messages) /\ logged' = logged
      BY <2>5 DEF Pop, counts
    <3>2. ~IsEmpty(messages)
      BY <1>3, <2>5 DEF Pop, DumperOK
    <3>. QED
      BY <1>3, <3>1, <3>2, PoppedContents
  <2>. QED
    BY <2>1, <2>2, <2>3, <2>4, <2>5
<1>5. CallsTyped'
  <2>1. ASSUME NEW place \in Places, pc[t] # "idle", To(t, place), call' = call
        PROVE  CallsTyped'
    <3>1. call[t].m \in Stamped
      BY <1>3, <2>1 DEF CallsTyped, Calls
    <3>. QED
      BY <1>1, <1>3, <2>1, <3>1, CallMoves
  <2>2. CASE Log(t, level)
    <3>. DEFINE m == NewMessage(t, logged + 1, IF level = "debug" THEN 1 ELSE 2)
                kind == IF tracing THEN "traced" ELSE "untraced"
                place == IF level = "debug" THEN "trace" ELSE "sink"
    <3>1. Becomes(t, kind, m) /\ To(t, place)
      BY <2>2 DEF Log
    <3>2. m \in Stamped
      BY <1>3, NewMessageStamped
    <3>. HIDE DEF m
    <3>. QED
      BY <1>1, <1>3, <3>1, <3>2, CallMoves DEF Places
  <2>3. CASE Trace(t)
    <3>1. call[t].m \in Stamped
      BY <1>3, <2>3 DEF Trace, CallsTyped, Calls
    <3>. QED
      BY <1>1, <1>3, <2>3, <3>1, CallMoves DEF Trace, Places
  <2>4. CASE Switch(t)
    BY <1>1, <1>3, <2>4 DEF Switch, threadVars, CallsTyped
  <2>5. CASE Dump(t)
    <3>1. Becomes(t, "start", NewMessage(t, 0, 1)) /\ To(t, "sink")
      BY <2>5 DEF Dump
    <3>. QED
      BY <1>1, <1>3, <3>1, NewMessageStamped, CallMoves DEF Places
  <2>6. CASE Lock(t)
    BY <2>1, <2>6 DEF Lock, Places
  <2>7. CASE Item(t)
    <3>1. Becomes(t, "item", Front(messages)) /\ To(t, "sink") /\ ~IsEmpty(messages)
      BY <2>7 DEF Item
    <3>2. Front(messages) \in Stamped
      BY <1>3, <3>1, PoppedContents
    <3>. QED
      BY <1>1, <1>3, <3>1, <3>2, CallMoves DEF Places
  <2>8. CASE Pop(t)
    BY <2>1, <2>8 DEF Pop, Places
  <2>9. CASE Unlock(t)
    <3>1. Becomes(t, "end", NewMessage(t, 0, 1)) /\ To(t, "sink")
      BY <2>9 DEF Unlock
    <3>. QED
      BY <1>1, <1>3, <3>1, NewMessageStamped, CallMoves DEF Places
  <2>. QED
    BY <2>2, <2>3, <2>4, <2>5, <2>6, <2>7, <2>8, <2>9
<1>6. DumperOK'
  BY <1>3, DumperAlone
<1>. QED
  BY <1>1, <1>2, <1>3, <1>4, <1>5, <1>6 DEF ClientsOK

\* A call of the logger reaches the sink.
LEMMA EnterSinkOK ==
  ASSUME IInv, NEW t \in Threads, EnterSink(t)
  PROVE  IInv'
<1>. USE DEF IInv, OrderInv
<1>. DEFINE m == call[t].m
<1>1. /\ UNCHANGED <<now, bounds, disk, fd, buffer, rotationTp, index, call, logged, messages, holder>>
      /\ step = "idle" /\ pc' = [pc EXCEPT ![t] = "in_sink"] /\ pc[t] = "sink"
      /\ given' = Append(given, m) /\ msg' = Len(given) + 1
      /\ sink = "rotating" => step' \in {"flush", "write"}
      /\ sink # "rotating" => step' = IF m.time >= rotationTp THEN "close" ELSE "write"
  BY DEF EnterSink, RLog, DLog, Give, fileVars, dailyVars, rotatingVars, tracerVars,
         counts, To
<1>2. m \in Stamped /\ given \in Seq(Stamped) /\ Stamped' = Stamped
  BY <1>1 DEF ClientsOK, CallsTyped, Calls, Stamped
<1>3. sink \in {"rotating", "daily"} /\ sink' = sink
  BY <1>1, LoggerAssumption DEF ClientsOK, sink
<1>. HIDE DEF m
<1>4. /\ given' \in Seq(Stamped) /\ Len(given') = Len(given) + 1 /\ Len(given) \in Nat
      /\ given'[Len(given) + 1] = m
  BY <1>1, <1>2
<1>5. \A a \in Names : Content(a)' = Content(a) /\ (Exists(a)' <=> Exists(a))
  BY <1>1 DEF Content, Exists
<1>6. \A k \in Nat : Absent(k)' <=> Absent(k)
  BY <1>1, <1>5 DEF Absent
<1>7. FInv'
  BY <1>1, <1>4, <1>5, <1>6
     DEF FInv, FilesOK, Ordered, BufferNewest, Past, Before, Sorted, Older, sink, Exists
<1>8. OpenIsNewest'
  BY <1>1, <1>5 DEF OpenIsNewest, Older, sink
<1>9. SinkOK'
  <2>1. msg' \in Nat /\ msg' > Len(given) /\ Absent(msg)'
    <3>1. \A k \in Nat : k > Len(given) => Absent(k)'
      BY <1>6 DEF FInv, Past
    <3>. QED
      BY <1>1, <1>4, <3>1 DEF Absent
  <2>2. step' \in {"flush", "write", "close"}
    BY <1>1, <1>3
  <2>. QED
    BY <1>1, <1>4, <2>1, <2>2 DEF SinkOK
<1>10. RotatingOK'
  BY <1>1, <1>3 DEF RotatingOK, sink
<1>11. DailyOK'
  <2>. SUFFICES ASSUME sink = "daily" PROVE DailyOK'
    BY <1>3 DEF DailyOK
  <2>1. m.time \in Nat
    BY <1>2 DEF Stamped
  <2>2. /\ rotationTp \in Nat
        /\ \A a \in Names : InUse(a) => a <= Day(now) /\ a <= Day(rotationTp)
    BY <1>1 DEF DailyOK
  <2>3. \A a \in Names : InUse(a)' => InUse(a)
    BY <1>1, <1>5 DEF InUse
  <2>4. step' \in {"close", "write"} /\ (step' = "close" => rotationTp <= m.time)
    BY <1>1, <2>1, <2>2
  <2>5. step' = "close" => rotationTp' <= (given'[msg']).time
    BY <1>1, <1>4, <2>4
  <2>. QED
    BY <1>1, <2>2, <2>3, <2>4, <2>5 DEF DailyOK, Day
<1>12. ClientsOK'
  <2>1. CallsTyped'
    BY <1>1, <1>2 DEF ClientsOK, CallsTyped, Calls, Places
  <2>2. DumperOK'
    BY <1>1 DEF ClientsOK, CallsTyped, DumperOK
  <2>. QED
    BY <1>1, <1>2, <1>4, <2>1, <2>2 DEF ClientsOK
<1>. QED
  BY <1>7, <1>8, <1>9, <1>10, <1>11, <1>12

\* The call in the sink goes on.
LEMMA SinkStepOK ==
  ASSUME IInv, SinkStep
  PROVE  IInv'
<1>. USE DEF IInv
<1>1. /\ UNCHANGED <<now, bounds, call, messages, holder, logged>>
      /\ \A t \in Threads : pc'[t] = pc[t] \/ (pc[t] = "in_sink" /\ pc'[t] = "sunk")
      /\ pc' = [t \in Threads |-> pc'[t]]
  BY DEF SinkStep, tracerVars, counts
<1>2. now \in 0..MaxTime /\ given \in Seq(Stamped) /\ Len(given) \in Nat
  BY DEF ClientsOK
<1>3. OrderInv' /\ given' = given
  BY <1>1, <1>2, RStepOK, DStepOK DEF SinkStep
<1>4. Stamped' = Stamped /\ Calls' = Calls
  BY <1>1 DEF Stamped, Calls
<1>5. pc \in [Threads -> Places] /\ pc' \in [Threads -> Places]
  <2>1. pc \in [Threads -> Places]
    BY DEF ClientsOK, CallsTyped
  <2>2. \A t \in Threads : pc'[t] \in Places
    BY <1>1, <2>1 DEF Places
  <2>. QED
    BY <1>1, <2>1, <2>2
<1>6. CallsTyped' /\ DumperOK'
  BY <1>1, <1>4, <1>5 DEF ClientsOK, CallsTyped, DumperOK
<1>7. ClientsOK'
  BY <1>1, <1>3, <1>4, <1>6 DEF ClientsOK
<1>. QED
  BY <1>3, <1>7

\* The flush after a message.
LEMMA AfterSinkOK ==
  ASSUME IInv, NEW t \in Threads, AfterSink(t)
  PROVE  IInv'
<1>. USE DEF IInv
<1>1. /\ UNCHANGED <<step, msg, given, index, rotationTp, now, bounds, messages, holder, logged>>
      /\ pc[t] = "sunk" /\ Continue(t)
      /\ UNCHANGED fileVars \/ (step = "idle" /\ (FlushFile \/ FlushFails))
  BY DEF AfterSink, callFrame, rotatingVars, dailyVars, tracerVars, counts
<1>2. Stamped' = Stamped /\ Calls' = Calls
  BY <1>1 DEF Stamped, Calls
<1>3. OrderInv'
  <2>1. CASE UNCHANGED fileVars
    <3>1. UNCHANGED <<files, bounds>>
      BY <1>1, <2>1 DEF AfterSink, files, sinkVars, callFrame, rotatingVars, dailyVars
    <3>. QED
      BY <3>1, OrderUnchanged
  <2>2. CASE step = "idle" /\ (FlushFile \/ FlushFails)
    <3>1. FInv' /\ OpenIsNewest' /\ NoNewData /\ fd' = fd
      BY <1>1, <2>2, FlushKeeps DEF OrderInv
    <3>2. SinkOK'
      BY <1>1, <2>2 DEF OrderInv, SinkOK, Waiting
    <3>3. RotatingOK'
      BY <1>1, <3>1 DEF OrderInv, RotatingOK, sink
    <3>4. \A a \in Names : InUse(a)' => InUse(a)
      BY <3>1 DEF InUse, NoNewData
    <3>5. DailyOK'
      BY <1>1, <2>2, <3>4 DEF OrderInv, DailyOK, Day, sink
    <3>. QED
      BY <3>1, <3>2, <3>3, <3>5 DEF OrderInv
  <2>. QED
    BY <1>1, <2>1, <2>2
<1>4. CallsTyped'
  BY <1>1, <1>2, ContinueMoves DEF ClientsOK
<1>5. DumperOK'
  <2>1. CallsTyped /\ DumperOK
    BY DEF ClientsOK
  <2>2. call[t] \in Calls
    BY <1>1, <2>1 DEF CallsTyped
  <2>3. \/ pc' = [pc EXCEPT ![t] = "idle"] /\ call' = [call EXCEPT ![t] = NoCall]
        \/ /\ call' = call
           /\ \E place \in {"trace", "lock", "pop"} :
                /\ pc' = [pc EXCEPT ![t] = place]
                /\ place = "pop" <=> call[t].kind = "item"
    BY <1>1, <2>2 DEF Continue, Return, To, Calls
  <2>. QED
    BY <1>1, <2>1, <2>2, <2>3 DEF CallsTyped, DumperOK, NoCall
<1>6. ClientsOK'
  BY <1>1, <1>2, <1>4, <1>5 DEF ClientsOK
<1>. QED
  BY <1>3, <1>6

\* The clock moves on: messages are older, no file is of a day to come.
LEMMA ClockTickOK ==
  ASSUME IInv, ClockTick
  PROVE  IInv'
<1>. USE DEF IInv
<1>1. /\ now' = now + 1 /\ now < MaxTime /\ now \in Nat /\ MaxTime \in Nat
      /\ UNCHANGED <<disk, fd, buffer, step, msg, given, index, rotationTp, bounds>>
      /\ UNCHANGED <<pc, call, messages, holder, logged>>
  BY DailyAssumption
     DEF ClockTick, Tick, ClientsOK, sinkVars, fileVars, callFrame, rotatingVars, dailyVars,
         threadVars, tracerVars, counts
<1>2. Stamped \subseteq Stamped' /\ Calls \subseteq Calls'
  BY <1>1 DEF Stamped, Calls
<1>3. \A a \in Names : Content(a)' = Content(a) /\ (Exists(a)' <=> Exists(a))
  BY <1>1 DEF Content, Exists
<1>4. FInv' /\ OpenIsNewest' /\ SinkOK' /\ RotatingOK'
  BY <1>1, <1>3 DEF OrderInv, FInv, FilesOK, Ordered, BufferNewest, Past, Absent, Before,
                    Sorted, Older, sink, Exists, OpenIsNewest, SinkOK, RotatingOK
<1>5. DailyOK'
  <2>1. Day(now) <= Day(now') /\ Day(now) \in Nat /\ Day(now') \in Nat
    BY <1>1, DayMonotone
  <2>2. Day(now)' = Day(now') /\ Day(rotationTp)' = Day(rotationTp)
    BY <1>1 DEF Day
  <2>3. \A a \in Names : InUse(a)' => InUse(a)
    BY <1>1, <1>3 DEF InUse
  <2>4. \A a \in Names : a \in Nat
    BY FileAssumption
  <2>. QED
    BY <1>1, <2>1, <2>2, <2>3, <2>4 DEF OrderInv, DailyOK, sink
<1>6. ClientsOK'
  <2>1. BacktraceSize \in Nat
    BY LoggerAssumption
  <2>2. messages \in QueueType(BacktraceSize, Stamped') /\ Contents(messages) \in Seq(Stamped')
    BY <1>2, <2>1, WiderContents DEF ClientsOK
  <2>3. given \in Seq(Stamped')
    BY <1>2 DEF ClientsOK
  <2>4. CallsTyped' /\ DumperOK'
    BY <1>1, <1>2 DEF ClientsOK, CallsTyped, DumperOK
  <2>. QED
    BY <1>1, <2>2, <2>3, <2>4 DEF ClientsOK
<1>. QED
  BY <1>4, <1>5, <1>6 DEF OrderInv

\* The process dies: the files keep some of the buffer, the rest starts again.
LEMMA CrashOK ==
  ASSUME IInv, Crash
  PROVE  IInv'
<1>. USE DEF IInv, OrderInv
<1>1. /\ Die /\ UNCHANGED <<index, rotationTp, now, bounds, logged, given>>
      /\ step' = "down" /\ msg' = 0
      /\ pc' = [t \in Threads |-> "idle"] /\ call' = [t \in Threads |-> NoCall]
      /\ messages' = NewQ(BacktraceSize)
  BY DEF Crash, Die, rotatingVars, dailyVars
<1>2. Stamped' = Stamped /\ Calls' = Calls
  BY <1>1 DEF Stamped, Calls
<1>3. FInv' /\ OpenIsNewest' /\ NoNewData /\ fd' = NoName
  BY <1>1, DieKeeps
<1>4. given \in Seq(Stamped) /\ Len(given) \in Nat /\ BacktraceSize \in Nat
  BY LoggerAssumption DEF ClientsOK
<1>5. SinkOK'
  BY <1>1, <1>3, <1>4 DEF SinkOK, Waiting
<1>6. RotatingOK'
  BY <1>1, <1>3 DEF RotatingOK, sink
<1>7. DailyOK'
  <2>1. \A a \in Names : InUse(a)' => InUse(a)
    BY <1>3, FileAssumption, StillInUse
  <2>. QED
    BY <1>1, <2>1 DEF DailyOK, Day, sink
<1>8. ClientsOK'
  <2>1. CallsTyped' /\ DumperOK'
    BY <1>1 DEF CallsTyped, DumperOK, Places, NoCall
  <2>2. <<>> \in Seq(Stamped)
    OBVIOUS
  <2>3. messages' \in QueueType(BacktraceSize, Stamped) /\ Contents(messages') \in Seq(Stamped)
    BY <1>1, <1>4, <2>2, NewQEmpty
  <2>. QED
    BY <1>1, <1>2, <2>1, <2>3 DEF ClientsOK
<1>. QED
  BY <1>3, <1>5, <1>6, <1>7, <1>8

-----------------------------------------------------------------------------
(* The theorems                                                            *)

\* The invariant holds when the process starts for the first time.
LEMMA InitInvariant == Init => IInv
<1>. SUFFICES ASSUME Init PROVE IInv
  OBVIOUS
<1>. USE DEF Init, FileInit, RInit, DInit
<1>1. \A a \in Names : Content(a) = <<>>
  BY DEF Content, Exists
<1>2. FInv
  BY <1>1 DEF FInv, FilesOK, Ordered, BufferNewest, Past, Absent, Before, Sorted
<1>3. OpenIsNewest /\ SinkOK
  BY DEF OpenIsNewest, SinkOK, Waiting
<1>4. RotatingOK
  BY RotatingAssumption DEF RotatingOK
<1>5. DailyOK
  BY <1>1, FileAssumption DEF DailyOK, InUse
<1>6. ClientsOK
  <2>1. MaxTime \in Nat /\ BacktraceSize \in Nat
    BY DailyAssumption, LoggerAssumption
  <2>2. <<>> \in Seq(Stamped)
    OBVIOUS
  <2>3. messages \in QueueType(BacktraceSize, Stamped) /\ Contents(messages) \in Seq(Stamped)
    BY <2>1, <2>2, NewQEmpty
  <2>4. CallsTyped /\ DumperOK
    BY DEF CallsTyped, DumperOK, Places, NoCall
  <2>. QED
    BY <2>1, <2>2, <2>3, <2>4 DEF ClientsOK
<1>. QED
  BY <1>2, <1>3, <1>4, <1>5, <1>6 DEF IInv, OrderInv

\* Every step of the threads, the sink, the clock and the environment keeps it.
LEMMA NextInvariant == IInv /\ [Next]_vars => IInv'
<1>. SUFFICES ASSUME IInv, [Next]_vars PROVE IInv'
  OBVIOUS
<1>1. CASE Next
  BY <1>1, SinkStepOK, ClockTickOK, CrashOK, EnterSinkOK, AfterSinkOK, ThreadsOK
     DEF Next, ThreadStep
<1>2. CASE UNCHANGED vars
  <2>1. /\ UNCHANGED <<files, bounds>>
        /\ UNCHANGED <<now, given, pc, call, messages, holder, logged>>
    BY <1>2 DEF vars, files, sinkVars, callFrame, threadVars, tracerVars, counts
  <2>2. OrderInv'
    BY <2>1, OrderUnchanged DEF IInv
  <2>3. ClientsOK'
    BY <2>1 DEF IInv, ClientsOK, Stamped, CallsTyped, Calls, DumperOK
  <2>. QED
    BY <2>2, <2>3 DEF IInv
<1>. QED
  BY <1>1, <1>2

\* Order in the files implies order in the files of the sink.
LEMMA OrderOfSink == IInv => InOrder
<1>. SUFFICES ASSUME IInv PROVE InOrder
  OBVIOUS
<1>1. Ordered /\ bounds \in Scenarios
  BY DEF IInv, OrderInv, FInv, ClientsOK
<1>2. CASE sink = "rotating"
  <2>1. 0..MaxFiles \subseteq Names /\ MaxFiles \in Nat
    BY RotatingAssumption
  <2>2. RInOrder
    BY <1>1, <1>2, <2>1 DEF Ordered, Older, RInOrder
  <2>. QED
    BY <1>2, <2>2 DEF InOrder
<1>3. CASE sink # "rotating"
  BY <1>1, <1>3 DEF Ordered, Older, DInOrder, InOrder
<1>. QED
  BY <1>2, <1>3

\* The files of the sink hold the messages in the order it was given them,
\* older files the older messages, through rotations that fail half-way,
\* crashes at any step and messages that arrive late: rotating_file_sink and
\* daily_file_sink under the synchronous logger.
THEOREM FilesInOrder == Spec => []InOrder
<1>1. Init => IInv
  BY InitInvariant
<1>2. IInv /\ [Next]_vars => IInv'
  BY NextInvariant
<1>3. IInv => InOrder
  BY OrderOfSink
<1>. QED
  BY <1>1, <1>2, <1>3, PTL DEF Spec

\* The message that foreach_pop of the backtracer hands to the sink stays the
\* front of its ring until it is popped, however many threads trace, dump and
\* switch the tracer.
THEOREM DumpedMessageStays == Spec => []DumpedStaysFront
<1>1. Init => IInv
  BY InitInvariant
<1>2. IInv /\ [Next]_vars => IInv'
  BY NextInvariant
<1>3. IInv => DumpedStaysFront
  BY DEF IInv, ClientsOK, DumperOK, DumpedStaysFront
<1>. QED
  BY <1>1, <1>2, <1>3, PTL DEF Spec

-----------------------------------------------------------------------------
(* What a crash takes                                                      *)

\* Some thread is in the call that gave the sink message n.
InCall(n, places) == \E t \in Threads : pc[t] \in places /\ call[t].m = given[n]

\* The message under way is that of the thread in the sink; with flush_on, and
\* while nothing fails, every message in the buffer is that of a thread that has
\* yet to flush it.
Unreturned ==
  /\ faults \in Nat
  /\ msg # 0 /\ step \notin {"idle", "down"} => InCall(msg, {"in_sink"})
  /\ FlushOn /\ faults = 0 =>
       \A n \in Range(buffer) : n \in DOMAIN given /\ InCall(n, {"in_sink", "sunk"})

\* A step that moves no thread out of the sink's calls.
LEMMA StillInCall ==
  ASSUME NEW n, NEW places, given'[n] = given[n],
         \A t \in Threads : pc[t] \in places => pc'[t] \in places /\ call'[t] = call[t],
         InCall(n, places)
  PROVE  InCall(n, places)'
BY DEF InCall

\* The steps of the logger and of the tracer, and the clock's, leave the sink
\* and the threads in it alone.
LEMMA OutsideUnreturned ==
  ASSUME IInv, Unreturned, UNCHANGED <<buffer, faults, step, msg, given>>,
         \A t \in Threads : pc[t] \in {"in_sink", "sunk"} => pc'[t] = pc[t] /\ call'[t] = call[t]
  PROVE  Unreturned'
<1>1. \A n : InCall(n, {"in_sink"}) => InCall(n, {"in_sink"})'
  BY DEF InCall
<1>2. \A n : InCall(n, {"in_sink", "sunk"}) => InCall(n, {"in_sink", "sunk"})'
  BY DEF InCall
<1>. QED
  BY <1>1, <1>2 DEF Unreturned, Range

\* What the operations of file_helper do to the buffer: without a failure they
\* keep it, empty it, or add the message under way.
LEMMA FilesBuffer ==
  ASSUME NEW name, NEW truncate, faults \in Nat,
         \/ OpenFile(name, truncate) \/ OpenFails(name, truncate)
         \/ FlushFile \/ FlushFails \/ CloseFile
  PROVE  faults' \in {faults, faults + 1} /\ (faults' = faults => buffer' \in {buffer, <<>>})
<1>1. CASE OpenFile(name, truncate)
  BY <1>1, Zenon DEF OpenFile
<1>2. CASE OpenFails(name, truncate)
  BY <1>2, Zenon DEF OpenFails, Fault
<1>3. CASE FlushFile \/ CloseFile
  BY <1>3, Zenon DEF FlushFile, CloseFile, Fault
<1>4. CASE FlushFails
  <2>1. faults' = faults + 1 /\ \E n \in 0..Len(buffer) : buffer' \in {<<>>, SubSeq(buffer, n + 1, Len(buffer))}
    BY <1>4, Zenon DEF FlushFails, Fault
  <2>. QED
    BY <2>1
<1>. QED
  BY <1>1, <1>2, <1>3, <1>4

\* A step of the sink's call.
LEMMA SinkStepBuffer ==
  ASSUME faults \in Nat, SinkStep
  PROVE  /\ UNCHANGED <<given, msg, call>> /\ step # "idle" /\ faults' \in {faults, faults + 1}
         /\ faults' = faults =>
              \/ buffer' \in {buffer, <<>>}
              \/ buffer' = Append(buffer, msg) /\ step \in {"write", "write_rotated"}
<1>0. call' = call /\ (RStep \/ DStep)
  BY DEF SinkStep
<1>1. CASE RStep
  <2>1. CASE ROpen \/ ROpenFails
    BY <1>0, <2>1, FilesBuffer DEF ROpen, ROpenFails, Goto, callFrame
  <2>2. CASE RFlush \/ RFlushFails
    BY <1>0, <2>2, FilesBuffer DEF RFlush, RFlushFails, Goto, Throw
  <2>3. CASE RClose
    BY <1>0, <2>3, FilesBuffer DEF RClose, Goto
  <2>4. CASE Rename \/ RenameFails
    BY <1>0, <2>4 DEF Rename, RenameFails, Fault, Goto, callFrame
  <2>5. CASE Reopen \/ ReopenFails
    BY <1>0, <2>5, FilesBuffer DEF Reopen, ReopenFails, Goto, RThrow, Throw
  <2>6. CASE Abandon \/ AbandonFails
    BY <1>0, <2>6, FilesBuffer DEF Abandon, AbandonFails, Goto, RThrow, Throw
  <2>7. CASE RWrite \/ RWriteFails
    BY <1>0, <2>7 DEF RWrite, RWriteFails, WriteMessage, WriteFails, Fault, Goto, Throw
  <2>. QED
    BY <1>1, <2>1, <2>2, <2>3, <2>4, <2>5, <2>6, <2>7 DEF RStep
<1>2. CASE DStep
  <2>1. CASE DOpen \/ DOpenFails
    BY <1>0, <2>1, FilesBuffer DEF DOpen, DOpenFails, Goto, callFrame
  <2>2. CASE DClose
    BY <1>0, <2>2, FilesBuffer DEF DClose, Goto
  <2>3. CASE DReopen \/ DReopenFails
    BY <1>0, <2>3, FilesBuffer DEF DReopen, DReopenFails, Goto, Throw
  <2>4. CASE DWrite \/ DWriteFails
    BY <1>0, <2>4 DEF DWrite, DWriteFails, WriteMessage, WriteFails, Fault, Goto, Throw
  <2>5. CASE AddFilename \/ DeleteOldFails
    BY <1>0, <2>5 DEF AddFilename, DeleteOldFails, Fault, Goto, Throw
  <2>6. CASE DSchedule \/ DList
    BY <1>0, <2>6 DEF DSchedule, DList, Goto, fileVars
  <2>. QED
    BY <1>2, <2>1, <2>2, <2>3, <2>4, <2>5, <2>6 DEF DStep
<1>. QED
  BY <1>0, <1>1, <1>2

\* The call in the sink goes on, and its thread waits for it.
LEMMA SinkStepUnreturned ==
  ASSUME IInv, Unreturned, SinkStep
  PROVE  Unreturned'
<1>1. /\ UNCHANGED <<given, msg, call>> /\ step # "idle" /\ faults' \in Nat
      /\ pc' = [t \in Threads |-> IF pc[t] = "in_sink" /\ step' = "idle" THEN "sunk" ELSE pc[t]]
  BY SinkStepBuffer DEF SinkStep, Unreturned
<1>2. ASSUME msg # 0, step' \notin {"idle", "down"} PROVE InCall(msg, {"in_sink"})'
  <2>1. step # "down"
    BY <1>2 DEF IInv, OrderInv, SinkOK
  <2>2. InCall(msg, {"in_sink"})
    BY <1>1, <1>2, <2>1 DEF Unreturned
  <2>. QED
    BY <1>1, <1>2, <2>2 DEF InCall
<1>3. \A n : InCall(n, {"in_sink", "sunk"}) => InCall(n, {"in_sink", "sunk"})'
  BY <1>1 DEF InCall
<1>4. ASSUME FlushOn, faults' = 0, NEW n \in Range(buffer')
      PROVE  n \in DOMAIN given /\ InCall(n, {"in_sink", "sunk"})'
  <2>1. /\ faults = 0
        /\ \/ buffer' \in {buffer, <<>>}
           \/ buffer' = Append(buffer, msg) /\ step \in {"write", "write_rotated"}
    BY <1>4, SinkStepBuffer DEF Unreturned
  <2>2. buffer \in Seq(Nat)
    BY DEF IInv, OrderInv, FInv, FilesOK
  <2>3. CASE n \in Range(buffer)
    BY <1>3, <1>4, <2>1, <2>3 DEF Unreturned
  <2>4. CASE n \notin Range(buffer)
    <3>1. buffer' = Append(buffer, msg) /\ step \in {"write", "write_rotated"}
      BY <1>4, <2>1, <2>4 DEF Range
    <3>2. msg # 0 /\ msg \in 1..Len(given) /\ given \in Seq(Stamped)
      BY <3>1 DEF IInv, OrderInv, SinkOK, ClientsOK
    <3>3. n = msg
      <4>1. \A k \in DOMAIN buffer' : buffer'[k] = msg \/ buffer'[k] \in Range(buffer)
        BY <2>2, <3>1, <3>2 DEF Range
      <4>. QED
        BY <1>4, <2>4, <4>1 DEF Range
    <3>4. InCall(msg, {"in_sink"})
      BY <3>1, <3>2 DEF Unreturned
    <3>5. InCall(msg, {"in_sink", "sunk"})
      BY <3>4 DEF InCall
    <3>. QED
      BY <1>3, <3>2, <3>3, <3>5
  <2>. QED
    BY <2>3, <2>4
<1>5. msg' # 0 /\ step' \notin {"idle", "down"} => InCall(msg, {"in_sink"})'
  BY <1>1, <1>2
<1>. QED
  BY <1>1, <1>4, <1>5 DEF Unreturned, InCall, Range

\* A message is given to the sink.
LEMMA EnterSinkUnreturned ==
  ASSUME IInv, Unreturned, NEW t \in Threads, EnterSink(t)
  PROVE  Unreturned'
<1>. DEFINE m == call[t].m
<1>1. /\ UNCHANGED <<buffer, faults, call>> /\ step = "idle" /\ pc[t] = "sink"
      /\ pc' = [pc EXCEPT ![t] = "in_sink"]
      /\ given' = Append(given, m) /\ msg' = Len(given) + 1
  BY DEF EnterSink, RLog, DLog, Give, fileVars, To
<1>2. m \in Stamped /\ given \in Seq(Stamped) /\ pc \in [Threads -> Places]
  BY <1>1 DEF IInv, ClientsOK, CallsTyped, Calls
<1>3. /\ given'[msg'] = m /\ Len(given') = Len(given) + 1
      /\ \A n \in DOMAIN given : n \in DOMAIN given' /\ given'[n] = given[n]
  BY <1>1, <1>2
<1>4. pc'[t] = "in_sink" /\ \A u \in Threads : u # t => pc'[u] = pc[u]
  BY <1>1, <1>2
<1>5. InCall(msg, {"in_sink"})'
  BY <1>1, <1>3, <1>4 DEF InCall
<1>6. ASSUME NEW n \in DOMAIN given, InCall(n, {"in_sink", "sunk"})
      PROVE  InCall(n, {"in_sink", "sunk"})'
  BY <1>1, <1>3, <1>4, <1>6 DEF InCall
<1>. QED
  BY <1>1, <1>3, <1>5, <1>6 DEF Unreturned, Range, InCall

\* The flush that ends a call empties the buffer, or has failed.
LEMMA AfterSinkUnreturned ==
  ASSUME IInv, Unreturned, NEW t \in Threads, AfterSink(t)
  PROVE  Unreturned'
<1>1. /\ pc[t] = "sunk" /\ UNCHANGED <<step, msg, given>> /\ Continue(t)
      /\ FlushOn => FlushFile \/ FlushFails
      /\ ~FlushOn => UNCHANGED fileVars
  BY DEF AfterSink, callFrame
<1>2. \A u \in Threads : pc[u] = "in_sink" => pc'[u] = "in_sink" /\ call'[u] = call[u]
  <2>1. pc \in [Threads -> Places] /\ call \in [Threads -> Calls \cup {NoCall}]
    BY DEF IInv, ClientsOK, CallsTyped
  <2>2. \A u \in Threads : u # t => pc'[u] = pc[u] /\ call'[u] = call[u]
    BY <1>1, <2>1 DEF Continue, Return, To
  <2>. QED
    BY <1>1, <2>2
<1>3. \A n : InCall(n, {"in_sink"}) => InCall(n, {"in_sink"})'
  BY <1>1, <1>2 DEF InCall
<1>4. faults' \in Nat /\ (FlushOn /\ faults' = 0 => buffer' = <<>>)
  BY <1>1 DEF Unreturned, FlushFile, FlushFails, Fault, fileVars
<1>. QED
  BY <1>1, <1>3, <1>4 DEF Unreturned, Range, InCall

\* Every step keeps the buffer to threads that have yet to flush.
LEMMA NextUnreturned == IInv /\ Unreturned /\ [Next]_vars => Unreturned'
<1>. SUFFICES ASSUME IInv, Unreturned, [Next]_vars PROVE Unreturned'
  OBVIOUS
<1>0. pc \in [Threads -> Places] /\ call \in [Threads -> Calls \cup {NoCall}]
  BY DEF IInv, ClientsOK, CallsTyped
<1>1. ASSUME NEW t \in Threads, NEW level \in {"debug", "info"},
             \/ Log(t, level) \/ Trace(t) \/ Switch(t) \/ Dump(t)
             \/ Lock(t) \/ Item(t) \/ Pop(t) \/ Unlock(t)
      PROVE  Unreturned'
  <2>1. UNCHANGED <<buffer, faults, step, msg, given>>
    BY <1>1 DEF Log, Trace, Switch, Dump, Lock, Item, Pop, Unlock, files, sinkVars, fileVars, callFrame
  <2>2. pc[t] \notin {"in_sink", "sunk"} \/ (pc' = pc /\ call' = call)
    BY <1>1 DEF Log, Trace, Switch, Dump, Lock, Item, Pop, Unlock
  <2>3. \A u \in Threads : u # t => pc'[u] = pc[u] /\ call'[u] = call[u]
    BY <1>0, <1>1 DEF Log, Trace, Switch, Dump, Lock, Item, Pop, Unlock, threadVars, To, Becomes, Return
  <2>. QED
    BY <2>1, <2>2, <2>3, OutsideUnreturned
<1>2. CASE Crash
  <2>1. msg' = 0 /\ buffer' = <<>> /\ faults' = faults
    BY <1>2 DEF Crash, Die
  <2>. QED
    BY <2>1 DEF Unreturned, Range
<1>3. CASE ClockTick \/ UNCHANGED vars
  <2>1. UNCHANGED <<buffer, faults, step, msg, given, pc, call>>
    BY <1>3 DEF ClockTick, vars, files, sinkVars, fileVars, callFrame, threadVars
  <2>. QED
    BY <2>1, OutsideUnreturned
<1>. QED
  BY <1>1, <1>2, <1>3, SinkStepUnreturned, EnterSinkUnreturned, AfterSinkUnreturned
     DEF Next, ThreadStep

\* Nothing is buffered at the start.
LEMMA InitUnreturned == Init => Unreturned
BY DEF Init, FileInit, Unreturned, Range

\* With flush_on, and while nothing else fails, a process that dies loses no
\* message whose call has returned, of the dumps' messages either: what the
\* buffer holds is of calls still under the sink or before their flush.
THEOREM ReturnedSurvives == Spec => CrashKeepsReturned
<1>1. Init => IInv /\ Unreturned
  BY InitInvariant, InitUnreturned
<1>2. IInv /\ Unreturned /\ [Next]_vars => (IInv /\ Unreturned)'
  BY NextInvariant, NextUnreturned
<1>3. IInv /\ Unreturned =>
        [ crashes' # crashes /\ FlushOn /\ faults = 0 =>
            \A n \in Range(buffer) :
              n \in Kept' \/ \E t \in Threads : pc[t] \in {"in_sink", "sunk"}
                                                /\ call[t].m = given[n] ]_vars
  BY DEF Unreturned, InCall
<1>. QED
  BY <1>1, <1>2, <1>3, PTL DEF Spec, CrashKeepsReturned

-----------------------------------------------------------------------------
(* The order of the dumps                                                  *)

\* A message that reaches the sink through a dump only.
Debug(m) == m.n > 0 /\ m.size = 1

\* Of one thread's debug messages, a was logged before b.
Earlier(a, b) == a.by = b.by /\ Debug(a) /\ Debug(b) => a.n < b.n

\* The front of the ring has been given to the sink and is not popped yet.
FrontGiven ==
  \E t \in Threads : call[t].kind = "item" /\ pc[t] \in {"in_sink", "sunk", "pop"}

Ring == Contents(messages)

\* A debug message is in the ring before a dump gives it to the sink: what the
\* sink was given is earlier than what the ring has to give, and that is
\* earlier than what is still to be traced.
InTurn ==
  /\ \A i, j \in DOMAIN given : i < j => Earlier(given[i], given[j])
  /\ \A i, j \in DOMAIN Ring : i < j => Earlier(Ring[i], Ring[j])
  /\ \A i \in DOMAIN given, j \in DOMAIN Ring :
       (FrontGiven => j > 1) => Earlier(given[i], Ring[j])

TracedLast ==
  \A t \in Threads :
    pc[t] = "trace" =>
      /\ \A i \in DOMAIN given : Earlier(given[i], call[t].m)
      /\ \A j \in DOMAIN Ring : Earlier(Ring[j], call[t].m)

\* Messages are numbered as they are logged; a call gives the sink no debug
\* message but those of a dump.
Numbered ==
  /\ \A i \in DOMAIN given : given[i].n <= logged
  /\ \A j \in DOMAIN Ring : Ring[j].n <= logged
  /\ \A t \in Threads : pc[t] # "idle" =>
       /\ call[t].m.n <= logged
       /\ call[t].kind = "traced" => call[t].m.by = t
       /\ pc[t] = "trace" => call[t].kind = "traced"
       /\ pc[t] \in {"sink", "in_sink", "sunk"} /\ call[t].kind # "item" => ~Debug(call[t].m)

DumpInv == InTurn /\ TracedLast /\ Numbered

\* push_back puts an item at the end of the contents and drops at most the
\* first; pop_front drops the first, which is the front.
LEMMA PushedItems ==
  ASSUME NEW n \in Nat, NEW S, NEW q \in QueueType(n, S), NEW m \in S, Contents(q) \in Seq(S)
  PROVE  \E d \in {0, 1} : \A j \in DOMAIN Contents(PushBack(q, m)) :
           /\ j \in Nat /\ j + d \in 1..(Len(Contents(q)) + 1)
           /\ Contents(PushBack(q, m))[j] =
                IF j + d = Len(Contents(q)) + 1 THEN m ELSE Contents(q)[j + d]
<1>. DEFINE c == Contents(q)
            p == Contents(PushBack(q, m))
<1>1. Len(c) \in Nat /\ c \in Seq(S)
  OBVIOUS
<1>2. CASE ~IsFull(q)
  <2>1. p = Append(c, m)
    BY <1>2, PushBackAppends
  <2>. HIDE DEF c, p
  <2>2. \A j \in DOMAIN p : /\ j \in Nat /\ j + 0 \in 1..(Len(c) + 1)
                            /\ p[j] = IF j + 0 = Len(c) + 1 THEN m ELSE c[j + 0]
    BY <1>1, <2>1
  <2>. QED
    BY <2>2 DEF c, p
<1>3. CASE IsFull(q)
  <2>1. p = Tail(Append(c, m))
    BY <1>3, PushBackOverruns
  <2>. HIDE DEF c, p
  <2>2. \A j \in DOMAIN p : /\ j \in Nat /\ j + 1 \in 1..(Len(c) + 1)
                            /\ p[j] = IF j + 1 = Len(c) + 1 THEN m ELSE c[j + 1]
    BY <1>1, <2>1
  <2>. QED
    BY <2>2 DEF c, p
<1>. QED
  BY <1>2, <1>3

\* Popping shifts the ring's items by one.
LEMMA PoppedItems ==
  ASSUME NEW n \in Nat, NEW S, NEW q \in QueueType(n, S), Contents(q) \in Seq(S), ~IsEmpty(q)
  PROVE  /\ 1 \in DOMAIN Contents(q) /\ Contents(q)[1] = Front(q)
         /\ \A j \in DOMAIN Contents(PopFront(q)) :
              /\ j \in Nat /\ j + 1 \in DOMAIN Contents(q) /\ j + 1 > 1
              /\ Contents(PopFront(q))[j] = Contents(q)[j + 1]
<1>. DEFINE c == Contents(q)
            p == Contents(PopFront(q))
<1>1. c # <<>> /\ Front(q) = Head(c) /\ p = Tail(c) /\ c \in Seq(S) /\ Len(c) \in Nat
  BY TakeFrontTakesHead, PopFrontLeavesTail
<1>. HIDE DEF c, p
<1>2. 1 \in DOMAIN c /\ c[1] = Front(q)
  BY <1>1
<1>3. \A j \in DOMAIN p : /\ j \in Nat /\ j + 1 \in DOMAIN c /\ j + 1 > 1 /\ p[j] = c[j + 1]
  BY <1>1
<1>. QED
  BY <1>2, <1>3 DEF c, p

\* What the invariant of the sink and the ring says of the messages.
LEMMA MessagesTyped ==
  ASSUME IInv
  PROVE  /\ given \in Seq(Stamped) /\ Ring \in Seq(Stamped) /\ logged \in Nat
         /\ pc \in [Threads -> Places] /\ call \in [Threads -> Calls \cup {NoCall}]
         /\ \A t \in Threads : pc[t] # "idle" => call[t] \in Calls /\ call[t].m \in Stamped
         /\ \A m \in Stamped : m.n \in Nat /\ m.size \in Nat /\ m.by \in Threads
         /\ BacktraceSize \in Nat /\ messages \in QueueType(BacktraceSize, Stamped)
BY LoggerAssumption DEF IInv, ClientsOK, CallsTyped, Calls, Ring, Stamped

\* Steps that give the sink nothing and leave the ring.
LEMMA TurnKept ==
  ASSUME InTurn, UNCHANGED <<given, messages>>, FrontGiven => FrontGiven'
  PROVE  InTurn'
<1>1. Ring' = Ring
  BY DEF Ring
<1>. QED
  BY <1>1 DEF InTurn

\* Steps of thread t that give the sink nothing and leave the ring.
LEMMA QuietDump ==
  ASSUME IInv, DumpInv, NEW t \in Threads, NEW level \in {"debug", "info"},
         Log(t, level) \/ Dump(t) \/ Lock(t) \/ Item(t) \/ Unlock(t) \/ AfterSink(t)
  PROVE  DumpInv'
<1>. USE DEF DumpInv
<1>1. UNCHANGED <<given, messages>> /\ Ring' = Ring
  BY DEF Log, Dump, Lock, Item, Unlock, AfterSink, files, sinkVars, callFrame, tracerVars, Ring
<1>2. \A u \in Threads : u # t => pc'[u] = pc[u] /\ call'[u] = call[u]
  BY MessagesTyped DEF Log, Dump, Lock, Item, Unlock, AfterSink, Continue, To, Becomes, Return
<1>3. /\ logged' \in Nat /\ logged' >= logged
      /\ \A i \in DOMAIN given : given[i] \in Stamped
      /\ \A j \in DOMAIN Ring : Ring[j] \in Stamped
  BY MessagesTyped DEF Log, Dump, Lock, Item, Unlock, AfterSink, counts
<1>4. /\ pc'[t] = "idle"
         \/ /\ call'[t].m.n \in Nat /\ call'[t].m.n <= logged'
            /\ call'[t].kind = "traced" => call'[t].m.by = t
            /\ pc'[t] = "trace" => call'[t].kind = "traced"
            /\ pc'[t] \in {"sink", "in_sink", "sunk"} /\ call'[t].kind # "item" => ~Debug(call'[t].m)
      /\ pc'[t] = "trace" => ~Debug(call'[t].m) \/ call'[t].m.n > logged
      /\ call[t].kind = "item" /\ pc[t] \in {"in_sink", "sunk", "pop"} =>
           call'[t].kind = "item" /\ pc'[t] \in {"in_sink", "sunk", "pop"}
  <2>1. CASE Log(t, level)
    <3>. DEFINE m == NewMessage(t, logged + 1, IF level = "debug" THEN 1 ELSE 2)
    <3>1. /\ pc[t] = "idle" /\ logged' = logged + 1 /\ (level = "debug" => tracing)
          /\ call'[t] = [kind |-> IF tracing THEN "traced" ELSE "untraced", m |-> m]
          /\ pc'[t] = IF level = "debug" THEN "trace" ELSE "sink"
      BY <2>1, MessagesTyped DEF Log, Becomes, To
    <3>2. m.by = t /\ m.n = logged + 1 /\ (level # "debug" => ~Debug(m))
      BY DEF NewMessage, Debug
    <3>. HIDE DEF m
    <3>. QED
      BY <3>1, <3>2, MessagesTyped
  <2>2. CASE Dump(t) \/ Unlock(t)
    <3>. DEFINE m == NewMessage(t, 0, 1)
    <3>1. /\ pc[t] \in {"idle", "each"} /\ pc'[t] = "sink" /\ logged' = logged
          /\ \E kind \in {"start", "end"} : call'[t] = [kind |-> kind, m |-> m]
      BY <2>2, MessagesTyped DEF Dump, Unlock, Becomes, To, counts
    <3>2. m.n = 0 /\ ~Debug(m)
      BY DEF NewMessage, Debug
    <3>. HIDE DEF m
    <3>. QED
      BY <3>1, <3>2, MessagesTyped
  <2>3. CASE Lock(t)
    BY <2>3, MessagesTyped DEF Lock, To, counts, Numbered
  <2>4. CASE Item(t)
    <3>1. /\ pc[t] = "each" /\ pc'[t] = "sink" /\ logged' = logged /\ ~IsEmpty(messages)
          /\ call'[t] = [kind |-> "item", m |-> Front(messages)]
      BY <2>4, MessagesTyped DEF Item, Becomes, To, counts
    <3>2. 1 \in DOMAIN Ring /\ Front(messages) = Ring[1]
      BY <3>1, MessagesTyped, PoppedItems DEF Ring
    <3>3. Front(messages).n <= logged /\ Front(messages).n \in Nat
      BY <1>3, <3>2, MessagesTyped DEF Numbered
    <3>. QED
      BY <3>1, <3>3
  <2>5. CASE AfterSink(t)
    <3>1. /\ pc[t] = "sunk" /\ Continue(t) /\ logged' = logged
      BY <2>5 DEF AfterSink, counts
    <3>2. call[t] \in Calls /\ call[t].m \in Stamped /\ Numbered
      BY <3>1, MessagesTyped
    <3>3. \/ pc'[t] = "idle" /\ call[t].kind \in {"untraced", "end"}
          \/ /\ call'[t] = call[t]
             /\ \/ pc'[t] = "trace" /\ call[t].kind = "traced"
                \/ pc'[t] = "lock" /\ call[t].kind = "start"
                \/ pc'[t] = "pop" /\ call[t].kind = "item"
      BY <3>1, <3>2, MessagesTyped DEF Continue, Return, To, Calls
    <3>. QED
      BY <3>1, <3>2, <3>3, MessagesTyped DEF Numbered
  <2>. QED
    BY <2>1, <2>2, <2>3, <2>4, <2>5
<1>5. FrontGiven => FrontGiven'
  BY <1>2, <1>4 DEF FrontGiven
<1>6. InTurn'
  BY <1>1, <1>5, TurnKept
<1>7. TracedLast'
  <2>. SUFFICES ASSUME NEW u \in Threads, pc'[u] = "trace"
                PROVE  /\ \A i \in DOMAIN given : Earlier(given[i], call'[u].m)
                       /\ \A j \in DOMAIN Ring : Earlier(Ring[j], call'[u].m)
    BY <1>1 DEF TracedLast, Earlier, Debug
  <2>1. CASE u # t
    BY <1>2, <2>1 DEF TracedLast
  <2>2. CASE u = t
    <3>1. ~Debug(call'[u].m) \/ (call'[u].m.n > logged /\ call'[u].m.n \in Nat)
      BY <1>4, <2>2
    <3>. QED
      BY <1>3, <3>1, MessagesTyped DEF Earlier, Numbered
  <2>. QED
    BY <2>1, <2>2
<1>8. Numbered'
  <2>1. /\ \A i \in DOMAIN given' : given'[i].n <= logged'
        /\ \A j \in DOMAIN Ring' : Ring'[j].n <= logged'
    BY <1>1, <1>3, MessagesTyped DEF Numbered
  <2>2. ASSUME NEW u \in Threads, pc'[u] # "idle"
        PROVE  /\ call'[u].m.n <= logged'
               /\ call'[u].kind = "traced" => call'[u].m.by = u
               /\ pc'[u] = "trace" => call'[u].kind = "traced"
               /\ pc'[u] \in {"sink", "in_sink", "sunk"} /\ call'[u].kind # "item" => ~Debug(call'[u].m)
    <3>1. CASE u = t
      BY <1>4, <2>2, <3>1
    <3>2. CASE u # t
      BY <1>2, <1>3, <2>2, <3>2, MessagesTyped DEF Numbered
    <3>. QED
      BY <3>1, <3>2
  <2>. QED
    BY <2>1, <2>2 DEF Numbered, Debug
<1>. QED
  BY <1>6, <1>7, <1>8

\* push_back, while nobody dumps.
LEMMA TraceDump ==
  ASSUME IInv, DumpInv, NEW t \in Threads, Trace(t)
  PROVE  DumpInv'
<1>. USE DEF DumpInv
<1>. DEFINE m == call[t].m
<1>1. /\ pc[t] = "trace" /\ holder = NoThread /\ pc'[t] = "idle" /\ UNCHANGED <<given, logged>>
      /\ messages' = PushBack(messages, m)
      /\ \A u \in Threads : u # t => pc'[u] = pc[u] /\ call'[u] = call[u]
  BY MessagesTyped DEF Trace, Return, To, files, sinkVars, callFrame, counts
<1>2. ~FrontGiven
  BY <1>1, LoggerAssumption DEF FrontGiven, IInv, ClientsOK, DumperOK
<1>3. m \in Stamped /\ m.n <= logged /\ m.by = t
  BY <1>1, MessagesTyped DEF Numbered
<1>4. PICK d \in {0, 1} : \A j \in DOMAIN Ring' :
        /\ j \in Nat /\ j + d \in 1..(Len(Ring) + 1)
        /\ Ring'[j] = IF j + d = Len(Ring) + 1 THEN m ELSE Ring[j + d]
  <2>1. Contents(messages) \in Seq(Stamped)
    BY MessagesTyped DEF Ring
  <2>2. \E d \in {0, 1} : \A j \in DOMAIN Contents(PushBack(messages, m)) :
           /\ j \in Nat /\ j + d \in 1..(Len(Contents(messages)) + 1)
           /\ Contents(PushBack(messages, m))[j] =
                IF j + d = Len(Contents(messages)) + 1 THEN m ELSE Contents(messages)[j + d]
    BY <1>3, <2>1, MessagesTyped, PushedItems
  <2>. QED
    BY <1>1, <2>2 DEF Ring
<1>5. Ring \in Seq(Stamped) /\ Len(Ring) \in Nat /\ DOMAIN Ring = 1..Len(Ring)
  BY MessagesTyped
<1>. HIDE DEF m
<1>6. \A j \in DOMAIN Ring' : (j + d \in DOMAIN Ring /\ Ring'[j] = Ring[j + d])
                               \/ (j + d = Len(Ring) + 1 /\ Ring'[j] = m)
  BY <1>4, <1>5
<1>7. /\ \A i \in DOMAIN given : Earlier(given[i], m)
      /\ \A j \in DOMAIN Ring : Earlier(Ring[j], m)
  BY <1>1 DEF TracedLast, m
<1>8. InTurn'
  <2>1. ASSUME NEW i \in DOMAIN Ring', NEW j \in DOMAIN Ring', i < j
        PROVE  Earlier(Ring'[i], Ring'[j])
    <3>1. i + d < j + d /\ i \in Nat /\ j \in Nat
      BY <1>4, <2>1
    <3>2. i + d \in DOMAIN Ring /\ Ring'[i] = Ring[i + d]
      BY <1>4, <1>5, <1>6, <3>1
    <3>. QED
      BY <1>6, <1>7, <3>1, <3>2 DEF InTurn
  <2>2. ASSUME NEW i \in DOMAIN given, NEW j \in DOMAIN Ring'
        PROVE  Earlier(given[i], Ring'[j])
    BY <1>2, <1>6, <1>7 DEF InTurn
  <2>. QED
    BY <1>1, <2>1, <2>2 DEF InTurn, Earlier, Debug
<1>9. TracedLast'
  <2>. SUFFICES ASSUME NEW u \in Threads, pc'[u] = "trace"
                PROVE  /\ \A i \in DOMAIN given : Earlier(given[i], call'[u].m)
                       /\ \A j \in DOMAIN Ring' : Earlier(Ring'[j], call'[u].m)
    BY <1>1 DEF TracedLast, Earlier, Debug
  <2>1. u # t /\ pc[u] = "trace" /\ call'[u] = call[u]
    BY <1>1
  <2>2. call[u].m.by = u
    BY <2>1 DEF Numbered
  <2>3. Earlier(m, call[u].m)
    BY <1>3, <2>1, <2>2 DEF Earlier
  <2>. QED
    BY <1>6, <2>1, <2>3 DEF TracedLast
<1>10. Numbered'
  <2>1. \A j \in DOMAIN Ring' : Ring'[j].n <= logged
    BY <1>3, <1>6 DEF Numbered
  <2>. QED
    BY <1>1, <2>1 DEF Numbered, Debug
<1>. QED
  BY <1>8, <1>9, <1>10

\* The message that was dumped leaves the ring.
LEMMA PopDump ==
  ASSUME IInv, DumpInv, NEW t \in Threads, Pop(t)
  PROVE  DumpInv'
<1>. USE DEF DumpInv
<1>1. /\ pc[t] = "pop" /\ pc'[t] = "each" /\ UNCHANGED <<given, logged, call>>
      /\ messages' = PopFront(messages)
      /\ \A u \in Threads : u # t => pc'[u] = pc[u]
  BY MessagesTyped DEF Pop, To, files, sinkVars, callFrame, counts
<1>2. call[t].kind = "item" /\ ~IsEmpty(messages)
  BY <1>1 DEF IInv, ClientsOK, DumperOK
<1>3. \A j \in DOMAIN Ring' :
        j \in Nat /\ j + 1 \in DOMAIN Ring /\ j + 1 > 1 /\ Ring'[j] = Ring[j + 1]
  <2>1. Contents(messages) \in Seq(Stamped)
    BY MessagesTyped DEF Ring
  <2>. QED
    BY <1>1, <1>2, <2>1, MessagesTyped, PoppedItems DEF Ring
<1>4. InTurn'
  <2>1. ASSUME NEW i \in DOMAIN Ring', NEW j \in DOMAIN Ring', i < j
        PROVE  Earlier(Ring'[i], Ring'[j])
    <3>1. i + 1 < j + 1
      BY <1>3, <2>1
    <3>. QED
      BY <1>3, <3>1 DEF InTurn
  <2>2. ASSUME NEW i \in DOMAIN given, NEW j \in DOMAIN Ring'
        PROVE  Earlier(given[i], Ring'[j])
    BY <1>3 DEF InTurn
  <2>. QED
    BY <1>1, <2>1, <2>2 DEF InTurn, Earlier, Debug
<1>5. TracedLast'
  BY <1>1, <1>3 DEF TracedLast, Earlier, Debug
<1>6. Numbered'
  BY <1>1, <1>3 DEF Numbered, Debug
<1>. QED
  BY <1>4, <1>5, <1>6

\* A message reaches the sink: one of a dump is the front of the ring.
LEMMA EnterSinkDump ==
  ASSUME IInv, DumpInv, NEW t \in Threads, EnterSink(t)
  PROVE  DumpInv'
<1>. USE DEF DumpInv
<1>. DEFINE m == call[t].m
<1>1. /\ pc[t] = "sink" /\ pc'[t] = "in_sink" /\ UNCHANGED <<call, messages, logged>>
      /\ given' = Append(given, m) /\ Ring' = Ring
      /\ \A u \in Threads : u # t => pc'[u] = pc[u]
  BY MessagesTyped DEF EnterSink, RLog, DLog, Give, To, tracerVars, counts, Ring
<1>2. m \in Stamped /\ m.n <= logged /\ (call[t].kind # "item" => ~Debug(m))
  BY <1>1, MessagesTyped DEF Numbered
<1>3. call[t].kind = "item" => ~FrontGiven /\ 1 \in DOMAIN Ring /\ Ring[1] = m
  <2>. SUFFICES ASSUME call[t].kind = "item"
                PROVE  ~FrontGiven /\ 1 \in DOMAIN Ring /\ Ring[1] = m
    OBVIOUS
  <2>1. ~IsEmpty(messages) /\ Front(messages) = m /\ ~FrontGiven
    BY <1>1 DEF IInv, ClientsOK, DumperOK, FrontGiven
  <2>2. Contents(messages) \in Seq(Stamped)
    BY MessagesTyped DEF Ring
  <2>. QED
    BY <2>1, <2>2, MessagesTyped, PoppedItems DEF Ring
<1>4. call[t].kind = "item" => FrontGiven'
  BY <1>1 DEF FrontGiven
<1>5. FrontGiven => FrontGiven'
  BY <1>1 DEF FrontGiven
<1>. HIDE DEF m
<1>6. /\ given \in Seq(Stamped) /\ Len(given) \in Nat /\ Ring \in Seq(Stamped)
      /\ DOMAIN given' = 1..(Len(given) + 1) /\ DOMAIN given = 1..Len(given)
      /\ given'[Len(given) + 1] = m /\ \A i \in DOMAIN given : given'[i] = given[i]
  BY <1>1, <1>2, MessagesTyped
<1>7. \A i \in DOMAIN given : Earlier(given[i], m)
  BY <1>2, <1>3 DEF InTurn, Earlier
<1>8. \A j \in DOMAIN Ring : j > 1 \/ call[t].kind # "item" => Earlier(m, Ring[j])
  BY <1>2, <1>3, <1>6 DEF InTurn, Earlier
<1>9. \A u \in Threads : pc[u] = "trace" => Earlier(m, call[u].m)
  BY <1>2, <1>3 DEF TracedLast, Earlier
<1>10. InTurn'
  <2>1. ASSUME NEW i \in DOMAIN given', NEW j \in DOMAIN given', i < j
        PROVE  Earlier(given'[i], given'[j])
    <3>1. i \in DOMAIN given
      BY <1>6, <2>1
    <3>. QED
      BY <1>6, <1>7, <2>1, <3>1 DEF InTurn
  <2>2. ASSUME NEW i \in DOMAIN given', NEW j \in DOMAIN Ring, FrontGiven' => j > 1
        PROVE  Earlier(given'[i], Ring[j])
    <3>1. CASE i \in DOMAIN given
      BY <1>5, <1>6, <2>2, <3>1 DEF InTurn
    <3>2. CASE i \notin DOMAIN given
      BY <1>4, <1>6, <1>8, <2>2, <3>2
    <3>. QED
      BY <3>1, <3>2
  <2>. QED
    BY <1>1, <2>1, <2>2 DEF InTurn, Earlier, Debug
<1>11. TracedLast'
  <2>. SUFFICES ASSUME NEW u \in Threads, pc'[u] = "trace"
                PROVE  /\ \A i \in DOMAIN given' : Earlier(given'[i], call[u].m)
                       /\ \A j \in DOMAIN Ring : Earlier(Ring[j], call[u].m)
    BY <1>1 DEF TracedLast, Earlier, Debug
  <2>1. pc[u] = "trace"
    BY <1>1
  <2>. QED
    BY <1>6, <1>9, <2>1 DEF TracedLast
<1>12. Numbered'
  <2>1. \A i \in DOMAIN given' : given'[i].n <= logged
    BY <1>2, <1>6 DEF Numbered
  <2>2. \A u \in Threads : pc'[u] = pc[u] \/ (pc[u] = "sink" /\ pc'[u] = "in_sink")
    BY <1>1
  <2>. QED
    BY <1>1, <2>1, <2>2 DEF Numbered, Debug
<1>. QED
  BY <1>10, <1>11, <1>12

\* Every step keeps the debug messages in turn.
LEMMA NextDump == IInv /\ Unreturned /\ DumpInv /\ [Next]_vars => DumpInv'
<1>. SUFFICES ASSUME IInv, Unreturned, DumpInv, [Next]_vars PROVE DumpInv'
  OBVIOUS
<1>. USE DEF DumpInv
<1>1. CASE SinkStep
  <2>1. /\ UNCHANGED <<given, call, messages, logged>> /\ Ring' = Ring
        /\ \A t \in Threads : pc'[t] = pc[t] \/ (pc[t] = "in_sink" /\ pc'[t] = "sunk")
    <3>1. UNCHANGED <<given, call>>
      BY <1>1, SinkStepBuffer DEF Unreturned
    <3>. QED
      BY <1>1, <3>1 DEF SinkStep, tracerVars, counts, Ring
  <2>2. FrontGiven => FrontGiven'
    BY <2>1 DEF FrontGiven
  <2>3. InTurn'
    BY <2>1, <2>2, TurnKept
  <2>. QED
    BY <2>1, <2>3 DEF TracedLast, Numbered, Earlier, Debug
<1>2. CASE ClockTick \/ UNCHANGED vars
  <2>1. UNCHANGED <<given, call, pc, messages, logged>> /\ Ring' = Ring
    BY <1>2 DEF ClockTick, vars, files, sinkVars, callFrame, threadVars, tracerVars, counts, Ring
  <2>2. InTurn'
    BY <2>1, TurnKept DEF FrontGiven
  <2>. QED
    BY <2>1, <2>2 DEF TracedLast, Numbered, Earlier, Debug
<1>3. ASSUME NEW t \in Threads, Switch(t) PROVE DumpInv'
  <2>1. UNCHANGED <<given, call, pc, logged>> /\ messages' \in {messages, NewQ(BacktraceSize)}
    BY <1>3 DEF Switch, files, sinkVars, callFrame, threadVars
  <2>2. Ring' \in {Ring, <<>>} /\ (FrontGiven <=> FrontGiven')
    BY <2>1, NewQEmpty, LoggerAssumption DEF Ring, FrontGiven
  <2>. QED
    BY <2>1, <2>2 DEF InTurn, TracedLast, Numbered, Earlier, Debug
<1>4. CASE Crash
  <2>1. given' = given /\ logged' = logged /\ Ring' = <<>> /\ \A t \in Threads : pc'[t] = "idle"
    BY <1>4, NewQEmpty, LoggerAssumption DEF Crash, Die, Ring
  <2>. QED
    BY <2>1 DEF InTurn, TracedLast, Numbered, Earlier, Debug
<1>. QED
  BY <1>1, <1>2, <1>3, <1>4, QuietDump, TraceDump, PopDump, EnterSinkDump DEF Next, ThreadStep

\* A thread's debug messages reach the sink in the order it logged them and
\* none twice, however many threads dump, trace and switch the tracer, whatever
\* the ring's size overruns, and over crashes.
THEOREM DumpsKeepOrder == Spec => []DumpsInOrder
<1>1. Init => IInv /\ Unreturned /\ DumpInv
  <2>1. Init => DumpInv
    <3>. SUFFICES ASSUME Init PROVE DumpInv
      OBVIOUS
    <3>1. given = <<>> /\ Ring = <<>> /\ \A t \in Threads : pc[t] = "idle"
      BY NewQEmpty, LoggerAssumption DEF Init, FileInit, Ring
    <3>. QED
      BY <3>1 DEF DumpInv, InTurn, TracedLast, Numbered
  <2>. QED
    BY <2>1, InitInvariant, InitUnreturned
<1>2. IInv /\ Unreturned /\ DumpInv /\ [Next]_vars => (IInv /\ Unreturned /\ DumpInv)'
  BY NextInvariant, NextUnreturned, NextDump
<1>3. DumpInv => DumpsInOrder
  BY DEF DumpInv, InTurn, Earlier, Debug, DumpsInOrder
<1>. QED
  BY <1>1, <1>2, <1>3, PTL DEF Spec

-----------------------------------------------------------------------------
(* What is missing while nothing fails                                     *)

\* No failure and no crash so far, and a daily sink that rotates at midnight,
\* appends to its files and keeps a number of them, among them the one that its
\* constructor opened.
Healthy ==
  /\ faults = 0 /\ crashes = 0
  /\ sink = "daily" => DailyFiles > 0 /\ RotationAt = 0 /\ ~Truncate /\ ~missed

\* Message n was given to the sink, is in no file and not in the buffer, and is
\* not that of the call that has yet to write it.
Pending(n) == n = msg /\ step \in Waiting
Gone(n) == n \in 1..Len(given) /\ Absent(n) /\ ~Pending(n)
SomeGone == \E n \in Nat : Gone(n)

\* What is gone is older than what there is.
OldestGone == \A n, k \in Nat : Gone(n) /\ ~Absent(k) => n < k

NotStarted == step = "down" => given = <<>> /\ \A a \in Names : ~Exists(a)

\* A rotation makes a hole where the next file goes: apart from it the files
\* are numbered from 0 without gaps, and if a message is gone they are all
\* there.
Hole(i) == step = "rename" /\ i = index /\ index < MaxFiles
RotatingKeeps ==
  sink = "rotating" =>
    /\ \A a \in Names : Exists(a) => a \in 0..MaxFiles
    /\ \A i, j \in 0..MaxFiles : i < j /\ Exists(j) => Exists(i) \/ Hole(i)
    /\ \A i \in 0..MaxFiles : Hole(i) => ~Exists(i)
    /\ step \notin {"rename", "down"} => fd = 0
    /\ step # "rename_failed"
    /\ SomeGone => \A i \in 0..MaxFiles : Exists(i) \/ Hole(i)

\* The ring of names lists the files there are, the oldest first, but for the
\* one that a rotation or the constructor has just opened; all are of days before
\* the next rotation.  If a message is gone the ring is full.
Listed == Contents(filenames)
Unlisted == step \in {"write_rotated", "delete_old", "schedule", "list"}
DailyKeeps ==
  sink = "daily" =>
    /\ filenames \in QueueType(DailyFiles, Names)
    /\ \A i, j \in 1..Size(filenames) : i < j => Listed[i] < Listed[j]
    /\ \A a \in Names :
         Exists(a) <=> (\E i \in 1..Size(filenames) : Listed[i] = a) \/ (Unlisted /\ a = fd)
    /\ \A i \in 1..Size(filenames) : Listed[i] \in Names
    /\ Unlisted => \A i \in 1..Size(filenames) : Listed[i] < fd
    /\ step \in {"schedule", "list"} => given = <<>> /\ Size(filenames) = 0
    /\ step \in {"schedule", "list", "idle", "write", "close", "write_rotated", "delete_old"}
         => fd # NoName
    /\ step \notin {"down", "schedule"} => \A a \in Names : Exists(a) => a < Day(rotationTp)
    /\ SomeGone => Size(filenames) = DailyFiles

Keeps == OldestGone /\ NotStarted /\ RotatingKeeps /\ DailyKeeps
KeepInv == crashes \in Nat /\ (Healthy => Keeps)

\* Nothing is lost or written.
LEMMA NothingGoes ==
  ASSUME OldestGone, UNCHANGED given, \A n \in Nat : Absent(n)' <=> Absent(n),
         \A n \in 1..Len(given) : Pending(n) => Pending(n)'
  PROVE  OldestGone' /\ (SomeGone' => SomeGone)
<1>1. ASSUME NEW n \in Nat, Gone(n)' PROVE Gone(n)
  BY <1>1 DEF Gone
<1>. QED
  BY <1>1 DEF OldestGone, SomeGone

\* The oldest messages are lost.
LEMMA OldestGo ==
  ASSUME OldestGone, UNCHANGED given, \A n \in Nat : Absent(n) => Absent(n)',
         \A n \in 1..Len(given) : Pending(n) => Pending(n)',
         \A n, k \in Nat : ~Absent(n) /\ Absent(n)' /\ ~Absent(k)' => n < k
  PROVE  OldestGone'
<1>1. ASSUME NEW n \in Nat, NEW k \in Nat, Gone(n)', ~Absent(k)' PROVE n < k
  <2>1. ~Absent(k)
    BY <1>1
  <2>2. CASE Absent(n)
    BY <1>1, <2>1, <2>2 DEF Gone, OldestGone
  <2>3. CASE ~Absent(n)
    BY <1>1, <2>3 DEF Gone
  <2>. QED
    BY <2>2, <2>3
<1>. QED
  BY <1>1 DEF OldestGone

\* The call writes its message, the newest.
LEMMA WriteLosesNothing ==
  ASSUME OldestGone, SinkOK, FilesOK, UNCHANGED given, Len(given) \in Nat,
         step \in Waiting, msg # 0, step' \notin Waiting,
         fd # NoName, WriteMessage
  PROVE  OldestGone' /\ (SomeGone' => SomeGone)
<1>1. msg = Len(given) /\ msg \in Nat /\ Absent(msg)
  BY DEF SinkOK
<1>2. disk' = disk /\ buffer' = Append(buffer, msg) /\ buffer \in Seq(Nat)
  BY DEF WriteMessage, FilesOK
<1>3. /\ DOMAIN buffer' = 1..(Len(buffer) + 1) /\ DOMAIN buffer = 1..Len(buffer) /\ Len(buffer) \in Nat
      /\ buffer'[Len(buffer) + 1] = msg /\ \A y \in DOMAIN buffer : buffer'[y] = buffer[y]
  BY <1>1, <1>2
<1>4. \A a \in Names : Content(a)' = Content(a)
  BY <1>2 DEF Content, Exists
<1>5. ASSUME NEW n \in Nat PROVE Absent(n)' <=> Absent(n) /\ n # msg
  BY <1>3, <1>4 DEF Absent
<1>6. ASSUME NEW n \in Nat, Gone(n)' PROVE Gone(n) /\ n < msg
  BY <1>1, <1>5, <1>6 DEF Gone, Pending
<1>. QED
  BY <1>5, <1>6 DEF OldestGone, SomeGone

\* The sink is given a message.
LEMMA GiveLosesNothing ==
  ASSUME OldestGone, Len(given) \in Nat, UNCHANGED <<disk, buffer>>, NEW m, NEW next \in Waiting,
         Give(m, next)
  PROVE  OldestGone' /\ (SomeGone' => SomeGone)
<1>1. /\ step = "idle" /\ step' = next /\ msg' = Len(given) + 1
      /\ given' = Append(given, m) /\ Len(given') = Len(given) + 1
  BY DEF Give
<1>2. ASSUME NEW n \in Nat PROVE Absent(n)' <=> Absent(n)
  BY DEF Absent, Content, Exists, fileVars
<1>3. ASSUME NEW n \in Nat, Gone(n)' PROVE Gone(n)
  BY <1>1, <1>2, <1>3 DEF Gone, Pending, Waiting
<1>. QED
  BY <1>2, <1>3 DEF OldestGone, SomeGone

\* All of the buffer reaches the disk.
LEMMA WrittenLosesNothing ==
  ASSUME FilesOK, disk' = Written(Len(buffer)), buffer' = <<>>, NEW n \in Nat
  PROVE  /\ Absent(n)' <=> Absent(n)
         /\ \A a \in Names : Exists(a)' <=> Exists(a)
<1>1. CASE fd = NoName
  <2>1. disk' = disk /\ buffer' = buffer
    BY <1>1 DEF Written, FilesOK
  <2>. QED
    BY <2>1 DEF Absent, Content, Exists
<1>2. CASE fd # NoName
  <2>0. PICK f \in Names : f = fd
    BY <1>2 DEF FilesOK
  <2>1. f \in Names /\ Exists(f) /\ disk[f] \in Seq(Nat) /\ buffer \in Seq(Nat)
    BY <1>2, <2>0 DEF FilesOK, Exists
  <2>2. SubSeq(buffer, 1, Len(buffer)) = buffer
    BY <2>1
  <2>3. disk' = [disk EXCEPT ![f] = disk[f] \o buffer]
    BY <1>2, <2>0, <2>2 DEF Written
  <2>4. disk[f] \o buffer \in Seq(Nat) /\ disk[f] \o buffer # NoFile
    BY <2>1, Concatenation, FileAssumption
  <2>5. disk'[f] = disk[f] \o buffer /\ \A a \in Names : a # f => disk'[a] = disk[a]
    BY <2>1, <2>3 DEF FilesOK
  <2>6. \A a \in Names : Exists(a)' <=> Exists(a)
    BY <2>1, <2>4, <2>5 DEF Exists
  <2>7. /\ Content(f)' = Content(f) \o buffer /\ Content(f) \in Seq(Nat)
        /\ \A a \in Names : a # f => Content(a)' = Content(a)
    BY <2>1, <2>4, <2>5, <2>6 DEF Content, Exists
  <2>8. /\ DOMAIN Content(f) = 1..Len(Content(f)) /\ DOMAIN buffer = 1..Len(buffer)
        /\ Len(Content(f)) \in Nat /\ Len(buffer) \in Nat
        /\ DOMAIN Content(f)' = 1..(Len(Content(f)) + Len(buffer))
        /\ \A x \in 1..Len(Content(f)) : Content(f)'[x] = Content(f)[x]
        /\ \A y \in 1..Len(buffer) : Content(f)'[Len(Content(f)) + y] = buffer[y]
    BY <2>1, <2>7
  <2>9. ASSUME Absent(n) PROVE Absent(n)'
    <3>1. ASSUME NEW x \in DOMAIN Content(f)' PROVE Content(f)'[x] # n
      <4>1. CASE x \in 1..Len(Content(f))
        BY <2>1, <2>8, <2>9, <4>1 DEF Absent
      <4>2. CASE x \notin 1..Len(Content(f))
        <5>1. x - Len(Content(f)) \in 1..Len(buffer) /\ x = Len(Content(f)) + (x - Len(Content(f)))
          BY <2>8, <3>1, <4>2
        <5>2. Content(f)'[x] = buffer[x - Len(Content(f))]
          BY <2>8, <5>1
        <5>. QED
          BY <2>8, <2>9, <5>1, <5>2 DEF Absent
      <4>. QED
        BY <4>1, <4>2
    <3>2. \A a \in Names : a # f => \A x \in DOMAIN Content(a)' : Content(a)'[x] # n
      BY <2>7, <2>9 DEF Absent
    <3>3. \A y \in DOMAIN buffer' : buffer'[y] # n
      OBVIOUS
    <3>. QED
      BY <3>1, <3>2, <3>3 DEF Absent
  <2>10. ASSUME Absent(n)' PROVE Absent(n)
    <3>1. \A x \in DOMAIN Content(f)' : Content(f)'[x] # n
      BY <2>1, <2>10 DEF Absent
    <3>2. \A x \in DOMAIN Content(f) : Content(f)[x] # n
      BY <2>8, <3>1
    <3>3. ASSUME NEW y \in DOMAIN buffer PROVE buffer[y] # n
      <4>1. y \in 1..Len(buffer) /\ Len(Content(f)) + y \in DOMAIN Content(f)'
        BY <2>8
      <4>. QED
        BY <2>8, <3>1, <4>1
    <3>4. \A a \in Names : a # f => \A x \in DOMAIN Content(a) : Content(a)[x] # n
      BY <2>7, <2>10 DEF Absent
    <3>. QED
      BY <3>2, <3>3, <3>4 DEF Absent
  <2>. QED
    BY <2>6, <2>9, <2>10
<1>. QED
  BY <1>1, <1>2

\* What a step of the rotating sink finds.
LEMMA RotatingState ==
  ASSUME OrderInv, Keeps, sink = "rotating"
  PROVE  /\ FilesOK /\ SinkOK /\ OldestGone
         /\ MaxFiles \in Nat /\ 0 \in 0..MaxFiles /\ 0..MaxFiles \subseteq Names
         /\ Names \subseteq Nat /\ NoName \notin Names /\ index \in 0..MaxFiles
         /\ step \notin {"rename", "down"} => fd = 0
         /\ step # "rename_failed"
<1>1. MaxFiles \in Nat /\ 0..MaxFiles \subseteq Names /\ Names \subseteq Nat /\ NoName \notin Names
  BY RotatingAssumption, FileAssumption
<1>. QED
  BY <1>1 DEF OrderInv, FInv, Keeps, RotatingKeeps, RotatingOK

\* The files stay where they are.
LEMMA RotatingStays ==
  ASSUME OrderInv, Keeps, sink = "rotating", bounds' = bounds,
         \A a \in Names : Exists(a)' <=> Exists(a),
         step \notin {"rename", "down"}, step' \notin {"down", "rename_failed"},
         IF step' = "rename" THEN index' = MaxFiles ELSE fd' = fd,
         OldestGone', SomeGone' => SomeGone
  PROVE  Keeps'
<1>1. \A i \in 0..MaxFiles : ~Hole(i) /\ ~Hole(i)'
  BY RotatingState DEF Hole
<1>2. RotatingKeeps'
  BY <1>1, RotatingState DEF Keeps, RotatingKeeps, sink
<1>. QED
  BY <1>2 DEF Keeps, NotStarted, DailyKeeps, sink

\* The constructor finds no file.
LEMMA ROpenKeeps ==
  ASSUME OrderInv, Keeps, sink = "rotating", bounds' = bounds, ROpen
  PROVE  Keeps'
<1>. USE RotatingState
<1>1. step = "down" /\ disk' = Opened(0, FALSE) /\ fd' = 0
  BY DEF ROpen, OpenFile
<1>2. given = <<>> /\ \A a \in Names : disk[a] = NoFile
  BY <1>1 DEF Keeps, NotStarted, Exists
<1>3. disk' = [disk EXCEPT ![0] = <<>>]
  BY <1>1, <1>2 DEF Opened
<1>4. <<>> # NoFile
  <2>1. <<>> \in Seq(Nat)
    OBVIOUS
  <2>. QED
    BY <2>1, FileAssumption
<1>5. \A a \in Names : Exists(a)' <=> a = 0
  BY <1>2, <1>3, <1>4 DEF Exists, FilesOK
<1>6. Content(0) = <<>>
  BY <1>2 DEF Content, Exists
<1>7. step' = "idle" /\ given' = <<>>
  BY <1>2, <1>6 DEF ROpen, Goto
<1>8. \A n \in Nat : ~Gone(n)'
  BY <1>7 DEF Gone
<1>9. \A i \in 0..MaxFiles : ~Hole(i)'
  BY <1>7 DEF Hole
<1>10. RotatingKeeps'
  BY <1>1, <1>5, <1>7, <1>8, <1>9 DEF RotatingKeeps, SomeGone, sink
<1>. QED
  BY <1>7, <1>8, <1>10 DEF Keeps, NotStarted, OldestGone, DailyKeeps, sink

\* The flush and the close write all of the buffer.
LEMMA RFlushKeeps ==
  ASSUME OrderInv, Keeps, sink = "rotating", bounds' = bounds, faults = 0, faults' = 0,
         RFlush \/ RClose
  PROVE  Keeps'
<1>. USE RotatingState
<1>1. /\ step \in {"flush", "rotate"} /\ UNCHANGED <<msg, given>>
      /\ disk' = Written(Len(buffer)) /\ buffer' = <<>> /\ fd = 0 /\ fd # NoName
  BY DEF RFlush, RClose, FlushFile, CloseFile, Fault, Goto, Throw
<1>2. /\ step' \in {"write", "rotate", "rename"}
      /\ IF step' = "rename" THEN index' = MaxFiles ELSE fd' = fd
  BY <1>1 DEF RFlush, RClose, FlushFile, Goto
<1>3. \A n \in Nat : Absent(n)' <=> Absent(n)
  BY <1>1, WrittenLosesNothing
<1>4. \A a \in Names : Exists(a)' <=> Exists(a)
  BY <1>1, WrittenLosesNothing
<1>5. \A n \in 1..Len(given) : Pending(n) => Pending(n)'
  BY <1>1, <1>2 DEF Pending, Waiting
<1>6. OldestGone' /\ (SomeGone' => SomeGone)
  BY <1>1, <1>3, <1>5, NothingGoes
<1>. QED
  BY <1>1, <1>2, <1>4, <1>6, RotatingStays

\* The rotating sink writes its message.
LEMMA RWriteKeeps ==
  ASSUME OrderInv, Keeps, sink = "rotating", bounds' = bounds, Len(given) \in Nat, RWrite
  PROVE  Keeps'
<1>. USE RotatingState
<1>1. /\ step = "write" /\ step' = "idle" /\ UNCHANGED <<msg, given>> /\ WriteMessage
      /\ fd = 0 /\ fd' = fd /\ disk' = disk /\ fd # NoName /\ msg # 0
  BY DEF RWrite, WriteMessage, Goto, SinkOK
<1>2. OldestGone' /\ (SomeGone' => SomeGone)
  BY <1>1, WriteLosesNothing DEF Waiting
<1>3. \A a \in Names : Exists(a)' <=> Exists(a)
  BY <1>1 DEF Exists
<1>. QED
  BY <1>1, <1>2, <1>3, RotatingStays

\* A rename moves a file and loses the last one, if it was there.
LEMMA RenameMoves ==
  ASSUME OrderInv, Keeps, sink = "rotating", bounds' = bounds, Rename,
         NEW i \in 1..MaxFiles, i = index, Exists(i - 1)
  PROVE  /\ \A a \in Names \ {i - 1, i} :
              Content(a)' = Content(a) /\ (Exists(a)' <=> Exists(a))
         /\ Content(i)' = Content(i - 1) /\ Content(i - 1)' = <<>>
         /\ Exists(i)' /\ ~Exists(i - 1)'
<1>. USE RotatingState
<1>1. disk' = [disk EXCEPT ![i] = disk[i - 1], ![i - 1] = NoFile]
  BY DEF Rename
<1>2. i \in Names /\ i - 1 \in Names /\ i # i - 1
  <2>1. i \in 0..MaxFiles /\ i - 1 \in 0..MaxFiles
    OBVIOUS
  <2>. QED
    BY <2>1
<1>3. disk \in [Names -> Seq(Nat) \cup {NoFile}]
  BY DEF FilesOK
<1>4. /\ disk'[i] = disk[i - 1] /\ disk'[i - 1] = NoFile
      /\ \A a \in Names \ {i - 1, i} : disk'[a] = disk[a]
  BY <1>1, <1>2, <1>3
<1>. QED
  BY <1>2, <1>4 DEF Content, Exists

\* What a rename loses are the oldest messages there are.
LEMMA RenameLosesOldest ==
  ASSUME OrderInv, Keeps, sink = "rotating", bounds' = bounds, Rename
  PROVE  OldestGone'
<1>. USE RotatingState
<1>1. /\ step = "rename" /\ UNCHANGED <<step, msg, given, buffer>> /\ fd = NoName /\ buffer = <<>>
      /\ index > 0
  BY DEF Rename, callFrame, SinkOK, FilesOK
<1>2. PICK i \in 1..MaxFiles : i = index
  BY <1>1
<1>3. i \in 0..MaxFiles /\ i - 1 \in 0..MaxFiles /\ i \in Names /\ i - 1 \in Names
  BY <1>2
<1>4. CASE ~Exists(i - 1)
  <2>1. disk' = disk
    BY <1>2, <1>4 DEF Rename
  <2>2. \A n \in Nat : Absent(n)' <=> Absent(n)
    BY <1>1, <2>1 DEF Absent, Content, Exists
  <2>3. \A n \in 1..Len(given) : Pending(n) => Pending(n)'
    BY <1>1 DEF Pending
  <2>. QED
    BY <1>1, <2>2, <2>3, NothingGoes
<1>5. CASE Exists(i - 1)
  <2>1. /\ \A a \in Names \ {i - 1, i} : Content(a)' = Content(a)
        /\ Content(i)' = Content(i - 1) /\ Content(i - 1)' = <<>>
    BY <1>2, <1>5, RenameMoves
  <2>2. ASSUME NEW n \in Nat, Absent(n) PROVE Absent(n)'
    <3>1. ASSUME NEW a \in Names, NEW x \in DOMAIN Content(a)' PROVE Content(a)'[x] # n
      <4>1. CASE a \in Names \ {i - 1, i}
        BY <2>1, <2>2, <3>1, <4>1 DEF Absent
      <4>2. CASE a = i
        BY <1>3, <2>1, <2>2, <3>1, <4>2 DEF Absent
      <4>3. CASE a = i - 1
        BY <2>1, <3>1, <4>3
      <4>. QED
        BY <3>1, <4>1, <4>2, <4>3
    <3>. QED
      BY <1>1, <3>1 DEF Absent
  <2>3. ASSUME NEW n \in Nat, NEW k \in Nat, ~Absent(n), Absent(n)', ~Absent(k)'
        PROVE  n < k
    <3>1. PICK c \in Names : \E x \in DOMAIN Content(c) : Content(c)[x] = n
      BY <1>1, <2>3 DEF Absent
    <3>2. c = i
      <4>1. ASSUME c \in Names \ {i - 1, i} PROVE FALSE
        BY <2>1, <2>3, <3>1, <4>1 DEF Absent
      <4>2. ASSUME c = i - 1 PROVE FALSE
        <5>1. \E x \in DOMAIN Content(i)' : Content(i)'[x] = n
          BY <2>1, <3>1, <4>2
        <5>. QED
          BY <1>3, <2>3, <5>1 DEF Absent
      <4>. QED
        BY <3>1, <4>1, <4>2
    <3>3. Exists(i)
      BY <3>1, <3>2 DEF Content
    <3>4. i = MaxFiles
      <4>1. ~Hole(i)
        BY <1>3, <3>3 DEF Keeps, RotatingKeeps
      <4>. QED
        BY <1>1, <1>2, <4>1 DEF Hole
    <3>5. PICK b \in Names : b # i /\ \E y \in DOMAIN Content(b) : Content(b)[y] = k
      <4>1. PICK a \in Names : \E y \in DOMAIN Content(a)' : Content(a)'[y] = k
        BY <1>1, <2>3 DEF Absent
      <4>2. CASE a \in Names \ {i - 1, i}
        BY <2>1, <4>1, <4>2
      <4>3. CASE a = i
        BY <1>3, <2>1, <4>1, <4>3
      <4>4. CASE a = i - 1
        BY <2>1, <4>1, <4>4
      <4>. QED
        BY <4>1, <4>2, <4>3, <4>4
    <3>6. Exists(b)
      BY <3>5 DEF Content
    <3>7. b \in 0..MaxFiles /\ i > b
      BY <3>4, <3>5, <3>6 DEF Keeps, RotatingKeeps
    <3>8. Before(i, b)
      BY <1>3, <3>4, <3>7 DEF OrderInv, FInv, Ordered, Older
    <3>. QED
      BY <3>1, <3>2, <3>5, <3>8 DEF Before
  <2>4. \A n \in 1..Len(given) : Pending(n) => Pending(n)'
    BY <1>1 DEF Pending
  <2>. QED
    BY <1>1, <2>2, <2>3, <2>4, OldestGo
<1>. QED
  BY <1>4, <1>5

\* A rename moves the hole down and loses a file only when all are there.
LEMMA RenameKeeps ==
  ASSUME OrderInv, Keeps, sink = "rotating", bounds' = bounds, Rename
  PROVE  Keeps'
<1>. USE RotatingState
<1>1. /\ step = "rename" /\ UNCHANGED <<step, msg, given, buffer, fd>> /\ fd = NoName /\ buffer = <<>>
      /\ index > 0
  BY DEF Rename, callFrame, SinkOK, FilesOK
<1>2. PICK i \in 1..MaxFiles : i = index
  BY <1>1
<1>3. i \in 0..MaxFiles /\ i - 1 \in 0..MaxFiles /\ i \in Names /\ i - 1 \in Names
  BY <1>2
<1>4. index' = i - 1 /\ i - 1 < MaxFiles
  BY <1>2 DEF Rename
<1>5. /\ \A j \in Nat : Hole(j) <=> j = i /\ i < MaxFiles
      /\ \A j \in Nat : Hole(j)' <=> j = i - 1
  BY <1>1, <1>2, <1>4 DEF Hole
<1>6. /\ \A a \in Names : Exists(a) => a \in 0..MaxFiles
      /\ \A j, k \in 0..MaxFiles : j < k /\ Exists(k) => Exists(j) \/ Hole(j)
      /\ \A j \in 0..MaxFiles : Hole(j) => ~Exists(j)
      /\ SomeGone => \A j \in 0..MaxFiles : Exists(j) \/ Hole(j)
  BY DEF Keeps, RotatingKeeps
<1>7. OldestGone'
  BY RenameLosesOldest
<1>8. CASE Exists(i - 1)
  <2>1. /\ \A a \in Names \ {i - 1, i} : Exists(a)' <=> Exists(a)
        /\ Exists(i)' /\ ~Exists(i - 1)'
    BY <1>2, <1>8, RenameMoves
  <2>2. \A a \in Names : Exists(a)' => a \in 0..MaxFiles
    BY <1>3, <1>6, <2>1
  <2>3. ASSUME NEW j \in 0..MaxFiles, NEW k \in 0..MaxFiles, j < k, Exists(k)'
        PROVE  Exists(j)' \/ j = i - 1
    <3>1. CASE j = i \/ j = i - 1
      BY <2>1, <3>1
    <3>2. CASE j \notin {i - 1, i}
      <4>1. Exists(j)' <=> Exists(j)
        BY <2>1, <3>2
      <4>2. ~Hole(j)
        BY <1>5, <3>2
      <4>3. CASE k \in {i - 1, i}
        <5>1. j < i - 1
          BY <1>3, <2>3, <3>2, <4>3
        <5>. QED
          BY <1>3, <1>6, <1>8, <4>1, <4>2, <5>1
      <4>4. CASE k \notin {i - 1, i}
        <5>1. Exists(k)
          BY <2>1, <2>3, <4>4
        <5>. QED
          BY <1>6, <2>3, <4>1, <4>2, <5>1
      <4>. QED
        BY <4>3, <4>4
    <3>. QED
      BY <3>1, <3>2
  <2>4. ASSUME SomeGone', NEW j \in 0..MaxFiles PROVE Exists(j)' \/ j = i - 1
    <3>1. CASE SomeGone
      BY <1>5, <1>6, <2>1, <3>1
    <3>2. CASE ~SomeGone
      <4>1. PICK n \in Nat : Gone(n)' /\ ~Gone(n)
        BY <2>4, <3>2 DEF SomeGone
      <4>2. ~Absent(n)
        BY <1>1, <4>1 DEF Gone, Pending
      <4>3. Exists(i)
        <5>. SUFFICES ASSUME ~Exists(i) PROVE FALSE
          OBVIOUS
        <5>1. PICK c \in Names : \E x \in DOMAIN Content(c) : Content(c)[x] = n
          BY <1>1, <4>2 DEF Absent
        <5>2. c # i
          BY <5>1 DEF Content
        <5>3. /\ \A a \in Names \ {i - 1, i} : Content(a)' = Content(a)
              /\ Content(i)' = Content(i - 1)
          BY <1>2, <1>8, RenameMoves
        <5>4. \E d \in Names : \E x \in DOMAIN Content(d)' : Content(d)'[x] = n
          <6>1. CASE c = i - 1
            BY <1>3, <5>1, <5>3, <6>1
          <6>2. CASE c # i - 1
            BY <5>1, <5>2, <5>3, <6>2
          <6>. QED
            BY <6>1, <6>2
        <5>. QED
          BY <4>1, <5>4 DEF Gone, Absent
      <4>4. i = MaxFiles
        BY <1>3, <1>5, <1>6, <4>3
      <4>5. \A k \in 0..MaxFiles : Exists(k)
        <5>1. ASSUME NEW k \in 0..MaxFiles, k # i PROVE Exists(k)
          <6>1. k < i /\ ~Hole(k)
            BY <1>5, <4>4, <5>1
          <6>. QED
            BY <1>3, <1>6, <4>3, <6>1
        <5>. QED
          BY <4>3, <5>1
      <4>. QED
        BY <2>1, <4>5
    <3>. QED
      BY <3>1, <3>2
  <2>5. \A j \in 0..MaxFiles : j \in Nat
    OBVIOUS
  <2>6. RotatingKeeps'
    BY <1>1, <1>5, <2>1, <2>2, <2>3, <2>4, <2>5 DEF RotatingKeeps, sink
  <2>. QED
    BY <1>1, <1>7, <2>6 DEF Keeps, NotStarted, DailyKeeps, sink
<1>9. CASE ~Exists(i - 1)
  <2>1. disk' = disk /\ \A a \in Names : Exists(a)' <=> Exists(a)
    BY <1>2, <1>9 DEF Rename, Exists
  <2>2. ASSUME NEW j \in 0..MaxFiles, Hole(j) PROVE j = i
    BY <1>5, <2>2
  <2>3. ASSUME NEW k \in 0..MaxFiles, k > i - 1, Exists(k) PROVE FALSE
    <3>1. ~Hole(i - 1)
      BY <1>3, <1>5
    <3>. QED
      BY <1>3, <1>6, <1>9, <2>3, <3>1
  <2>4. ASSUME NEW j \in 0..MaxFiles, NEW k \in 0..MaxFiles, j < k, Exists(k)
        PROVE  Exists(j)
    <3>1. k < i
      BY <1>3, <2>3, <2>4
    <3>2. ~Hole(j)
      BY <1>5, <2>4, <3>1
    <3>. QED
      BY <1>6, <2>4, <3>2
  <2>5. \A n \in Nat : Absent(n)' <=> Absent(n)
    BY <1>1, <2>1 DEF Absent, Content, Exists
  <2>6. \A n \in Nat : Gone(n)' => Gone(n)
    BY <1>1, <2>5 DEF Gone, Pending
  <2>7. ~SomeGone'
    <3>1. ASSUME SomeGone PROVE FALSE
      <4>1. Exists(i - 1) \/ Hole(i - 1)
        BY <1>3, <1>6, <3>1
      <4>. QED
        BY <1>3, <1>5, <1>9, <4>1
    <3>. QED
      BY <2>6, <3>1 DEF SomeGone
  <2>8. \A j \in 0..MaxFiles : j \in Nat
    OBVIOUS
  <2>9. RotatingKeeps'
    BY <1>1, <1>3, <1>5, <1>6, <1>9, <2>1, <2>4, <2>7, <2>8 DEF RotatingKeeps, sink
  <2>. QED
    BY <1>1, <1>7, <2>9 DEF Keeps, NotStarted, DailyKeeps, sink
<1>. QED
  BY <1>8, <1>9

\* The file that starts a rotation's end is new, or the only one.
LEMMA ReopenKeeps ==
  ASSUME OrderInv, Keeps, sink = "rotating", bounds' = bounds, Reopen
  PROVE  Keeps'
<1>. USE RotatingState
<1>1. /\ step = "rename" /\ index = 0 /\ UNCHANGED <<msg, given>> /\ fd = NoName /\ buffer = <<>>
      /\ buffer' = buffer /\ disk' = Opened(0, TRUE) /\ fd' = 0
      /\ step' = (IF msg = 0 THEN "idle" ELSE "write")
  BY DEF Reopen, OpenFile, Goto, SinkOK, FilesOK
<1>2. disk' = [disk EXCEPT ![0] = <<>>] /\ 0 \in Names
  BY <1>1 DEF Opened
<1>3. <<>> # NoFile
  <2>1. <<>> \in Seq(Nat)
    OBVIOUS
  <2>. QED
    BY <2>1, FileAssumption
<1>4. /\ \A a \in Names \ {0} : disk'[a] = disk[a]
      /\ disk'[0] = <<>>
  BY <1>2 DEF FilesOK
<1>5. /\ \A a \in Names \ {0} : Content(a)' = Content(a) /\ (Exists(a)' <=> Exists(a))
      /\ Content(0)' = <<>> /\ Exists(0)'
  BY <1>3, <1>4 DEF Content, Exists
<1>6. \A j \in 0..MaxFiles : (Hole(j) <=> j = 0 /\ 0 < MaxFiles) /\ ~Hole(j)'
  BY <1>1 DEF Hole
<1>7. /\ \A a \in Names : Exists(a) => a \in 0..MaxFiles
      /\ \A j, k \in 0..MaxFiles : j < k /\ Exists(k) => Exists(j) \/ Hole(j)
      /\ \A j \in 0..MaxFiles : Hole(j) => ~Exists(j)
      /\ SomeGone => \A j \in 0..MaxFiles : Exists(j) \/ Hole(j)
  BY DEF Keeps, RotatingKeeps
<1>8. \A n \in Nat : Absent(n) => Absent(n)'
  BY <1>1, <1>5 DEF Absent
<1>9. ASSUME NEW n \in Nat, ~Absent(n), Absent(n)' PROVE MaxFiles = 0
  <2>1. PICK c \in Names : \E x \in DOMAIN Content(c) : Content(c)[x] = n
    BY <1>1, <1>9 DEF Absent
  <2>2. c = 0
    BY <1>5, <1>9, <2>1 DEF Absent
  <2>3. Exists(0)
    BY <2>1, <2>2 DEF Content
  <2>. QED
    BY <1>6, <1>7, <2>3
<1>10. ASSUME MaxFiles = 0, NEW k \in Nat PROVE Absent(k)'
  <2>1. \A a \in Names : Content(a)' = <<>>
    <3>1. ASSUME NEW a \in Names, a # 0 PROVE Content(a) = <<>>
      BY <1>7, <1>10, <3>1 DEF Content
    <3>. QED
      BY <1>5, <3>1
  <2>. QED
    BY <1>1, <2>1 DEF Absent
<1>11. \A n, k \in Nat : ~Absent(n) /\ Absent(n)' /\ ~Absent(k)' => n < k
  BY <1>9, <1>10
<1>12. \A n \in 1..Len(given) : Pending(n) => Pending(n)'
  BY <1>1 DEF Pending, Waiting
<1>13. OldestGone'
  BY <1>1, <1>8, <1>11, <1>12, OldestGo
<1>14. ASSUME SomeGone', NEW j \in 0..MaxFiles PROVE Exists(j)'
  <2>1. CASE j = 0
    BY <1>5, <2>1
  <2>2. CASE j # 0
    <3>1. MaxFiles # 0
      BY <2>2
    <3>2. \A n \in Nat : Gone(n)' => Gone(n)
      BY <1>1, <1>9, <1>12, <3>1 DEF Gone
    <3>3. SomeGone
      BY <1>14, <3>2 DEF SomeGone
    <3>. QED
      BY <1>5, <1>6, <1>7, <2>2, <3>3
  <2>. QED
    BY <2>1, <2>2
<1>15. ASSUME NEW i \in 0..MaxFiles, NEW j \in 0..MaxFiles, i < j, Exists(j)'
       PROVE  Exists(i)'
  BY <1>5, <1>6, <1>7, <1>15
<1>16. RotatingKeeps'
  BY <1>1, <1>5, <1>6, <1>7, <1>14, <1>15 DEF RotatingKeeps, sink
<1>. QED
  BY <1>1, <1>13, <1>16 DEF Keeps, NotStarted, DailyKeeps, sink

\* A day's readings, the next day and the day before.
LEMMA DayBounds ==
  ASSUME NEW d \in Nat \ {0}, NEW t \in Nat, NEW k \in Nat, k * d <= t, t < k * d + d
  PROVE  t \div d = k
OBVIOUS

\* A reading is within its day.
LEMMA DayReadings ==
  ASSUME NEW d \in Nat \ {0}, NEW t \in Nat
  PROVE  /\ t \div d \in Nat
         /\ (t \div d) * d <= t /\ t < (t \div d) * d + d
OBVIOUS

\* A sink that rotates at midnight does so on the next day.
LEMMA NextRotationNextDay ==
  ASSUME now \in Nat, RotationAt = 0
  PROVE  NextRotation \in Nat /\ Day(NextRotation) = Day(now) + 1
<1>1. DayLength \in Nat \ {0}
  BY DailyAssumption
<1>. DEFINE k == now \div DayLength
<1>2. k \in Nat /\ k * DayLength <= now /\ now < k * DayLength + DayLength
  BY <1>1, DayReadings
<1>3. NextRotation = k * DayLength + DayLength
  <2>1. NextRotation = IF k * DayLength + RotationAt > now THEN k * DayLength + RotationAt
                       ELSE k * DayLength + RotationAt + DayLength
    BY DEF NextRotation, Day
  <2>. HIDE DEF k
  <2>2. k * DayLength \in Nat
    BY <1>1, <1>2
  <2>. QED
    BY <1>1, <1>2, <2>1, <2>2
<1>4. Day(now) = k
  BY DEF Day
<1>. HIDE DEF k
<1>5. k * DayLength + DayLength = (k + 1) * DayLength /\ (k + 1) * DayLength \in Nat
  BY <1>1, <1>2
<1>6. ((k + 1) * DayLength) \div DayLength = k + 1
  BY <1>1, <1>2, <1>5, DayBounds
<1>. QED
  BY <1>3, <1>4, <1>5, <1>6 DEF Day

\* The day before has a name too.
LEMMA DayBefore ==
  ASSUME now \in 0..MaxTime, Day(now) >= 1
  PROVE  Day(now) - 1 \in Names
<1>1. DayLength \in Nat \ {0} /\ MaxTime \in Nat /\ now \in Nat
  BY DailyAssumption
<1>. DEFINE k == now \div DayLength
<1>2. k \in Nat /\ k * DayLength <= now /\ now < k * DayLength + DayLength /\ k >= 1
  BY <1>1, DayReadings DEF Day
<1>3. Day(now) = k
  BY DEF Day
<1>. HIDE DEF k
<1>4. (k - 1) * DayLength = k * DayLength - DayLength /\ (k - 1) * DayLength \in Nat /\ k - 1 \in Nat
  BY <1>1, <1>2
<1>5. (k - 1) * DayLength <= now /\ (k - 1) * DayLength \in 0..MaxTime
  BY <1>1, <1>2, <1>4
<1>6. ((k - 1) * DayLength) \div DayLength = k - 1
  BY <1>1, <1>4, DayBounds
<1>. QED
  BY <1>3, <1>5, <1>6, DailyAssumption

\* The constructor of a sink without files lists the one it opened.
LEMMA InitFilenamesNew ==
  ASSUME now \in 0..MaxTime, DailyFiles \in Nat \ {0}, NEW file \in [Names -> Seq(Nat) \cup {NoFile}],
         file[Day(now)] # NoFile, \A a \in Names : a # Day(now) => file[a] = NoFile
  PROVE  InitFilenames(file) =
           [NewQ(DailyFiles) EXCEPT
              !.tail = 1,
              !.v = [k \in 0..DailyFiles |-> IF k < 1 THEN (Day(now) + 1 + k) - 1 ELSE NoItem]]
<1>. DEFINE Found(k) == \A d \in 0..(k - 1) : d <= Day(now) /\ file[Day(now) - d] # NoFile
            Last(k) == Found(k) /\ (k < DailyFiles => ~Found(k + 1))
            count == CHOOSE k \in 0..DailyFiles : Last(k)
<1>1. Day(now) \in Nat /\ now \in Nat
  <2>1. now \in Nat /\ DayLength \in Nat \ {0}
    BY DailyAssumption
  <2>. QED
    BY <2>1, DayReadings DEF Day
<1>2. Found(0) /\ Found(1)
  BY <1>1
<1>3. ASSUME NEW k \in Nat, k >= 2 PROVE ~Found(k)
  <2>1. 1 \in 0..(k - 1)
    BY <1>3
  <2>2. CASE Day(now) >= 1
    <3>1. Day(now) - 1 \in Names /\ Day(now) - 1 # Day(now)
      BY <1>1, <2>2, DayBefore
    <3>2. file[Day(now) - 1] = NoFile
      BY <3>1
    <3>. QED
      BY <2>1, <3>2
  <2>3. CASE ~(Day(now) >= 1)
    <3>1. ~(1 <= Day(now))
      BY <1>1, <2>3
    <3>. QED
      BY <2>1, <3>1
  <2>. QED
    BY <2>2, <2>3
<1>4. ASSUME NEW k \in 0..DailyFiles PROVE Last(k) <=> k = 1
  <2>. HIDE DEF Found
  <2>1. CASE k = 0
    <3>1. 0 < DailyFiles /\ Found(0 + 1)
      BY <1>2
    <3>. QED
      BY <2>1, <3>1
  <2>2. CASE k = 1
    <3>1. ~Found(1 + 1)
      BY <1>3
    <3>. QED
      BY <1>2, <2>2, <3>1
  <2>3. CASE k >= 2
    BY <1>3, <2>3
  <2>. QED
    BY <2>1, <2>2, <2>3
<1>5. count = 1
  <2>1. 1 \in 0..DailyFiles
    OBVIOUS
  <2>. HIDE DEF Last
  <2>2. \E k \in 0..DailyFiles : Last(k)
    BY <1>4, <2>1
  <2>3. count \in 0..DailyFiles /\ Last(count)
    BY <2>2
  <2>. QED
    BY <1>4, <2>3
<1>6. InitFilenames(file) =
        [NewQ(DailyFiles) EXCEPT
           !.tail = count,
           !.v = [k \in 0..DailyFiles |-> IF k < count THEN (Day(now) + 1 + k) - count ELSE NoItem]]
  BY Zenon DEF InitFilenames
<1>. HIDE DEF count
<1>. QED
  BY <1>5, <1>6

\* A ring whose tail is one slot after its head holds that slot.
LEMMA OneSlot ==
  ASSUME NEW n \in Nat, NEW S, NEW q \in QueueType(n, S), q.head = 0, q.tail = 1
  PROVE  Size(q) = 1 /\ Contents(q)[1] = q.v[0]
<1>1. Size(q) = 1
  BY DEF Size
<1>2. \A i \in 1..Size(q) : Contents(q)[i] = q.v[(q.head + (i - 1)) % q.max]
  BY ContentsSeq
<1>3. Contents(q)[1] = q.v[(q.head + (1 - 1)) % q.max]
  BY <1>1, <1>2
<1>4. q.max = n + 1 /\ n >= 1
  BY QueueFields
<1>5. (q.head + (1 - 1)) % q.max = 0
  BY <1>4
<1>. QED
  BY <1>1, <1>3, <1>5

\* The constructor of a sink without files lists the one it opened.
LEMMA FirstFilename ==
  ASSUME now \in 0..MaxTime, DailyFiles \in Nat \ {0}, NEW file \in [Names -> Seq(Nat) \cup {NoFile}],
         file[Day(now)] # NoFile, \A a \in Names : a # Day(now) => file[a] = NoFile,
         Day(now) \in Names, Names \subseteq Nat
  PROVE  /\ InitFilenames(file) \in QueueType(DailyFiles, Names)
         /\ Size(InitFilenames(file)) = 1 /\ Contents(InitFilenames(file))[1] = Day(now)
<1>. DEFINE v == [k \in 0..DailyFiles |-> IF k < 1 THEN (Day(now) + 1 + k) - 1 ELSE NoItem]
<1>1. InitFilenames(file) =
        [max |-> DailyFiles + 1, head |-> 0, tail |-> 1, overrun |-> 0, v |-> v]
  BY InitFilenamesNew DEF NewQ
<1>2. v \in [0..DailyFiles -> Names \cup {NoItem}]
  <2>1. ASSUME NEW k \in 0..DailyFiles, k < 1 PROVE (Day(now) + 1 + k) - 1 = Day(now)
    <3>1. k = 0 /\ Day(now) \in Nat
      BY <2>1
    <3>. QED
      BY <3>1
  <2>. QED
    BY <2>1
<1>3. v[0] = Day(now)
  <2>1. 0 \in 0..DailyFiles
    OBVIOUS
  <2>2. v[0] = (Day(now) + 1 + 0) - 1
    BY <2>1
  <2>3. Day(now) \in Nat
    OBVIOUS
  <2>. HIDE DEF v
  <2>. QED
    BY <2>2, <2>3
<1>. HIDE DEF v
<1>. DEFINE q == InitFilenames(file)
<1>4. q = [max |-> DailyFiles + 1, head |-> 0, tail |-> 1, overrun |-> 0, v |-> v]
  BY <1>1
<1>. HIDE DEF q
<1>5. 0 \in 0..DailyFiles /\ 1 \in 0..DailyFiles /\ 0 \in Nat /\ DailyFiles \in Nat
  OBVIOUS
<1>6. q \in QueueType(DailyFiles, Names) /\ q.head = 0 /\ q.tail = 1 /\ q.v = v
  BY <1>2, <1>4, <1>5 DEF QueueType
<1>7. Size(q) = 1 /\ Contents(q)[1] = q.v[0]
  BY <1>5, <1>6, OneSlot
<1>. QED
  BY <1>3, <1>6, <1>7 DEF q

\* Without a file of the day on which they are listed, none is.
LEMMA NoFilename ==
  ASSUME DailyFiles \in Nat, NEW file, file[Day(now)] = NoFile, Day(now) \in Nat
  PROVE  IsEmpty(InitFilenames(file))
<1>. DEFINE Found(k) == \A d \in 0..(k - 1) : d <= Day(now) /\ file[Day(now) - d] # NoFile
            count == CHOOSE k \in 0..DailyFiles : Found(k) /\ (k < DailyFiles => ~Found(k + 1))
<1>1. Found(0)
  OBVIOUS
<1>2. ASSUME NEW k \in Nat, k > 0 PROVE ~Found(k)
  <2>1. 0 \in 0..(k - 1) /\ Day(now) - 0 = Day(now)
    BY <1>2
  <2>. QED
    BY <2>1
<1>3. ~Found(0 + 1)
  BY <1>2
<1>. HIDE DEF Found
<1>4. 0 \in 0..DailyFiles /\ Found(0) /\ (0 < DailyFiles => ~Found(0 + 1))
  BY <1>1, <1>3
<1>5. count \in 0..DailyFiles /\ Found(count)
  BY <1>4, Zenon
<1>. HIDE DEF count
<1>6. count = 0
  BY <1>2, <1>5
<1>7. InitFilenames(file).head = 0 /\ InitFilenames(file).tail = count
  BY DEF InitFilenames, NewQ, count, Found
<1>. QED
  BY <1>6, <1>7 DEF IsEmpty

\* What a step of the daily sink finds.
DailySettings ==
  DailyFiles \in Nat \ {0} /\ RotationAt = 0 /\ Truncate = FALSE /\ now \in 0..MaxTime

\* What a step of the daily sink finds.
LEMMA DailyState ==
  ASSUME OrderInv, Keeps, sink = "daily", DailySettings
  PROVE  /\ FilesOK /\ SinkOK /\ OldestGone /\ BufferNewest /\ Ordered
         /\ Names \subseteq Nat /\ NoName \notin Names
         /\ now \in Nat /\ Day(now) \in Names /\ Day(now) \in Nat
         /\ rotationTp \in Nat /\ Day(rotationTp) \in Nat
         /\ filenames \in QueueType(DailyFiles, Names) /\ Size(filenames) \in 0..DailyFiles
<1>1. DayLength \in Nat \ {0} /\ MaxTime \in Nat /\ Names \subseteq Nat /\ NoName \notin Names
  BY DailyAssumption, FileAssumption
<1>2. now \in Nat /\ Day(now) \in Names
  <2>1. now \in 0..MaxTime
    BY DEF DailySettings
  <2>. QED
    BY <1>1, <2>1, DailyAssumption DEF Day
<1>3. rotationTp \in Nat
  BY DEF OrderInv, DailyOK
<1>4. Day(rotationTp) \in Nat
  BY <1>1, <1>3, DayReadings DEF Day
<1>5. filenames \in QueueType(DailyFiles, Names)
  BY DEF Keeps, DailyKeeps
<1>6. Size(filenames) \in 0..DailyFiles
  BY <1>5, SizeBounds DEF DailySettings
<1>. QED
  BY <1>1, <1>2, <1>3, <1>4, <1>5, <1>6 DEF OrderInv, FInv, Keeps

\* The files and their names stay as they are.
LEMMA DailyStays ==
  ASSUME Keeps, sink = "daily", bounds' = bounds, UNCHANGED <<filenames, rotationTp>>,
         \A a \in Names : Exists(a)' <=> Exists(a),
         step # "down", step' # "down", ~Unlisted, ~Unlisted',
         step' \in {"idle", "write", "close"} => fd' # NoName,
         OldestGone', SomeGone' => SomeGone
  PROVE  Keeps'
<1>1. Listed' = Listed /\ Size(filenames)' = Size(filenames) /\ Day(rotationTp)' = Day(rotationTp)
  BY DEF Listed, Contents, Size, Day
<1>2. DailyKeeps'
  BY <1>1 DEF Keeps, DailyKeeps, Unlisted, sink
<1>. QED
  BY <1>2 DEF Keeps, NotStarted, RotatingKeeps, sink

\* The constructor opens the first file there is.
LEMMA DOpenKeeps ==
  ASSUME OrderInv, Keeps, sink = "daily", UNCHANGED <<bounds, now>>, DailySettings, DOpen
  PROVE  Keeps'
<1>. USE DailyState
<1>1. /\ step = "down" /\ disk' = Opened(Day(now), FALSE) /\ fd' = Day(now)
      /\ step' = "schedule" /\ given' = given /\ UNCHANGED <<rotationTp, filenames>>
  BY DEF DOpen, OpenFile, Goto, DailySettings, dailyVars
<1>2. given = <<>> /\ \A a \in Names : disk[a] = NoFile
  BY <1>1 DEF Keeps, NotStarted, Exists
<1>3. disk' = [disk EXCEPT ![Day(now)] = <<>>]
  BY <1>1, <1>2 DEF Opened
<1>4. <<>> # NoFile
  <2>1. <<>> \in Seq(Nat)
    OBVIOUS
  <2>. QED
    BY <2>1, FileAssumption
<1>5. \A a \in Names : disk'[a] = IF a = Day(now) THEN <<>> ELSE NoFile
  BY <1>2, <1>3 DEF FilesOK
<1>6. \A a \in Names : Exists(a)' <=> a = fd'
  BY <1>1, <1>4, <1>5 DEF Exists
<1>7. \A n \in Nat : ~Gone(n)'
  BY <1>1, <1>2 DEF Gone
<1>8. /\ \A i \in 1..Size(filenames) : Listed[i] \in Names
      /\ \A a \in Names : ~(\E i \in 1..Size(filenames) : Listed[i] = a)
  BY <1>1, <1>2 DEF Keeps, DailyKeeps, Unlisted, Exists
<1>9. Size(filenames) = 0 /\ 1..Size(filenames) = {}
  <2>1. 1 \notin 1..Size(filenames)
    BY <1>8
  <2>2. Size(filenames) \in Nat
    <3>1. DailyFiles \in Nat /\ Size(filenames) \in 0..DailyFiles
      BY DEF DailySettings
    <3>. QED
      BY <3>1
  <2>. HIDE DEF Size
  <2>. QED
    BY <2>1, <2>2
<1>10. Listed' = Listed /\ Size(filenames)' = Size(filenames)
  BY <1>1 DEF Listed, Contents, Size
<1>11. Unlisted' /\ ~SomeGone' /\ Day(now) # NoName
  BY <1>1, <1>7 DEF Unlisted, SomeGone
<1>12. DailyKeeps'
  BY <1>1, <1>2, <1>6, <1>9, <1>10, <1>11 DEF DailyKeeps
<1>. QED
  BY <1>1, <1>7, <1>12 DEF Keeps, NotStarted, OldestGone, RotatingKeeps, sink

\* The constructor sets the next rotation after this file.
LEMMA DScheduleKeeps ==
  ASSUME OrderInv, Keeps, sink = "daily", UNCHANGED <<bounds, now>>, DailySettings, DSchedule
  PROVE  Keeps'
<1>. USE DailyState
<1>1. /\ step = "schedule" /\ step' = "list" /\ rotationTp' = NextRotation
      /\ UNCHANGED <<disk, fd, buffer, msg, given, filenames>>
  BY DEF DSchedule, Goto, fileVars, DailySettings
<1>2. \A a \in Names : (Exists(a)' <=> Exists(a)) /\ (Exists(a) => a = fd)
  <2>1. Size(filenames) = 0
    BY <1>1 DEF Keeps, DailyKeeps
  <2>2. ~(\E i \in 1..Size(filenames) : TRUE)
    BY <2>1
  <2>. QED
    BY <1>1, <2>2 DEF Keeps, DailyKeeps, Exists
<1>3. Day(rotationTp)' = Day(now) + 1
  <2>1. Day(rotationTp') = Day(now) + 1
    BY <1>1, NextRotationNextDay DEF DailySettings
  <2>. QED
    BY <2>1 DEF Day
<1>4. \A a \in Names : Exists(a)' => a < Day(rotationTp)'
  <2>1. \A a \in Names : Exists(a) => a <= Day(now)
    BY <1>1, <1>2 DEF OrderInv, DailyOK, InUse
  <2>. QED
    BY <1>2, <1>3, <2>1
<1>5. \A n \in Nat : ~Gone(n)'
  BY <1>1 DEF Keeps, DailyKeeps, Gone
<1>6. Listed' = Listed /\ Size(filenames)' = Size(filenames)
  BY <1>1 DEF Listed, Contents, Size
<1>7. DailyKeeps'
  BY <1>1, <1>2, <1>4, <1>5, <1>6 DEF Keeps, DailyKeeps, Unlisted, SomeGone
<1>. QED
  BY <1>1, <1>5, <1>7 DEF Keeps, NotStarted, OldestGone, RotatingKeeps, sink

\* The constructor lists its file, unless midnight came after it was opened.
LEMMA DListKeeps ==
  ASSUME OrderInv, Keeps, sink = "daily", UNCHANGED <<bounds, now>>, DailySettings, DList,
         ~missed'
  PROVE  Keeps'
<1>. USE DailyState
<1>1. /\ step = "list" /\ step' = "idle" /\ filenames' = InitFilenames(disk)
      /\ UNCHANGED <<disk, fd, buffer, msg, given, rotationTp>>
      /\ ~IsEmpty(filenames')
  BY DEF DList, Goto, fileVars
<1>2. \A a \in Names : Exists(a) <=> a = fd
  <2>1. Size(filenames) = 0
    BY <1>1 DEF Keeps, DailyKeeps
  <2>2. ~(\E i \in 1..Size(filenames) : TRUE)
    BY <2>1
  <2>. QED
    BY <1>1, <2>2 DEF Keeps, DailyKeeps, Unlisted
<1>3. disk[Day(now)] # NoFile
  BY <1>1, NoFilename DEF DailySettings
<1>4. Day(now) = fd /\ Day(now) # NoName
  BY <1>2, <1>3 DEF Exists
<1>5. \A a \in Names : Exists(a)' <=> a = Day(now)
  BY <1>1, <1>2, <1>4 DEF Exists
<1>6. disk \in [Names -> Seq(Nat) \cup {NoFile}] /\ \A a \in Names : a # Day(now) => disk[a] = NoFile
  BY <1>2, <1>4 DEF FilesOK, Exists
<1>7. /\ filenames' \in QueueType(DailyFiles, Names)
      /\ Size(filenames') = 1 /\ Contents(filenames')[1] = Day(now)
  BY <1>1, <1>3, <1>6, FirstFilename DEF DailySettings
<1>8. Size(filenames)' = 1 /\ Listed'[1] = Day(now)
  BY <1>7 DEF Listed
<1>9. \A n \in Nat : ~Gone(n)'
  BY <1>1 DEF Keeps, DailyKeeps, Gone
<1>10. ~Unlisted' /\ ~SomeGone'
  BY <1>1, <1>9 DEF Unlisted, SomeGone
<1>11. \A i \in 1..Size(filenames)' : i = 1
  BY <1>8
<1>12. /\ \A i, j \in 1..Size(filenames)' : ~(i < j)
       /\ \A i \in 1..Size(filenames)' : Listed'[i] = Day(now)
       /\ 1 \in 1..Size(filenames)'
  BY <1>8, <1>11
<1>13. Day(now) < Day(rotationTp)
  BY <1>1, <1>2, <1>4 DEF Keeps, DailyKeeps
<1>14. \A a \in Names :
         /\ Exists(a)' <=> \E i \in 1..Size(filenames)' : Listed'[i] = a
         /\ Exists(a)' => a < Day(rotationTp)'
  BY <1>1, <1>5, <1>12, <1>13 DEF Day
<1>15. DailyKeeps'
  BY <1>1, <1>4, <1>7, <1>10, <1>12, <1>14 DEF DailyKeeps
<1>. QED
  BY <1>1, <1>9, <1>15 DEF Keeps, NotStarted, OldestGone, RotatingKeeps, sink

\* The file is closed to open that of another day.
LEMMA DCloseKeeps ==
  ASSUME OrderInv, Keeps, sink = "daily", UNCHANGED <<bounds, now>>, DailySettings,
         faults = 0, faults' = 0, DClose
  PROVE  Keeps'
<1>. USE DailyState
<1>1. /\ step = "close" /\ step' = "open" /\ UNCHANGED <<msg, given, filenames, rotationTp>>
      /\ disk' = Written(Len(buffer)) /\ buffer' = <<>>
  BY DEF DClose, CloseFile, Fault, Goto, dailyVars
<1>2. \A n \in Nat : Absent(n)' <=> Absent(n)
  BY <1>1, WrittenLosesNothing
<1>3. \A a \in Names : Exists(a)' <=> Exists(a)
  BY <1>1, WrittenLosesNothing
<1>4. \A n \in 1..Len(given) : Pending(n) => Pending(n)'
  BY <1>1 DEF Pending, Waiting
<1>5. OldestGone' /\ (SomeGone' => SomeGone)
  BY <1>1, <1>2, <1>4, NothingGoes
<1>. QED
  BY <1>1, <1>3, <1>5, DailyStays DEF Unlisted

\* The file of the message that rotates is new: its day is after all others.
LEMMA DReopenKeeps ==
  ASSUME OrderInv, Keeps, sink = "daily", UNCHANGED <<bounds, now>>, DailySettings,
         given \in Seq(Stamped), DReopen
  PROVE  Keeps'
<1>. USE DailyState
<1>. DEFINE time == given[msg].time
<1>1. /\ step = "open" /\ step' = "write_rotated" /\ UNCHANGED <<msg, given, filenames, buffer>>
      /\ disk' = Opened(Day(time), FALSE) /\ fd' = Day(time) /\ rotationTp' = NextRotation
      /\ fd = NoName /\ msg # 0 /\ rotationTp <= time
  BY DEF DReopen, OpenFile, Goto, SinkOK, DailySettings, OrderInv, DailyOK
<1>2. time \in Nat /\ time <= now /\ time \in 0..MaxTime
  <2>1. time \in Nat /\ time <= now
    BY <1>1, CallStamped DEF Waiting
  <2>2. MaxTime \in Nat /\ now <= MaxTime
    BY DailyAssumption DEF DailySettings
  <2>. QED
    BY <2>1, <2>2
<1>. HIDE DEF time
<1>3. /\ Day(time) \in Names /\ Day(time) \in Nat
      /\ Day(rotationTp) <= Day(time) /\ Day(time) <= Day(now)
  <2>1. Day(time) \in Names
    BY <1>2, DailyAssumption DEF Day
  <2>. QED
    BY <1>1, <1>2, <2>1, DayMonotone
<1>4. /\ \A i, j \in 1..Size(filenames) : i < j => Listed[i] < Listed[j]
      /\ \A a \in Names : Exists(a) <=> (\E i \in 1..Size(filenames) : Listed[i] = a)
      /\ \A i \in 1..Size(filenames) : Listed[i] \in Names
      /\ \A a \in Names : Exists(a) => a < Day(rotationTp)
      /\ SomeGone => Size(filenames) = DailyFiles
  BY <1>1 DEF Keeps, DailyKeeps, Unlisted
<1>5. \A a \in Names : Exists(a) => a < Day(time)
  BY <1>3, <1>4
<1>6. disk[Day(time)] = NoFile
  BY <1>3, <1>5 DEF Exists
<1>7. <<>> # NoFile
  <2>1. <<>> \in Seq(Nat)
    OBVIOUS
  <2>. QED
    BY <2>1, FileAssumption
<1>8. disk'[Day(time)] = <<>> /\ \A a \in Names : a # Day(time) => disk'[a] = disk[a]
  BY <1>1, <1>3, <1>6 DEF Opened, FilesOK
<1>9. /\ \A a \in Names : Exists(a)' <=> Exists(a) \/ a = Day(time)
      /\ \A a \in Names : Content(a)' = Content(a)
  BY <1>6, <1>7, <1>8 DEF Exists, Content
<1>10. \A n \in Nat : Absent(n)' <=> Absent(n)
  BY <1>1, <1>9 DEF Absent
<1>11. \A n \in 1..Len(given) : Pending(n) => Pending(n)'
  BY <1>1 DEF Pending, Waiting
<1>12. OldestGone' /\ (SomeGone' => SomeGone)
  BY <1>1, <1>10, <1>11, NothingGoes
<1>13. Listed' = Listed /\ Size(filenames)' = Size(filenames)
  BY <1>1 DEF Listed, Contents, Size
<1>14. Day(rotationTp)' = Day(now) + 1
  <2>1. Day(rotationTp') = Day(now) + 1
    BY <1>1, NextRotationNextDay DEF DailySettings
  <2>. QED
    BY <2>1 DEF Day
<1>15. \A a \in Names : Exists(a)' => a < Day(rotationTp)'
  BY <1>3, <1>5, <1>9, <1>14
<1>16. \A i \in 1..Size(filenames) : Listed[i] < Day(time)
  BY <1>4, <1>5
<1>17. DailyKeeps'
  BY <1>1, <1>3, <1>4, <1>9, <1>12, <1>13, <1>15, <1>16 DEF DailyKeeps, Unlisted
<1>. QED
  BY <1>1, <1>12, <1>17 DEF Keeps, NotStarted, RotatingKeeps, sink

\* The daily sink writes its message.
LEMMA DWriteKeeps ==
  ASSUME OrderInv, Keeps, sink = "daily", UNCHANGED <<bounds, now>>, DailySettings,
         Len(given) \in Nat, DWrite
  PROVE  Keeps'
<1>. USE DailyState
<1>1. /\ step \in {"write", "write_rotated"} /\ UNCHANGED <<msg, given, filenames, rotationTp>>
      /\ WriteMessage /\ disk' = disk /\ fd' = fd /\ msg # 0
      /\ step = "write_rotated" => step' = "delete_old"
      /\ step = "write" => step' = "idle"
  <2>1. DailyFiles > 0
    BY DEF DailySettings
  <2>2. step \in {"write", "write_rotated"} => msg # 0
    BY DEF SinkOK
  <2>. QED
    BY <2>1, <2>2 DEF DWrite, WriteMessage, Goto, dailyVars
<1>2. fd # NoName
  BY <1>1 DEF Keeps, DailyKeeps
<1>3. OldestGone' /\ (SomeGone' => SomeGone)
  BY <1>1, <1>2, WriteLosesNothing DEF Waiting
<1>4. \A a \in Names : Exists(a)' <=> Exists(a)
  BY <1>1 DEF Exists
<1>5. CASE step = "write"
  BY <1>1, <1>2, <1>3, <1>4, <1>5, DailyStays DEF Unlisted
<1>6. CASE step = "write_rotated"
  <2>1. Listed' = Listed /\ Size(filenames)' = Size(filenames) /\ Day(rotationTp)' = Day(rotationTp)
    BY <1>1 DEF Listed, Contents, Size, Day
  <2>2. DailyKeeps'
    BY <1>1, <1>2, <1>3, <1>4, <1>6, <2>1 DEF Keeps, DailyKeeps, Unlisted, sink
  <2>. QED
    BY <1>1, <1>3, <1>6, <2>2 DEF Keeps, NotStarted, RotatingKeeps, sink
<1>. QED
  BY <1>1, <1>5, <1>6

\* A name is added to a ring, which drops its oldest if it is full.
LEMMA RingAdds ==
  ASSUME NEW n \in Nat \ {0}, NEW S, NEW q \in QueueType(n, S), NEW m \in S,
         NEW p, p = PushBack(IF IsFull(q) THEN TakeFront(q) ELSE q, m)
  PROVE  /\ p \in QueueType(n, S)
         /\ Size(q) = n =>
              /\ Size(p) = n /\ Front(q) = Contents(q)[1] /\ Contents(p)[n] = m
              /\ \A i \in 1..(n - 1) : Contents(p)[i] = Contents(q)[i + 1]
         /\ Size(q) # n =>
              /\ Size(p) = Size(q) + 1 /\ Size(q) < n /\ Contents(p)[Size(q) + 1] = m
              /\ \A i \in 1..Size(q) : Contents(p)[i] = Contents(q)[i]
<1>0. n \in Nat /\ n > 0 /\ Size(q) \in 0..n /\ (IsFull(q) <=> Size(q) = n)
  BY SizeBounds
<1>1. Contents(q) \in Seq(S \cup {NoItem}) /\ Len(Contents(q)) = Size(q)
  BY <1>0, ContentsSeq
<1>2. CASE Size(q) = n
  <2>. DEFINE r == TakeFront(q)
  <2>1. r \in QueueType(n, S) /\ p = PushBack(r, m)
    BY <1>0, <1>2, TakeFrontType
  <2>2. Contents(q) # <<>> /\ Front(q) = Head(Contents(q)) /\ Contents(r) = Tail(Contents(q))
    <3>1. ~IsEmpty(q)
      BY <1>0, <1>2, SizeBounds
    <3>. QED
      BY <1>0, <3>1, TakeFrontTakesHead
  <2>. HIDE DEF r
  <2>3. /\ Front(q) = Contents(q)[1] /\ Len(Contents(r)) = n - 1
        /\ Contents(r) \in Seq(S \cup {NoItem})
        /\ \A i \in 1..(n - 1) : Contents(r)[i] = Contents(q)[i + 1]
    BY <1>0, <1>1, <1>2, <2>2
  <2>4. Size(r) = n - 1 /\ ~IsFull(r)
    <3>1. Size(r) = Len(Contents(r))
      BY <1>0, <2>1, ContentsSeq
    <3>2. IsFull(r) <=> Size(r) = n
      BY <1>0, <2>1, SizeBounds
    <3>. QED
      BY <1>0, <2>3, <3>1, <3>2
  <2>5. p \in QueueType(n, S) /\ Contents(p) = Append(Contents(r), m)
    BY <1>0, <2>1, <2>4, PushBackType, PushBackAppends
  <2>6. Size(p) = Len(Contents(p))
    BY <1>0, <2>5, ContentsSeq
  <2>7. /\ Len(Append(Contents(r), m)) = n /\ Append(Contents(r), m)[n] = m
        /\ \A i \in 1..(n - 1) : Append(Contents(r), m)[i] = Contents(r)[i]
    BY <1>0, <2>3
  <2>. QED
    BY <1>2, <2>3, <2>5, <2>6, <2>7
<1>3. CASE Size(q) # n
  <2>1. p = PushBack(q, m) /\ ~IsFull(q)
    BY <1>0, <1>3
  <2>2. p \in QueueType(n, S) /\ Contents(p) = Append(Contents(q), m)
    BY <1>0, <2>1, PushBackType, PushBackAppends
  <2>3. Size(p) = Len(Contents(p))
    BY <1>0, <2>2, ContentsSeq
  <2>4. /\ Len(Append(Contents(q), m)) = Size(q) + 1 /\ Append(Contents(q), m)[Size(q) + 1] = m
        /\ \A i \in 1..Size(q) : Append(Contents(q), m)[i] = Contents(q)[i]
    BY <1>0, <1>1
  <2>5. Size(q) < n
    BY <1>0, <1>3
  <2>6. Size(p) = Size(q) + 1 /\ Contents(p)[Size(q) + 1] = m
    BY <2>2, <2>3, <2>4
  <2>7. \A i \in 1..Size(q) : Contents(p)[i] = Contents(q)[i]
    BY <2>2, <2>4
  <2>. QED
    BY <1>3, <2>2, <2>5, <2>6, <2>7
<1>. QED
  BY <1>2, <1>3

\* A name is added while the ring has room.
LEMMA AddFilenameRoom ==
  ASSUME OrderInv, Keeps, sink = "daily", UNCHANGED <<bounds, now>>, DailySettings,
         AddFilename, Size(filenames) # DailyFiles
  PROVE  Keeps'
<1>. USE DailyState
<1>1. PICK f \in Names : f = fd
  BY DEF AddFilename, Keeps, DailyKeeps, FilesOK
<1>2. /\ step = "delete_old" /\ step' = "idle"
      /\ UNCHANGED <<fd, buffer, rotationTp, msg, given>>
      /\ filenames' = PushBack(IF IsFull(filenames) THEN TakeFront(filenames) ELSE filenames, f)
      /\ disk' = disk
  <2>1. ~IsFull(filenames)
    BY SizeBounds DEF DailySettings
  <2>. QED
    BY <1>1, <2>1 DEF AddFilename, Goto
<1>3. DailyFiles \in Nat \ {0}
  BY DEF DailySettings
<1>. DEFINE n == Size(filenames)
<1>4. /\ filenames' \in QueueType(DailyFiles, Names)
      /\ Size(filenames') = n + 1 /\ n < DailyFiles /\ Contents(filenames')[n + 1] = f
      /\ \A i \in 1..n : Contents(filenames')[i] = Contents(filenames)[i]
  BY <1>2, <1>3, RingAdds
<1>5. /\ n \in Nat /\ Size(filenames)' = n + 1 /\ Listed'[n + 1] = f
      /\ \A i \in 1..n : Listed'[i] = Listed[i]
  BY <1>4 DEF Listed
<1>. HIDE DEF n
<1>6. /\ \A i, j \in 1..n : i < j => Listed[i] < Listed[j]
      /\ \A a \in Names : Exists(a) <=> (\E i \in 1..n : Listed[i] = a) \/ a = f
      /\ \A i \in 1..n : Listed[i] \in Names
      /\ \A i \in 1..n : Listed[i] < f
      /\ \A a \in Names : Exists(a) => a < Day(rotationTp)
      /\ ~SomeGone
  BY <1>1, <1>2 DEF Keeps, DailyKeeps, Unlisted, n
<1>7. /\ \A k \in Nat : Absent(k)' <=> Absent(k)
      /\ \A a \in Names : Exists(a)' <=> Exists(a)
  BY <1>2 DEF Absent, Content, Exists
<1>8. OldestGone' /\ ~SomeGone'
  <2>1. \A k \in 1..Len(given) : Pending(k) => Pending(k)'
    BY <1>2 DEF Pending, Waiting
  <2>. QED
    BY <1>2, <1>6, <1>7, <2>1, NothingGoes
<1>9. Day(rotationTp)' = Day(rotationTp)
  BY <1>2 DEF Day
<1>10. /\ \A i, j \in 1..(n + 1) : i < j => Listed'[i] < Listed'[j]
       /\ \A i \in 1..(n + 1) : Listed'[i] \in Names
       /\ \A a \in Names : Exists(a)' <=> \E i \in 1..(n + 1) : Listed'[i] = a
  <2>1. \A i \in 1..(n + 1) : i \in 1..n \/ i = n + 1
    BY <1>5
  <2>2. \A i \in 1..n : i \in 1..(n + 1) /\ i < n + 1
    BY <1>5
  <2>3. n + 1 \in 1..(n + 1)
    BY <1>5
  <2>4. ASSUME NEW i \in 1..(n + 1), NEW j \in 1..(n + 1), i < j PROVE Listed'[i] < Listed'[j]
    <3>1. i \in 1..n
      BY <1>5, <2>4
    <3>. QED
      BY <1>5, <1>6, <2>1, <2>4, <3>1
  <2>. QED
    BY <1>5, <1>6, <1>7, <2>1, <2>2, <2>3, <2>4
<1>11. DailyKeeps'
  BY <1>1, <1>2, <1>4, <1>5, <1>6, <1>7, <1>8, <1>9, <1>10 DEF DailyKeeps, Unlisted
<1>. QED
  BY <1>2, <1>8, <1>11 DEF Keeps, NotStarted, RotatingKeeps, sink

\* The oldest name makes room for that of the file that is open; its messages
\* are older than all others.
LEMMA AddFilenameFull ==
  ASSUME OrderInv, Keeps, sink = "daily", UNCHANGED <<bounds, now>>, DailySettings,
         AddFilename, Size(filenames) = DailyFiles
  PROVE  Keeps'
<1>. USE DailyState
<1>1. PICK f \in Names : f = fd
  BY DEF AddFilename, Keeps, DailyKeeps, FilesOK
<1>2. IsFull(filenames)
  BY SizeBounds DEF DailySettings
<1>3. /\ step = "delete_old" /\ step' = "idle"
      /\ UNCHANGED <<fd, buffer, rotationTp, msg, given>>
      /\ filenames' = PushBack(IF IsFull(filenames) THEN TakeFront(filenames) ELSE filenames, f)
      /\ disk' = [disk EXCEPT ![Front(filenames)] = NoFile]
  BY <1>1, <1>2 DEF AddFilename, Goto
<1>. DEFINE n == DailyFiles
<1>4. n \in Nat \ {0} /\ 1 \in 1..n
  BY DEF DailySettings
<1>0. PICK old \in Names : old = Listed[1]
  BY <1>4 DEF Keeps, DailyKeeps
<1>5. /\ filenames' \in QueueType(DailyFiles, Names) /\ Size(filenames') = n
      /\ Front(filenames) = Contents(filenames)[1] /\ Contents(filenames')[n] = f
      /\ \A i \in 1..(n - 1) : Contents(filenames')[i] = Contents(filenames)[i + 1]
  BY <1>3, <1>4, RingAdds
<1>6. /\ Size(filenames)' = n /\ Listed'[n] = f /\ Front(filenames) = old
      /\ \A i \in 1..(n - 1) : Listed'[i] = Listed[i + 1]
  BY <1>0, <1>5 DEF Listed
<1>7. /\ \A i, j \in 1..n : i < j => Listed[i] < Listed[j]
      /\ \A a \in Names : Exists(a) <=> (\E i \in 1..n : Listed[i] = a) \/ a = f
      /\ \A i \in 1..n : Listed[i] \in Names
      /\ \A i \in 1..n : Listed[i] < f
      /\ \A a \in Names : Exists(a) => a < Day(rotationTp)
  BY <1>1, <1>3 DEF Keeps, DailyKeeps, Unlisted
<1>8. old \in Names /\ old < f /\ old # f /\ Names \subseteq Nat
  BY <1>0, <1>4, <1>7
<1>9. \A a \in Names : Exists(a) => a = old \/ old < a
  <2>1. ASSUME NEW i \in 1..n PROVE i = 1 \/ Listed[1] < Listed[i]
    BY <1>4, <1>7, <2>1
  <2>. QED
    BY <1>0, <1>7, <1>8, <2>1
<1>. HIDE DEF n
<1>10. disk' = [disk EXCEPT ![old] = NoFile] /\ disk \in [Names -> Seq(Nat) \cup {NoFile}]
  BY <1>3, <1>6 DEF FilesOK
<1>11. disk'[old] = NoFile /\ \A a \in Names : a # old => disk'[a] = disk[a]
  BY <1>8, <1>10
<1>12. /\ \A a \in Names : Exists(a)' <=> Exists(a) /\ a # old
       /\ \A a \in Names : a # old => Content(a)' = Content(a)
       /\ Content(old)' = <<>>
  BY <1>8, <1>11 DEF Exists, Content
<1>13. \A k \in Nat : Absent(k) => Absent(k)'
  BY <1>3, <1>8, <1>12 DEF Absent
<1>14. ASSUME NEW k \in Nat, NEW l \in Nat, ~Absent(k), Absent(k)', ~Absent(l)'
       PROVE  k < l
  <2>1. PICK x \in DOMAIN Content(old) : Content(old)[x] = k
    <3>1. \A y \in DOMAIN buffer : buffer[y] # k
      BY <1>3, <1>14 DEF Absent
    <3>2. PICK c \in Names : \E x \in DOMAIN Content(c) : Content(c)[x] = k
      BY <1>14, <3>1 DEF Absent
    <3>3. c = old
      BY <1>12, <1>14, <3>2 DEF Absent
    <3>. QED
      BY <3>2, <3>3
  <2>2. CASE \E y \in DOMAIN buffer : buffer[y] = l
    BY <1>8, <2>1, <2>2 DEF BufferNewest
  <2>3. CASE ~\E y \in DOMAIN buffer : buffer[y] = l
    <3>1. PICK b \in Names : \E y \in DOMAIN Content(b)' : Content(b)'[y] = l
      BY <1>3, <1>14, <2>3 DEF Absent
    <3>2. b # old /\ \E y \in DOMAIN Content(b) : Content(b)[y] = l
      BY <1>12, <3>1
    <3>3. Exists(b)
      BY <3>2 DEF Content
    <3>4. Before(old, b)
      BY <1>8, <1>9, <3>2, <3>3 DEF Ordered, Older
    <3>. QED
      BY <2>1, <3>2, <3>4 DEF Before
  <2>. QED
    BY <2>2, <2>3
<1>15. \A k \in 1..Len(given) : Pending(k) => Pending(k)'
  BY <1>3 DEF Pending, Waiting
<1>16. OldestGone'
  BY <1>3, <1>13, <1>14, <1>15, OldestGo
<1>17. Day(rotationTp)' = Day(rotationTp)
  BY <1>3 DEF Day
<1>18. ASSUME NEW i \in 1..n PROVE i = n \/ (i \in 1..(n - 1) /\ i + 1 \in 1..n)
  BY <1>4 DEF n
<1>19. \A i, j \in 1..n : i < j => Listed'[i] < Listed'[j]
  <2>. SUFFICES ASSUME NEW i \in 1..n, NEW j \in 1..n, i < j PROVE Listed'[i] < Listed'[j]
    OBVIOUS
  <2>1. i \in 1..(n - 1) /\ i + 1 \in 1..n /\ Listed'[i] = Listed[i + 1]
    BY <1>4, <1>6, <1>18 DEF n
  <2>2. CASE j = n
    BY <1>6, <1>7, <2>1, <2>2 DEF n
  <2>3. CASE j # n
    <3>1. j + 1 \in 1..n /\ Listed'[j] = Listed[j + 1] /\ i + 1 < j + 1
      BY <1>4, <1>6, <1>18, <2>3 DEF n
    <3>. QED
      BY <1>7, <2>1, <3>1 DEF n
  <2>. QED
    BY <2>2, <2>3
<1>20. \A i \in 1..n : Listed'[i] \in Names
  BY <1>6, <1>7, <1>18 DEF n
<1>21. \A a \in Names : Exists(a)' <=> \E i \in 1..n : Listed'[i] = a
  <2>. SUFFICES ASSUME NEW a \in Names PROVE Exists(a)' <=> \E i \in 1..n : Listed'[i] = a
    OBVIOUS
  <2>0. n \in 1..n
    BY <1>4 DEF n
  <2>1. ASSUME Exists(a)' PROVE \E i \in 1..n : Listed'[i] = a
    <3>1. CASE a = f
      BY <1>6, <2>0, <3>1
    <3>2. CASE a # f
      <4>1. PICK i \in 1..n : Listed[i] = a
        BY <1>7, <1>12, <2>1, <3>2 DEF n
      <4>2. i # 1
        BY <1>0, <1>12, <2>1, <4>1
      <4>3. i - 1 \in 1..(n - 1) /\ i - 1 \in 1..n /\ (i - 1) + 1 = i
        BY <1>4, <4>2 DEF n
      <4>4. Listed'[i - 1] = a
        BY <1>6, <4>1, <4>3
      <4>. QED
        BY <4>3, <4>4
    <3>. QED
      BY <3>1, <3>2
  <2>2. ASSUME NEW i \in 1..n, Listed'[i] = a PROVE Exists(a)'
    <3>1. CASE i = n
      BY <1>6, <1>7, <1>8, <1>12, <2>2, <3>1
    <3>2. CASE i # n
      <4>1. i \in 1..(n - 1) /\ i + 1 \in 1..n /\ a = Listed[i + 1] /\ 1 < i + 1
        BY <1>4, <1>6, <1>18, <2>2, <3>2 DEF n
      <4>2. Exists(a)
        BY <1>7, <4>1 DEF n
      <4>3. old < a
        BY <1>0, <1>4, <1>7, <4>1 DEF n
      <4>. QED
        BY <1>8, <1>12, <4>2, <4>3
    <3>. QED
      BY <3>1, <3>2
  <2>. QED
    BY <2>1, <2>2
<1>22. DailyKeeps'
  <2>1. Size(filenames)' = DailyFiles /\ n = DailyFiles
    BY <1>6 DEF n
  <2>2. fd' # NoName /\ ~Unlisted'
    BY <1>1, <1>3 DEF Unlisted
  <2>. QED
    BY <1>3, <1>5, <1>7, <1>12, <1>17, <1>19, <1>20, <1>21, <2>1, <2>2 DEF DailyKeeps, Unlisted
<1>. QED
  BY <1>3, <1>16, <1>22 DEF Keeps, NotStarted, RotatingKeeps, sink

-----------------------------------------------------------------------------
(* Nothing else is missing: the steps                                      *)

\* A step of the rotating sink that does not fail.
LEMMA RStepKeeps ==
  ASSUME OrderInv, Keeps, sink = "rotating", bounds' = bounds, faults = 0, faults' = 0,
         Len(given) \in Nat, RStep
  PROVE  Keeps'
<1>1. ~Fault
  BY DEF Fault
<1>2. ~ROpenFails /\ ~RFlushFails /\ ~RenameFails /\ ~ReopenFails /\ ~RWriteFails
  BY <1>1 DEF ROpenFails, RFlushFails, RenameFails, ReopenFails, RWriteFails,
              OpenFails, FlushFails, WriteFails
<1>3. ~Abandon /\ ~AbandonFails
  BY RotatingState DEF Abandon, AbandonFails
<1>. QED
  BY <1>2, <1>3, ROpenKeeps, RFlushKeeps, RenameKeeps, ReopenKeeps, RWriteKeeps DEF RStep

\* A step of the daily sink that does not fail; the file it deletes is never
\* the one that is open.
LEMMA DStepKeeps ==
  ASSUME OrderInv, Keeps, sink = "daily", UNCHANGED <<bounds, now>>, DailySettings,
         faults = 0, faults' = 0, ~missed', given \in Seq(Stamped), DStep
  PROVE  Keeps'
<1>0. Len(given) \in Nat
  OBVIOUS
<1>1. ~Fault
  BY DEF Fault
<1>2. ~DOpenFails /\ ~DReopenFails /\ ~DWriteFails
  BY <1>1 DEF DOpenFails, DReopenFails, DWriteFails, OpenFails, WriteFails
<1>3. ~DeleteOldFails
  <2>. SUFFICES ASSUME DeleteOldFails PROVE FALSE
    OBVIOUS
  <2>1. Front(filenames) = fd /\ step = "delete_old" /\ IsFull(filenames)
    BY <1>1 DEF DeleteOldFails
  <2>2. /\ filenames \in QueueType(DailyFiles, Names)
        /\ \A i \in 1..Size(filenames) : Listed[i] < fd /\ Listed[i] \in Names
    BY <2>1 DEF Keeps, DailyKeeps, Unlisted
  <2>3. DailyFiles \in Nat \ {0} /\ Size(filenames) = DailyFiles
    BY <2>1, <2>2, SizeBounds DEF DailySettings
  <2>4. Front(filenames) = Listed[1]
    BY <2>2, <2>3, RingAdds DEF Listed
  <2>5. 1 \in 1..Size(filenames)
    BY <2>3
  <2>6. fd < fd /\ fd \in Nat
    BY <2>1, <2>2, <2>4, <2>5, FileAssumption
  <2>. QED
    BY <2>6
<1>4. AddFilename => Keeps'
  BY AddFilenameRoom, AddFilenameFull
<1>. QED
  BY <1>0, <1>2, <1>3, <1>4, DOpenKeeps, DScheduleKeeps, DListKeeps, DCloseKeeps,
     DReopenKeeps, DWriteKeeps DEF DStep

\* The settings of a daily sink that is healthy.
LEMMA HealthyDaily ==
  ASSUME IInv, Healthy, sink = "daily"
  PROVE  DailySettings
<1>1. DailyFiles \in Nat /\ Truncate \in BOOLEAN
  BY DailyAssumption
<1>. QED
  BY <1>1 DEF IInv, ClientsOK, Healthy, DailySettings

\* The call in the sink goes on.
LEMMA SinkStepKeeps ==
  ASSUME IInv, Keeps, Healthy, Healthy', SinkStep
  PROVE  Keeps'
<1>1. UNCHANGED <<bounds, now>> /\ OrderInv /\ given \in Seq(Stamped) /\ Len(given) \in Nat
  BY DEF SinkStep, counts, IInv, ClientsOK
<1>2. CASE sink = "rotating" /\ RStep
  BY <1>1, <1>2, RStepKeeps DEF Healthy
<1>3. CASE sink = "daily" /\ DStep
  <2>1. faults = 0 /\ faults' = 0 /\ ~missed' /\ DailySettings
    BY <1>1, <1>3, HealthyDaily DEF Healthy, sink
  <2>. QED
    BY <1>1, <1>3, <2>1, DStepKeeps
<1>. QED
  BY <1>2, <1>3 DEF SinkStep

\* A call reaches the sink.
LEMMA EnterSinkKeeps ==
  ASSUME IInv, Keeps, Healthy, NEW t \in Threads, EnterSink(t)
  PROVE  Keeps'
<1>. DEFINE m == call[t].m
<1>1. /\ UNCHANGED <<bounds, now, disk, fd, buffer, faults>> /\ OrderInv /\ OldestGone
      /\ Len(given) \in Nat /\ step = "idle"
  BY DEF EnterSink, counts, IInv, ClientsOK, RLog, DLog, Give, fileVars, Keeps
<1>2. \A a \in Names : Exists(a)' <=> Exists(a)
  BY <1>1 DEF Exists
<1>3. CASE sink = "rotating"
  <2>1. PICK next \in {"flush", "write"} : Give(m, next)
    BY <1>3 DEF EnterSink, RLog
  <2>2. step' = next
    BY <2>1 DEF Give
  <2>3. OldestGone' /\ (SomeGone' => SomeGone)
    BY <1>1, <2>1, GiveLosesNothing DEF Waiting
  <2>. QED
    BY <1>1, <1>2, <1>3, <2>2, <2>3, RotatingStays
<1>4. CASE sink = "daily"
  <2>1. PICK next \in {"close", "write"} : Give(m, next)
    BY <1>4 DEF EnterSink, DLog
  <2>2. step' = next /\ UNCHANGED <<filenames, rotationTp>>
    BY <1>4, <2>1 DEF EnterSink, DLog, Give, dailyVars
  <2>3. OldestGone' /\ (SomeGone' => SomeGone)
    BY <1>1, <2>1, GiveLosesNothing DEF Waiting
  <2>4. fd' # NoName
    BY <1>1, <1>4 DEF Keeps, DailyKeeps
  <2>. QED
    BY <1>1, <1>2, <1>4, <2>2, <2>3, <2>4, DailyStays DEF Unlisted
<1>. QED
  BY <1>3, <1>4, LoggerAssumption DEF IInv, ClientsOK, sink

\* Nothing of the sink changes but the clock.
LEMMA SinkUntouched ==
  ASSUME Keeps, UNCHANGED <<disk, fd, buffer, step, msg, given, index, rotationTp, filenames, bounds>>
  PROVE  Keeps'
<1>1. /\ \A n \in Nat : Absent(n)' <=> Absent(n)
      /\ \A a \in Names : Exists(a)' <=> Exists(a)
  BY DEF Absent, Content, Exists
<1>2. OldestGone' /\ (SomeGone' => SomeGone)
  <2>1. \A n \in 1..Len(given) : Pending(n) => Pending(n)'
    BY DEF Pending
  <2>. QED
    BY <1>1, <2>1, NothingGoes DEF Keeps
<1>3. \A i \in 0..MaxFiles : Hole(i)' <=> Hole(i)
  BY DEF Hole
<1>4. RotatingKeeps'
  <2>. SUFFICES ASSUME sink = "rotating" PROVE RotatingKeeps'
    BY DEF RotatingKeeps, sink
  <2>1. /\ \A a \in Names : Exists(a) => a \in 0..MaxFiles
        /\ \A i, j \in 0..MaxFiles : i < j /\ Exists(j) => Exists(i) \/ Hole(i)
        /\ \A i \in 0..MaxFiles : Hole(i) => ~Exists(i)
        /\ step \notin {"rename", "down"} => fd = 0
        /\ step # "rename_failed"
        /\ SomeGone => \A i \in 0..MaxFiles : Exists(i) \/ Hole(i)
    BY DEF Keeps, RotatingKeeps
  <2>2. \A i \in 0..MaxFiles : i \in Names
    BY RotatingAssumption
  <2>. QED
    BY <1>1, <1>2, <1>3, <2>1, <2>2 DEF RotatingKeeps
<1>5. Listed' = Listed /\ Size(filenames)' = Size(filenames) /\ Day(rotationTp)' = Day(rotationTp)
  BY DEF Listed, Contents, Size, Day
<1>6. DailyKeeps'
  BY <1>1, <1>2, <1>5 DEF Keeps, DailyKeeps, Unlisted, sink
<1>. QED
  BY <1>1, <1>2, <1>4, <1>6 DEF Keeps, NotStarted

\* The flush after a message.
LEMMA AfterSinkKeeps ==
  ASSUME IInv, Keeps, Healthy, faults' = 0, NEW t \in Threads, AfterSink(t)
  PROVE  Keeps'
<1>1. /\ UNCHANGED <<step, msg, given, index, rotationTp, filenames, bounds, now>>
      /\ OrderInv /\ FilesOK /\ OldestGone
      /\ UNCHANGED fileVars \/ (step = "idle" /\ FlushFile)
  BY DEF AfterSink, callFrame, rotatingVars, dailyVars, counts, IInv, OrderInv, FInv, Keeps,
         FlushFails, Fault, Healthy
<1>2. CASE UNCHANGED fileVars
  BY <1>1, <1>2, SinkUntouched DEF fileVars
<1>3. CASE step = "idle" /\ FlushFile
  <2>1. disk' = Written(Len(buffer)) /\ buffer' = <<>> /\ fd' = fd
    BY <1>3 DEF FlushFile
  <2>2. \A n \in Nat : Absent(n)' <=> Absent(n)
    BY <1>1, <2>1, WrittenLosesNothing
  <2>3. \A a \in Names : Exists(a)' <=> Exists(a)
    BY <1>1, <2>1, WrittenLosesNothing
  <2>4. \A n \in 1..Len(given) : Pending(n) => Pending(n)'
    BY <1>1 DEF Pending
  <2>5. OldestGone' /\ (SomeGone' => SomeGone)
    BY <1>1, <2>2, <2>4, NothingGoes
  <2>6. CASE sink = "rotating"
    BY <1>1, <1>3, <2>1, <2>3, <2>5, <2>6, RotatingStays
  <2>7. CASE sink = "daily"
    <3>1. fd' # NoName
      BY <1>3, <2>1, <2>7 DEF Keeps, DailyKeeps
    <3>. QED
      BY <1>1, <1>3, <2>3, <2>5, <2>7, <3>1, DailyStays DEF Unlisted
  <2>. QED
    BY <2>6, <2>7, LoggerAssumption DEF IInv, ClientsOK, sink
<1>. QED
  BY <1>1, <1>2, <1>3

\* A first start has no file, no name and no message.
LEMMA InitKeeps == Init => KeepInv
<1>. SUFFICES ASSUME Init PROVE Keeps /\ crashes = 0
  BY DEF KeepInv
<1>1. /\ step = "down" /\ given = <<>> /\ \A a \in Names : ~Exists(a)
      /\ fd = NoName /\ filenames = NewQ(DailyFiles) /\ crashes = 0
  BY DEF Init, FileInit, DInit, Exists
<1>2. \A n \in Nat : ~Gone(n)
  BY <1>1 DEF Gone
<1>3. OldestGone /\ ~SomeGone /\ NotStarted
  BY <1>1, <1>2 DEF OldestGone, SomeGone, NotStarted
<1>4. RotatingKeeps
  <2>1. 0..MaxFiles \subseteq Names
    BY RotatingAssumption
  <2>. QED
    BY <1>1, <1>3, <2>1 DEF RotatingKeeps, Hole
<1>5. DailyKeeps
  <2>1. filenames \in QueueType(DailyFiles, Names) /\ Listed = <<>> /\ DailyFiles \in Nat
    BY <1>1, NewQEmpty, DailyAssumption DEF Listed
  <2>2. Size(filenames) = Len(Listed)
    BY <2>1, ContentsSeq DEF Listed
  <2>3. \A i \in 1..Size(filenames) : FALSE
    BY <2>1, <2>2
  <2>4. ~Unlisted
    BY <1>1 DEF Unlisted
  <2>. QED
    BY <1>1, <1>3, <2>1, <2>3, <2>4 DEF DailyKeeps
<1>. QED
  BY <1>1, <1>3, <1>4, <1>5 DEF Keeps

\* A system that is healthy was so before.
LEMMA HealthyBefore ==
  ASSUME IInv, Unreturned, KeepInv, [Next]_vars, Healthy'
  PROVE  Healthy
<1>1. faults \in Nat /\ crashes \in Nat
  BY DEF Unreturned, KeepInv
<1>2. bounds' = bounds /\ crashes' \in {crashes, crashes + 1}
  BY DEF Next, vars, ThreadStep, SinkStep, ClockTick, Crash, Log, Switch, Dump, EnterSink,
         AfterSink, Trace, Lock, Item, Pop, Unlock, counts
<1>3. faults' \in {faults, faults + 1}
  <2>1. CASE SinkStep
    BY <2>1 DEF SinkStep, RStep, ROpen, ROpenFails, RFlush, RFlushFails, RClose, Rename,
       RenameFails, Reopen, ReopenFails, Abandon, AbandonFails, RWrite, RWriteFails,
       DStep, DOpen, DOpenFails, DSchedule, DList, DClose, DReopen, DReopenFails, DWrite, DWriteFails,
       AddFilename, DeleteOldFails, OpenFile, OpenFails, FlushFile, FlushFails, CloseFile,
       WriteMessage, WriteFails, Fault, fileVars
  <2>2. CASE ~SinkStep
    BY <2>2 DEF Next, vars, ThreadStep, ClockTick, Crash, Log, Switch, Dump, EnterSink,
       AfterSink, Trace, Lock, Item, Pop, Unlock, RLog, DLog, files, sinkVars, fileVars,
       Die, FlushFile, FlushFails, Fault
  <2>. QED
    BY <2>1, <2>2
<1>4. missed => missed'
  <2>1. CASE SinkStep
    BY <2>1 DEF SinkStep, DStep, DOpen, DOpenFails, DSchedule, DList, DClose, DReopen,
       DReopenFails, DWrite, DWriteFails, AddFilename, DeleteOldFails, dailyVars
  <2>2. CASE ~SinkStep
    BY <2>2 DEF Next, vars, ThreadStep, ClockTick, Crash, Log, Switch, Dump, EnterSink,
       AfterSink, Trace, Lock, Item, Pop, Unlock, DLog, files, dailyVars
  <2>. QED
    BY <2>1, <2>2
<1>. QED
  BY <1>1, <1>2, <1>3, <1>4 DEF Healthy, sink

\* Every step keeps what is missing older than what is there.
LEMMA NextKeeps == IInv /\ Unreturned /\ KeepInv /\ [Next]_vars => KeepInv'
<1>. SUFFICES ASSUME IInv, Unreturned, KeepInv, [Next]_vars PROVE KeepInv'
  OBVIOUS
<1>1. crashes' \in Nat
  BY DEF KeepInv, Next, vars, ThreadStep, SinkStep, ClockTick, Crash, Log, Switch, Dump,
         EnterSink, AfterSink, Trace, Lock, Item, Pop, Unlock, counts
<1>. SUFFICES ASSUME Healthy' PROVE Keeps'
  BY <1>1 DEF KeepInv
<1>2. Healthy /\ Keeps /\ faults' = 0
  BY HealthyBefore DEF KeepInv, Healthy
<1>3. ~Crash
  BY <1>2 DEF Healthy, Crash
<1>4. CASE UNCHANGED <<files, bounds>> \/ ClockTick
  BY <1>2, <1>4, SinkUntouched
     DEF files, sinkVars, fileVars, callFrame, rotatingVars, dailyVars, ClockTick, counts
<1>5. ASSUME NEW t \in Threads, NEW level \in {"debug", "info"},
             \/ Log(t, level) \/ Trace(t) \/ Switch(t) \/ Dump(t)
             \/ Lock(t) \/ Item(t) \/ Pop(t) \/ Unlock(t)
      PROVE  Keeps'
  BY <1>4, <1>5 DEF Log, Trace, Switch, Dump, Lock, Item, Pop, Unlock, counts
<1>6. CASE UNCHANGED vars
  BY <1>4, <1>6 DEF vars, counts
<1>. QED
  BY <1>2, <1>3, <1>4, <1>5, <1>6, SinkStepKeeps, EnterSinkKeeps, AfterSinkKeeps
     DEF Next, ThreadStep

\* What KeepsNewest calls present is what is not absent.
LEMMA PresentOrAbsent ==
  ASSUME NEW n
  PROVE  n \in Kept \cup Range(buffer) <=> ~Absent(n)
<1>1. n \in Range(buffer) <=> \E y \in DOMAIN buffer : buffer[y] = n
  BY DEF Range
<1>2. n \in Kept <=> \E a \in Names : \E x \in DOMAIN Content(a) : Content(a)[x] = n
  BY DEF Kept, Files, Content, Range
<1>. QED
  BY <1>1, <1>2 DEF Absent

\* The rotating sink keeps MaxFiles + 1 files at most, and has that many once
\* a message is gone.
LEMMA RotatingCount ==
  ASSUME Keeps, sink = "rotating", step = "idle"
  PROVE  Cardinality(Files) <= MaxFiles + 1 /\ (SomeGone => Cardinality(Files) = MaxFiles + 1)
<1>1. MaxFiles \in Nat /\ 0..MaxFiles \subseteq Names
  BY RotatingAssumption
<1>2. IsFiniteSet(0..MaxFiles) /\ Cardinality(0..MaxFiles) = MaxFiles + 1
  BY <1>1, FS_Interval
<1>3. Files \in SUBSET (0..MaxFiles)
  BY DEF Files, Keeps, RotatingKeeps
<1>4. Cardinality(Files) <= MaxFiles + 1
  BY <1>2, <1>3, FS_Subset
<1>5. SomeGone => Files = 0..MaxFiles
  BY <1>1, <1>3 DEF Keeps, RotatingKeeps, Hole, Files
<1>. QED
  BY <1>2, <1>4, <1>5

\* The daily sink keeps a file for each name in its ring.
LEMMA DailyCount ==
  ASSUME Keeps, sink = "daily", step = "idle", DailyFiles \in Nat
  PROVE  Cardinality(Files) <= DailyFiles /\ (SomeGone => Cardinality(Files) = DailyFiles)
<1>. DEFINE n == Size(filenames)
            f == [i \in 1..n |-> Listed[i]]
<1>1. /\ filenames \in QueueType(DailyFiles, Names)
      /\ \A i, j \in 1..n : i < j => Listed[i] < Listed[j]
      /\ \A i \in 1..n : Listed[i] \in Names
      /\ \A a \in Names : Exists(a) <=> \E i \in 1..n : Listed[i] = a
      /\ SomeGone => n = DailyFiles
  BY DEF Keeps, DailyKeeps, Unlisted
<1>2. n \in 0..DailyFiles
  BY <1>1, SizeBounds
<1>3. n \in Nat /\ n <= DailyFiles
  BY <1>2
<1>. HIDE DEF n
<1>4. f \in [1..n -> Files] /\ \A a \in Files : \E i \in 1..n : f[i] = a
  BY <1>1 DEF Files
<1>5. ASSUME NEW i \in 1..n, NEW j \in 1..n, f[i] = f[j] PROVE i = j
  <2>1. Listed[i] = Listed[j] /\ Listed[i] \in Nat
    BY <1>1, <1>5, FileAssumption
  <2>2. ~(i < j) /\ ~(j < i)
    BY <1>1, <2>1
  <2>. QED
    BY <1>3, <2>2
<1>. HIDE DEF f
<1>6. f \in Bijection(1..n, Files)
  BY <1>4, <1>5 DEF Bijection, Injection, Surjection, IsInjective
<1>7. Cardinality(Files) = n
  <2>1. IsFiniteSet(1..n) /\ Cardinality(1..n) = n
    BY <1>3, FS_Interval
  <2>. QED
    BY <1>6, <2>1, FS_Bijection DEF ExistsBijection
<1>. QED
  BY <1>1, <1>3, <1>7

\* What the invariant says, in the words of the property.
LEMMA KeepsEnough == IInv /\ KeepInv => KeepsNewest
<1>. SUFFICES ASSUME IInv, KeepInv PROVE KeepsNewest
  OBVIOUS
<1>. DEFINE limit == IF sink = "rotating" THEN MaxFiles + 1 ELSE DailyFiles
            present == Kept \cup Range(buffer)
<1>. SUFFICES ASSUME step = "idle", faults = 0, crashes = 0,
                     sink = "daily" => limit > 0 /\ RotationAt = 0 /\ ~Truncate /\ ~missed
              PROVE  /\ Cardinality(Files) <= limit
                     /\ \A n \in (1..Len(given)) \ present :
                          Cardinality(Files) = limit /\ \A k \in present : n < k
  BY Zenon DEF KeepsNewest
<1>1. Keeps /\ given \in Seq(Stamped) /\ FilesOK
  BY DEF KeepInv, Healthy, IInv, OrderInv, FInv, ClientsOK
<1>2. Cardinality(Files) <= limit /\ (SomeGone => Cardinality(Files) = limit)
  <2>1. CASE sink = "rotating"
    BY <1>1, <2>1, RotatingCount
  <2>2. CASE sink = "daily"
    BY <1>1, <2>2, DailyCount, DailyAssumption
  <2>. QED
    BY <2>1, <2>2, LoggerAssumption DEF IInv, ClientsOK, sink
<1>. HIDE DEF limit
<1>3. present \subseteq Nat
  <2>1. \A a \in Names : Content(a) \in Seq(Nat)
    BY <1>1, ContentType DEF FilesOK
  <2>2. Range(buffer) \subseteq Nat
    BY <1>1 DEF FilesOK, Range
  <2>3. \A a \in Files : disk[a] = Content(a) /\ a \in Names
    BY DEF Files, Content
  <2>4. Kept \subseteq Nat
    BY <2>1, <2>3 DEF Kept, Range
  <2>. QED
    BY <2>2, <2>4
<1>4. ASSUME NEW n \in (1..Len(given)) \ present
      PROVE  Gone(n) /\ n \in Nat
  <2>1. Absent(n)
    BY <1>4, PresentOrAbsent
  <2>. QED
    BY <1>4, <2>1 DEF Gone, Pending, Waiting
<1>5. ASSUME NEW n \in (1..Len(given)) \ present, NEW k \in present
      PROVE  n < k
  <2>1. ~Absent(k) /\ k \in Nat
    BY <1>3, PresentOrAbsent
  <2>. QED
    BY <1>1, <1>4, <2>1 DEF Keeps, OldestGone
<1>. QED
  BY <1>2, <1>4, <1>5 DEF SomeGone

\* While no file operation fails and the process does not die, a message is
\* missing from the sink's files only because newer messages fill all the files
\* the sink may keep, and it never keeps more: rotating_file_sink's rotation
\* never drops a file before its turn, and daily_file_sink, when it rotates at
\* midnight, does not truncate and was not constructed across a midnight,
\* deletes nothing but the oldest day.
THEOREM NewestKept == Spec => []KeepsNewest
<1>1. Init => IInv /\ Unreturned /\ KeepInv
  BY InitInvariant, InitUnreturned, InitKeeps
<1>2. IInv /\ Unreturned /\ KeepInv /\ [Next]_vars => (IInv /\ Unreturned /\ KeepInv)'
  BY NextInvariant, NextUnreturned, NextKeeps
<1>3. IInv /\ KeepInv => KeepsNewest
  BY KeepsEnough
<1>. QED
  BY <1>1, <1>2, <1>3, PTL DEF Spec

-----------------------------------------------------------------------------
(* The sizes of the files                                                  *)

\* SizeOf(s, fl) when the messages given are g; what a file may hold.
Sized(s, g, fl) ==
  SumTo([k \in DOMAIN s |-> IF s[k] \in fl THEN 0 ELSE g[s[k]].size], Len(s))
Lone(s, fl) == \A x, y \in DOMAIN s : {s[x], s[y]} \cap fl = {} => x = y
Fits(s, g, fl) == s \in Seq(DOMAIN g) /\ (Sized(s, g, fl) <= MaxSize \/ Lone(s, fl))

Prefix(s, t) == \E n \in 0..Len(t) : s = SubSeq(t, 1, n)

\* What a rotating sink writes to, and what is still on its way there.
Load == Content(0) \o buffer

FilesFit ==
  /\ \A a \in 0..MaxFiles : Fits(Content(a), given, failed)
  /\ Fits(Load, given, failed)

\* currentSize counts what is in the file, newSize the message under way too.
Counted ==
  /\ currentSize \in Nat /\ newSize \in Nat
  /\ fd # NoName /\ step \in {"idle", "flush", "write"} =>
       Sized(Load, given, failed) <= currentSize
  /\ step = "flush" => given[msg].size <= newSize
  /\ fd # NoName /\ step = "write" =>
       /\ Sized(Load, given, failed) + given[msg].size <= newSize
       /\ newSize <= MaxSize \/ Load = <<>>

SizeInv == sink = "rotating" => FilesFit /\ Counted

\* A set of numbers has a least one: what holds for all lengths of a sequence is
\* proved by the least one for which it would fail.
LEMMA LeastNumber ==
  ASSUME NEW T \in SUBSET Nat, T # {}
  PROVE  \E n \in T : \A m \in T : n <= m
<1>1. PICK n \in T : \A m \in T : <<m, n>> \notin OpToRel(<, Nat)
  BY NatLessThanWellFounded, WFMin, Zenon
<1>2. \A m \in T : ~(m < n)
  BY <1>1 DEF OpToRel
<1>. QED
  BY <1>2

\* f sums v up to n.
Sums(f, v, n) == f[0] = 0 /\ \A k \in 1..n : f[k] = f[k - 1] + v[k]

\* The sums of n numbers exist.
LEMMA SumsExist ==
  ASSUME NEW n \in Nat, NEW v
  PROVE  \E f : f = [k \in 0..n |-> IF k = 0 THEN 0 ELSE f[k - 1] + v[k]]
<1>. DEFINE Bad == {m \in 0..n : ~ \E f : f = [k \in 0..m |-> IF k = 0 THEN 0 ELSE f[k - 1] + v[k]]}
<1>1. SUFFICES ASSUME Bad # {} PROVE FALSE
  <2>1. n \in 0..n
    OBVIOUS
  <2>. QED
    BY <1>1, <2>1
<1>2. PICK m \in Bad : \A i \in Bad : m <= i
  <2>1. Bad \in SUBSET Nat
    OBVIOUS
  <2>. HIDE DEF Bad
  <2>. QED
    BY <1>1, <2>1, LeastNumber
<1>3. m \in 0..n /\ ~ \E f : f = [k \in 0..m |-> IF k = 0 THEN 0 ELSE f[k - 1] + v[k]]
  OBVIOUS
<1>4. m \in Nat /\ m <= n
  BY <1>3
<1>5. m # 0
  <2>. SUFFICES ASSUME m = 0 PROVE FALSE
    OBVIOUS
  <2>. DEFINE f == [k \in 0..0 |-> 0]
  <2>1. f = [k \in 0..0 |-> IF k = 0 THEN 0 ELSE f[k - 1] + v[k]]
    OBVIOUS
  <2>. QED
    BY <1>3, <2>1
<1>6. PICK g : g = [k \in 0..(m - 1) |-> IF k = 0 THEN 0 ELSE g[k - 1] + v[k]]
  <2>1. m - 1 \in 0..n /\ ~(m <= m - 1)
    BY <1>4, <1>5
  <2>2. m - 1 \notin Bad
    <3>. HIDE DEF Bad
    <3>. QED
      BY <1>2, <2>1
  <2>. QED
    BY <2>1, <2>2
<1>. DEFINE f == [k \in 0..m |-> IF k = m THEN g[m - 1] + v[m] ELSE g[k]]
<1>7. ASSUME NEW k \in 0..m PROVE f[k] = IF k = 0 THEN 0 ELSE f[k - 1] + v[k]
  <2>1. CASE k = m
    <3>1. m - 1 \in 0..m /\ m - 1 # m
      BY <1>4, <1>5
    <3>. QED
      BY <1>5, <2>1, <3>1
  <2>2. CASE k # m
    <3>1. k \in 0..(m - 1) /\ (k # 0 => k - 1 \in 0..m /\ k - 1 # m)
      BY <1>4, <1>7, <2>2
    <3>2. g[k] = IF k = 0 THEN 0 ELSE g[k - 1] + v[k]
      BY <1>6, <3>1
    <3>. QED
      BY <2>2, <3>1, <3>2
  <2>. QED
    BY <2>1, <2>2
<1>8. f = [k \in 0..m |-> IF k = 0 THEN 0 ELSE f[k - 1] + v[k]]
  BY <1>7
<1>. QED
  BY <1>3, <1>8

\* SumTo reads them.
LEMMA SumToReads ==
  ASSUME NEW n \in Nat, NEW v
  PROVE  \E f : SumTo(v, n) = f[n] /\ Sums(f, v, n)
<1>. DEFINE f == CHOOSE f : f = [k \in 0..n |-> IF k = 0 THEN 0 ELSE f[k - 1] + v[k]]
<1>1. SumTo(v, n) = f[n]
  BY DEF SumTo
<1>2. f = [k \in 0..n |-> IF k = 0 THEN 0 ELSE f[k - 1] + v[k]]
  BY SumsExist, Zenon
<1>. HIDE DEF f
<1>3. f[0] = 0 /\ \A k \in 1..n : k \in 0..n /\ k # 0
  BY <1>2
<1>4. \A k \in 1..n : f[k] = f[k - 1] + v[k]
  BY <1>2, <1>3
<1>. QED
  BY <1>1, <1>3, <1>4 DEF Sums

\* The smaller the numbers, the smaller their sums.
LEMMA SumsBelow ==
  ASSUME NEW n \in Nat, NEW v, NEW w, NEW f, NEW g, Sums(f, v, n), Sums(g, w, n),
         \A k \in 1..n : v[k] \in Nat /\ w[k] \in Nat /\ v[k] <= w[k]
  PROVE  \A k \in 0..n : f[k] \in Nat /\ g[k] \in Nat /\ f[k] <= g[k]
<1>. DEFINE Bad == {m \in 0..n : ~(f[m] \in Nat /\ g[m] \in Nat /\ f[m] <= g[m])}
<1>1. SUFFICES ASSUME Bad # {} PROVE FALSE
  OBVIOUS
<1>2. PICK m \in Bad : \A i \in Bad : m <= i
  <2>1. Bad \in SUBSET Nat
    OBVIOUS
  <2>. HIDE DEF Bad
  <2>. QED
    BY <1>1, <2>1, LeastNumber
<1>3. m \in 0..n /\ ~(f[m] \in Nat /\ g[m] \in Nat /\ f[m] <= g[m])
  OBVIOUS
<1>4. m # 0
  BY <1>3 DEF Sums
<1>5. m - 1 \in 0..n /\ ~(m <= m - 1) /\ m \in 1..n
  BY <1>3, <1>4
<1>6. f[m - 1] \in Nat /\ g[m - 1] \in Nat /\ f[m - 1] <= g[m - 1]
  <2>1. m - 1 \notin Bad
    <3>. HIDE DEF Bad
    <3>. QED
      BY <1>2, <1>5
  <2>. QED
    BY <1>5, <2>1
<1>7. f[m] = f[m - 1] + v[m] /\ g[m] = g[m - 1] + w[m]
  BY <1>5 DEF Sums
<1>8. v[m] \in Nat /\ w[m] \in Nat /\ v[m] <= w[m]
  BY <1>5
<1>. QED
  BY <1>3, <1>6, <1>7, <1>8

\* A sum is a number, and no greater than that of greater numbers.
LEMMA SumMonotone ==
  ASSUME NEW n \in Nat, NEW v, NEW w,
         \A k \in 1..n : v[k] \in Nat /\ w[k] \in Nat /\ v[k] <= w[k]
  PROVE  SumTo(v, n) \in Nat /\ SumTo(w, n) \in Nat /\ SumTo(v, n) <= SumTo(w, n)
<1>1. PICK f : SumTo(v, n) = f[n] /\ Sums(f, v, n)
  BY SumToReads
<1>2. PICK g : SumTo(w, n) = g[n] /\ Sums(g, w, n)
  BY SumToReads
<1>3. n \in 0..n
  OBVIOUS
<1>4. \A k \in 0..n : f[k] \in Nat /\ g[k] \in Nat /\ f[k] <= g[k]
  BY <1>1, <1>2, SumsBelow
<1>. QED
  BY <1>1, <1>2, <1>3, <1>4

\* The sum of nothing.
LEMMA SumNothing ==
  ASSUME NEW v
  PROVE  SumTo(v, 0) = 0
<1>1. PICK f : SumTo(v, 0) = f[0] /\ Sums(f, v, 0)
  BY SumToReads
<1>. QED
  BY <1>1 DEF Sums

\* The sum of one number more.
LEMMA SumNext ==
  ASSUME NEW n \in Nat, NEW v, \A k \in 1..(n + 1) : v[k] \in Nat
  PROVE  SumTo(v, n + 1) = SumTo(v, n) + v[n + 1]
<1>1. PICK f : SumTo(v, n) = f[n] /\ Sums(f, v, n)
  BY SumToReads
<1>2. PICK g : SumTo(v, n + 1) = g[n + 1] /\ Sums(g, v, n + 1)
  BY SumToReads
<1>3. \A k \in 1..n : k \in 1..(n + 1)
  OBVIOUS
<1>4. Sums(g, v, n)
  BY <1>2, <1>3 DEF Sums
<1>5. \A k \in 1..n : v[k] \in Nat /\ v[k] <= v[k]
  BY <1>3
<1>6. \A k \in 0..n : f[k] \in Nat /\ g[k] \in Nat /\ f[k] <= g[k]
  BY <1>1, <1>4, <1>5, SumsBelow
<1>7. \A k \in 0..n : g[k] <= f[k]
  BY <1>1, <1>4, <1>5, SumsBelow
<1>8. n \in 0..n /\ n + 1 \in 1..(n + 1) /\ (n + 1) - 1 = n
  OBVIOUS
<1>9. f[n] = g[n]
  <2>1. f[n] \in Nat /\ g[n] \in Nat /\ f[n] <= g[n] /\ g[n] <= f[n]
    BY <1>6, <1>7, <1>8
  <2>. QED
    BY <2>1
<1>10. g[n + 1] = g[n] + v[n + 1]
  BY <1>2, <1>8 DEF Sums
<1>. QED
  BY <1>1, <1>2, <1>9, <1>10

\* A sum is at least that of its first numbers.
LEMMA SumLonger ==
  ASSUME NEW n \in Nat, NEW m \in 0..n, NEW v, \A k \in 1..n : v[k] \in Nat
  PROVE  SumTo(v, m) <= SumTo(v, n)
<1>0. m \in Nat /\ m <= n
  OBVIOUS
<1>1. \A i \in 0..n : SumTo(v, i) \in Nat
  <2>. SUFFICES ASSUME NEW i \in 0..n PROVE SumTo(v, i) \in Nat
    OBVIOUS
  <2>1. i \in Nat /\ \A k \in 1..i : k \in 1..n
    OBVIOUS
  <2>2. \A k \in 1..i : v[k] \in Nat /\ v[k] <= v[k]
    BY <2>1
  <2>. QED
    BY <2>1, <2>2, SumMonotone
<1>. DEFINE Bad == {i \in m..n : ~(SumTo(v, m) <= SumTo(v, i))}
<1>2. SUFFICES ASSUME Bad # {} PROVE FALSE
  <2>1. n \in m..n
    BY <1>0
  <2>. QED
    BY <1>2, <2>1
<1>3. PICK i \in Bad : \A j \in Bad : i <= j
  <2>1. Bad \in SUBSET Nat
    BY <1>0
  <2>. HIDE DEF Bad
  <2>. QED
    BY <1>2, <2>1, LeastNumber
<1>4. i \in m..n /\ ~(SumTo(v, m) <= SumTo(v, i))
  OBVIOUS
<1>5. i # m
  BY <1>0, <1>1, <1>4
<1>6. i - 1 \in m..n /\ ~(i <= i - 1) /\ i - 1 \in Nat /\ (i - 1) + 1 = i /\ i \in 1..n
  BY <1>0, <1>4, <1>5
<1>7. SumTo(v, m) <= SumTo(v, i - 1)
  <2>1. i - 1 \notin Bad
    <3>. HIDE DEF Bad
    <3>. QED
      BY <1>3, <1>6
  <2>. QED
    BY <1>6, <2>1
<1>8. SumTo(v, i) = SumTo(v, i - 1) + v[i]
  <2>1. \A k \in 1..((i - 1) + 1) : v[k] \in Nat
    BY <1>6
  <2>2. SumTo(v, (i - 1) + 1) = SumTo(v, i - 1) + v[(i - 1) + 1]
    BY <1>6, <2>1, SumNext
  <2>. QED
    BY <1>6, <2>2
<1>9. m \in 0..n /\ i - 1 \in 0..n /\ v[i] \in Nat
  BY <1>0, <1>6
<1>10. SumTo(v, m) \in Nat /\ SumTo(v, i - 1) \in Nat
  BY <1>1, <1>9
<1>. QED
  BY <1>4, <1>7, <1>8, <1>9, <1>10

\* The messages given so far have sizes.
SizesKnown(g) == \A k \in DOMAIN g : g[k].size \in Nat

\* More messages were given, more calls threw.
Later(g, fl, h, gl) ==
  /\ DOMAIN g \subseteq DOMAIN h /\ \A k \in DOMAIN g : h[k] = g[k]
  /\ fl \subseteq gl

\* A prefix keeps the first elements.
LEMMA PrefixElements ==
  ASSUME NEW T, NEW s \in Seq(T), NEW r, Prefix(r, s)
  PROVE  /\ r \in Seq(T) /\ Len(r) \in 0..Len(s) /\ Len(r) \in Nat /\ Len(s) \in Nat
         /\ DOMAIN r = 1..Len(r) /\ DOMAIN s = 1..Len(s) /\ DOMAIN r \subseteq DOMAIN s
         /\ \A k \in DOMAIN r : r[k] = s[k]
<1>1. PICK n \in 0..Len(s) : r = SubSeq(s, 1, n)
  BY DEF Prefix
<1>2. Len(s) \in Nat /\ n \in Nat /\ n <= Len(s) /\ DOMAIN s = 1..Len(s)
  BY <1>1
<1>3. r \in Seq(T) /\ Len(r) = n /\ DOMAIN r = 1..n /\ \A k \in 1..n : r[k] = s[k]
  BY <1>1, <1>2
<1>. QED
  BY <1>2, <1>3

\* A sequence is a prefix of itself, and the empty one is of every sequence.
LEMMA PrefixEnds ==
  ASSUME NEW T, NEW s \in Seq(T)
  PROVE  Prefix(s, s) /\ Prefix(<<>>, s)
<1>1. Len(s) \in 0..Len(s) /\ 0 \in 0..Len(s)
  OBVIOUS
<1>2. SubSeq(s, 1, Len(s)) = s
  BY SubSeqFull
<1>3. SubSeq(s, 1, 0) = <<>>
  BY SubSeqEmpty
<1>. QED
  BY <1>1, <1>2, <1>3 DEF Prefix

\* The numbers that Sized adds.
LEMMA SizesAdded ==
  ASSUME NEW g, SizesKnown(g), NEW fl, NEW s \in Seq(DOMAIN g), NEW k \in 1..Len(s)
  PROVE  /\ k \in DOMAIN s /\ s[k] \in DOMAIN g /\ g[s[k]].size \in Nat
         /\ [i \in DOMAIN s |-> IF s[i] \in fl THEN 0 ELSE g[s[i]].size][k] \in Nat
<1>1. k \in DOMAIN s /\ s[k] \in DOMAIN g
  OBVIOUS
<1>2. g[s[k]].size \in Nat
  BY <1>1 DEF SizesKnown
<1>. QED
  BY <1>1, <1>2

\* Less of a file, of which more calls threw, is no larger; the size of the
\* failed calls is part of that of the file.
LEMMA SizedLater ==
  ASSUME NEW g, NEW fl, NEW h, NEW gl, SizesKnown(g), Later(g, fl, h, gl),
         NEW s \in Seq(DOMAIN g), NEW r, Prefix(r, s)
  PROVE  /\ Sized(r, h, gl) \in Nat /\ Sized(s, g, fl) \in Nat
         /\ Sized(r, h, gl) <= Sized(s, g, fl)
<1>. DEFINE v == [k \in DOMAIN s |-> IF s[k] \in fl THEN 0 ELSE g[s[k]].size]
            w == [k \in DOMAIN r |-> IF r[k] \in gl THEN 0 ELSE h[r[k]].size]
<1>1. /\ r \in Seq(DOMAIN g) /\ Len(r) \in 0..Len(s) /\ Len(r) \in Nat /\ Len(s) \in Nat
      /\ DOMAIN r = 1..Len(r) /\ DOMAIN s = 1..Len(s) /\ DOMAIN r \subseteq DOMAIN s
      /\ \A k \in DOMAIN r : r[k] = s[k]
  BY PrefixElements
<1>2. \A k \in 1..Len(s) : v[k] \in Nat
  BY SizesAdded
<1>3. ASSUME NEW k \in 1..Len(r)
      PROVE  w[k] \in Nat /\ v[k] \in Nat /\ w[k] <= v[k]
  <2>1. k \in DOMAIN r /\ k \in DOMAIN s /\ k \in 1..Len(s) /\ r[k] = s[k]
    BY <1>1
  <2>2. s[k] \in DOMAIN g /\ g[s[k]].size \in Nat
    BY <2>1, SizesAdded
  <2>3. h[r[k]] = g[s[k]] /\ (s[k] \in fl => r[k] \in gl)
    BY <2>1, <2>2 DEF Later
  <2>4. w[k] = IF r[k] \in gl THEN 0 ELSE g[s[k]].size
    BY <2>1, <2>3
  <2>5. v[k] = IF s[k] \in fl THEN 0 ELSE g[s[k]].size
    BY <2>1
  <2>. QED
    BY <2>2, <2>3, <2>4, <2>5
<1>4. Sized(s, g, fl) = SumTo(v, Len(s)) /\ Sized(r, h, gl) = SumTo(w, Len(r))
  BY DEF Sized
<1>. HIDE DEF v, w
<1>5. SumTo(w, Len(r)) \in Nat /\ SumTo(v, Len(r)) \in Nat /\ SumTo(w, Len(r)) <= SumTo(v, Len(r))
  BY <1>1, <1>3, SumMonotone
<1>6. \A k \in 1..Len(s) : v[k] <= v[k]
  BY <1>2
<1>7. SumTo(v, Len(s)) \in Nat
  BY <1>1, <1>2, <1>6, SumMonotone
<1>8. SumTo(v, Len(r)) <= SumTo(v, Len(s))
  BY <1>1, <1>2, SumLonger
<1>. QED
  BY <1>4, <1>5, <1>7, <1>8

\* What fits still fits then.
LEMMA FitsLater ==
  ASSUME NEW g, NEW fl, NEW h, NEW gl, SizesKnown(g), Later(g, fl, h, gl),
         NEW s, Fits(s, g, fl), NEW r, Prefix(r, s)
  PROVE  Fits(r, h, gl)
<1>1. s \in Seq(DOMAIN g)
  BY DEF Fits
<1>2. /\ r \in Seq(DOMAIN g) /\ DOMAIN r \subseteq DOMAIN s /\ \A k \in DOMAIN r : r[k] = s[k]
  BY <1>1, PrefixElements
<1>3. r \in Seq(DOMAIN h)
  <2>1. DOMAIN g \subseteq DOMAIN h
    BY DEF Later
  <2>. QED
    BY <1>2, <2>1
<1>4. CASE Lone(s, fl)
  <2>1. Lone(r, gl)
    BY <1>2, <1>4 DEF Lone, Later
  <2>. QED
    BY <1>3, <2>1 DEF Fits
<1>5. CASE Sized(s, g, fl) <= MaxSize
  <2>1. Sized(r, h, gl) \in Nat /\ Sized(s, g, fl) \in Nat /\ Sized(r, h, gl) <= Sized(s, g, fl)
    BY <1>1, SizedLater
  <2>2. MaxSize \in Nat
    BY RotatingAssumption
  <2>3. Sized(r, h, gl) <= MaxSize
    BY <1>5, <2>1, <2>2
  <2>. QED
    BY <1>3, <2>3 DEF Fits
<1>. QED
  BY <1>4, <1>5 DEF Fits

\* A file with one message more.
LEMMA SizedAppend ==
  ASSUME NEW g, NEW fl, SizesKnown(g), NEW s \in Seq(DOMAIN g), NEW n \in DOMAIN g
  PROVE  /\ Append(s, n) \in Seq(DOMAIN g)
         /\ Sized(Append(s, n), g, fl)
              = Sized(s, g, fl) + (IF n \in fl THEN 0 ELSE g[n].size)
         /\ Sized(s, g, fl) \in Nat /\ g[n].size \in Nat
<1>. DEFINE r == Append(s, n)
            v == [k \in DOMAIN s |-> IF s[k] \in fl THEN 0 ELSE g[s[k]].size]
            w == [k \in DOMAIN r |-> IF r[k] \in fl THEN 0 ELSE g[r[k]].size]
            size == IF n \in fl THEN 0 ELSE g[n].size
<1>1. /\ r \in Seq(DOMAIN g) /\ Len(s) \in Nat /\ Len(r) = Len(s) + 1
      /\ DOMAIN s = 1..Len(s) /\ DOMAIN r = 1..(Len(s) + 1)
      /\ r[Len(s) + 1] = n /\ \A k \in 1..Len(s) : r[k] = s[k]
  OBVIOUS
<1>. HIDE DEF r
<1>2. \A k \in 1..Len(s) : k \in DOMAIN s /\ k \in DOMAIN r
  BY <1>1
<1>3. \A k \in 1..Len(s) : v[k] \in Nat
  BY SizesAdded
<1>4. \A k \in 1..(Len(s) + 1) : w[k] \in Nat
  BY <1>1, SizesAdded
<1>5. \A k \in 1..Len(s) : v[k] = w[k]
  BY <1>1, <1>2
<1>6. w[Len(s) + 1] = size
  <2>1. Len(s) + 1 \in DOMAIN r
    BY <1>1
  <2>. QED
    BY <1>1, <2>1
<1>7. Sized(s, g, fl) = SumTo(v, Len(s)) /\ Sized(r, g, fl) = SumTo(w, Len(s) + 1)
  BY <1>1 DEF Sized
<1>8. g[n].size \in Nat
  BY DEF SizesKnown
<1>. HIDE DEF v, w, size
<1>9. SumTo(w, Len(s) + 1) = SumTo(w, Len(s)) + w[Len(s) + 1]
  BY <1>1, <1>4, SumNext
<1>10. \A k \in 1..Len(s) : v[k] <= w[k] /\ w[k] <= v[k] /\ w[k] \in Nat
  BY <1>3, <1>5
<1>11. SumTo(v, Len(s)) \in Nat /\ SumTo(w, Len(s)) \in Nat /\ SumTo(v, Len(s)) <= SumTo(w, Len(s))
  BY <1>1, <1>3, <1>10, SumMonotone
<1>12. SumTo(w, Len(s)) <= SumTo(v, Len(s))
  BY <1>1, <1>3, <1>10, SumMonotone
<1>13. SumTo(w, Len(s)) = SumTo(v, Len(s))
  BY <1>11, <1>12
<1>14. Sized(r, g, fl) = Sized(s, g, fl) + size
  BY <1>6, <1>7, <1>9, <1>13
<1>. QED
  BY <1>1, <1>7, <1>8, <1>11, <1>14 DEF r, size

\* A file without messages.
LEMMA SizedNothing ==
  ASSUME NEW g, NEW fl
  PROVE  Sized(<<>>, g, fl) = 0 /\ Fits(<<>>, g, fl)
<1>1. Len(<<>>) = 0 /\ DOMAIN <<>> = {} /\ <<>> \in Seq(DOMAIN g)
  OBVIOUS
<1>. QED
  BY <1>1, SumNothing DEF Sized, Fits, Lone

\* The first elements of a sequence that is appended to another.
LEMMA PrefixConcatenation ==
  ASSUME NEW T, NEW s \in Seq(T), NEW t \in Seq(T), NEW n \in 0..Len(t)
  PROVE  /\ Prefix(s \o SubSeq(t, 1, n), s \o t)
         /\ (s \o SubSeq(t, 1, n)) \o SubSeq(t, n + 1, Len(t)) = s \o t
<1>. DEFINE p == SubSeq(t, 1, n)
            q == SubSeq(t, n + 1, Len(t))
<1>1. Len(s) \in Nat /\ Len(t) \in Nat /\ n \in Nat /\ n <= Len(t)
  OBVIOUS
<1>2. p \in Seq(T) /\ Len(p) = n /\ \A k \in 1..n : p[k] = t[k]
  OBVIOUS
<1>3. q \in Seq(T) /\ Len(q) = Len(t) - n /\ \A k \in 1..(Len(t) - n) : q[k] = t[n + k]
  BY <1>1
<1>. HIDE DEF p, q
<1>4. /\ s \o p \in Seq(T) /\ Len(s \o p) = Len(s) + n
      /\ \A i \in 1..(Len(s) + n) : (s \o p)[i] = IF i <= Len(s) THEN s[i] ELSE p[i - Len(s)]
  BY <1>2, ConcatProperties
<1>5. /\ s \o t \in Seq(T) /\ Len(s \o t) = Len(s) + Len(t)
      /\ \A i \in 1..(Len(s) + Len(t)) :
           (s \o t)[i] = IF i <= Len(s) THEN s[i] ELSE t[i - Len(s)]
  BY ConcatProperties
<1>6. ASSUME NEW i \in 1..(Len(s) + n) PROVE (s \o p)[i] = (s \o t)[i]
  <2>1. i \in 1..(Len(s) + Len(t)) /\ (~(i <= Len(s)) => i - Len(s) \in 1..n)
    BY <1>1
  <2>. QED
    BY <1>2, <1>4, <1>5, <2>1
<1>7. Prefix(s \o p, s \o t)
  <2>1. Len(s) + n \in 0..Len(s \o t)
    BY <1>1, <1>5
  <2>2. /\ SubSeq(s \o t, 1, Len(s) + n) \in Seq(T)
        /\ Len(SubSeq(s \o t, 1, Len(s) + n)) = Len(s) + n
        /\ \A i \in 1..(Len(s) + n) : SubSeq(s \o t, 1, Len(s) + n)[i] = (s \o t)[i]
    BY <1>5, <2>1
  <2>3. s \o p = SubSeq(s \o t, 1, Len(s) + n)
    BY <1>4, <1>6, <2>2, SeqEqual
  <2>. QED
    BY <2>1, <2>3 DEF Prefix
<1>8. (s \o p) \o q = s \o t
  <2>1. /\ (s \o p) \o q \in Seq(T) /\ Len((s \o p) \o q) = Len(s) + Len(t)
        /\ \A i \in 1..(Len(s) + Len(t)) :
             ((s \o p) \o q)[i] = IF i <= Len(s) + n THEN (s \o p)[i] ELSE q[i - (Len(s) + n)]
    <3>. DEFINE u == s \o p
    <3>1. u \in Seq(T) /\ Len(u) + Len(q) = Len(s) + Len(t)
      BY <1>1, <1>3, <1>4
    <3>. HIDE DEF u
    <3>2. /\ u \o q \in Seq(T) /\ Len(u \o q) = Len(u) + Len(q)
          /\ \A i \in 1..(Len(u) + Len(q)) :
               (u \o q)[i] = IF i <= Len(u) THEN u[i] ELSE q[i - Len(u)]
      BY <1>3, <3>1, ConcatProperties
    <3>3. Len(u) = Len(s) + n
      BY <1>4 DEF u
    <3>4. /\ u \o q \in Seq(T) /\ Len(u \o q) = Len(s) + Len(t)
          /\ \A i \in 1..(Len(s) + Len(t)) :
               (u \o q)[i] = IF i <= Len(s) + n THEN u[i] ELSE q[i - (Len(s) + n)]
      BY <3>1, <3>2, <3>3
    <3>. QED
      BY <3>4 DEF u
  <2>2. ASSUME NEW i \in 1..(Len(s) + Len(t)) PROVE ((s \o p) \o q)[i] = (s \o t)[i]
    <3>1. CASE i <= Len(s) + n
      <4>1. i \in 1..(Len(s) + n)
        BY <1>1, <3>1
      <4>. QED
        BY <1>6, <2>1, <3>1, <4>1
    <3>2. CASE ~(i <= Len(s) + n)
      <4>1. /\ i - (Len(s) + n) \in 1..(Len(t) - n) /\ ~(i <= Len(s))
            /\ n + (i - (Len(s) + n)) = i - Len(s)
        BY <1>1, <3>2
      <4>2. q[i - (Len(s) + n)] = t[i - Len(s)]
        BY <1>3, <4>1
      <4>. QED
        BY <1>5, <2>1, <3>2, <4>1, <4>2
    <3>. QED
      BY <3>1, <3>2
  <2>. QED
    BY <1>5, <2>1, <2>2, SeqEqual
<1>. QED
  BY <1>7, <1>8 DEF p, q

\* The files of a rotating sink.
LEMMA RotatingFiles ==
  ASSUME FilesOK
  PROVE  /\ 0 \in 0..MaxFiles /\ MaxFiles \in Nat /\ 0..MaxFiles \subseteq Names
         /\ \A a \in 0..MaxFiles : Content(a) \in Seq(Nat)
         /\ buffer \in Seq(Nat) /\ Load \in Seq(Nat)
<1>1. MaxFiles \in Nat /\ 0..MaxFiles \subseteq Names
  BY RotatingAssumption
<1>2. 0 \in 0..MaxFiles
  BY <1>1
<1>3. \A a \in 0..MaxFiles : Content(a) \in Seq(Nat)
  BY <1>1, ContentType DEF FilesOK
<1>4. buffer \in Seq(Nat) /\ Content(0) \in Seq(Nat)
  BY <1>2, <1>3 DEF FilesOK
<1>5. Load \in Seq(Nat)
  BY <1>4, ConcatProperties DEF Load
<1>. QED
  BY <1>1, <1>2, <1>3, <1>4, <1>5

\* A step after which every file holds at most what one held before, or what
\* was on its way to it.
Shrinks ==
  /\ \A a \in 0..MaxFiles :
       (\E b \in 0..MaxFiles : Prefix(Content(a)', Content(b))) \/ Prefix(Content(a)', Load)
  /\ Prefix(Load', Load)

\* The files fit after such a step.
LEMMA FitsShrink ==
  ASSUME FilesFit, SizesKnown(given), Later(given, failed, given', failed'), Shrinks
  PROVE  /\ FilesFit'
         /\ Sized(Load', given', failed') \in Nat /\ Sized(Load, given, failed) \in Nat
         /\ Sized(Load', given', failed') <= Sized(Load, given, failed)
<1>1. ASSUME NEW a \in 0..MaxFiles PROVE Fits(Content(a)', given', failed')
  <2>1. CASE \E b \in 0..MaxFiles : Prefix(Content(a)', Content(b))
    BY <2>1, FitsLater DEF FilesFit
  <2>2. CASE Prefix(Content(a)', Load)
    BY <2>2, FitsLater DEF FilesFit
  <2>. QED
    BY <2>1, <2>2 DEF Shrinks
<1>2. Prefix(Load', Load) /\ Fits(Load, given, failed)
  BY DEF Shrinks, FilesFit
<1>3. Fits(Load', given', failed')
  BY <1>2, FitsLater
<1>4. Load \in Seq(DOMAIN given)
  BY <1>2 DEF Fits
<1>5. /\ Sized(Load', given', failed') \in Nat /\ Sized(Load, given, failed) \in Nat
      /\ Sized(Load', given', failed') <= Sized(Load, given, failed)
  BY <1>2, <1>4, SizedLater
<1>6. FilesFit'
  BY <1>1, <1>3 DEF FilesFit
<1>. QED
  BY <1>5, <1>6

\* Part of the buffer reaches the file, the rest stays or is lost.
LEMMA WrittenShrinks ==
  ASSUME FilesOK, fd \in {0, NoName}, NEW n \in 0..Len(buffer), disk' = Written(n),
         buffer' \in {<<>>, SubSeq(buffer, n + 1, Len(buffer))}
  PROVE  Shrinks
<1>1. /\ 0 \in 0..MaxFiles /\ MaxFiles \in Nat /\ 0..MaxFiles \subseteq Names
      /\ \A a \in 0..MaxFiles : Content(a) \in Seq(Nat)
      /\ buffer \in Seq(Nat) /\ Load \in Seq(Nat)
  BY RotatingFiles
<1>2. CASE fd = NoName
  <2>1. buffer = <<>> /\ disk' = disk /\ n = 0
    BY <1>2 DEF FilesOK, Written
  <2>2. buffer' = <<>>
    BY <2>1
  <2>3. \A a \in 0..MaxFiles : Content(a)' = Content(a)
    BY <2>1 DEF Content, Exists
  <2>4. Load' = Load
    BY <1>1, <2>1, <2>2, <2>3 DEF Load
  <2>5. \A a \in 0..MaxFiles : Prefix(Content(a)', Content(a))
    BY <1>1, <2>3, PrefixEnds
  <2>6. Prefix(Load', Load)
    BY <1>1, <2>4, PrefixEnds
  <2>. QED
    BY <2>5, <2>6 DEF Shrinks
<1>3. CASE fd # NoName
  <2>. DEFINE part == SubSeq(buffer, 1, n)
  <2>1. fd = 0 /\ Exists(0) /\ Content(0) = disk[0]
    BY <1>3 DEF FilesOK, Content, Exists
  <2>2. part \in Seq(Nat)
    BY <1>1
  <2>3. disk' = [disk EXCEPT ![0] = disk[0] \o part]
    BY <1>3, <2>1 DEF Written
  <2>. HIDE DEF part
  <2>4. disk'[0] = disk[0] \o part /\ \A a \in 0..MaxFiles : a # 0 => disk'[a] = disk[a]
    BY <1>1, <2>3 DEF FilesOK
  <2>5. disk[0] \o part \in Seq(Nat)
    BY <1>1, <2>1, <2>2, ConcatProperties
  <2>6. disk[0] \o part # NoFile
    BY <2>5, FileAssumption
  <2>7. Content(0)' = Content(0) \o part
    BY <2>1, <2>4, <2>6 DEF Content, Exists
  <2>8. \A a \in 0..MaxFiles : a # 0 => Content(a)' = Content(a)
    BY <2>4 DEF Content, Exists
  <2>9. /\ Prefix(Content(0) \o part, Load)
        /\ (Content(0) \o part) \o SubSeq(buffer, n + 1, Len(buffer)) = Load
    BY <1>1, PrefixConcatenation DEF part, Load
  <2>10. ASSUME NEW a \in 0..MaxFiles
         PROVE  (\E b \in 0..MaxFiles : Prefix(Content(a)', Content(b))) \/ Prefix(Content(a)', Load)
    <3>1. CASE a = 0
      BY <2>7, <2>9, <3>1
    <3>2. CASE a # 0
      <4>1. Prefix(Content(a)', Content(a))
        BY <1>1, <2>8, <3>2, PrefixEnds
      <4>. QED
        BY <4>1
    <3>. QED
      BY <3>1, <3>2
  <2>11. Prefix(Load', Load)
    <3>1. CASE buffer' = <<>>
      <4>1. Load' = Content(0) \o part
        BY <2>1, <2>5, <2>7, <3>1, ConcatEmptySeq DEF Load
      <4>. QED
        BY <2>9, <4>1
    <3>2. CASE buffer' = SubSeq(buffer, n + 1, Len(buffer))
      <4>1. Load' = Load
        BY <2>7, <2>9, <3>2 DEF Load
      <4>. QED
        BY <1>1, <4>1, PrefixEnds
    <3>. QED
      BY <3>1, <3>2
  <2>. QED
    BY <2>10, <2>11 DEF Shrinks
<1>. QED
  BY <1>2, <1>3

\* The flush, the close and the death of the process.
LEMMA FlushShrinks ==
  ASSUME FilesOK, fd \in {0, NoName}, FlushFile \/ FlushFails \/ CloseFile \/ Die
  PROVE  Shrinks
<1>1. buffer \in Seq(Nat)
  BY DEF FilesOK
<1>2. Len(buffer) \in 0..Len(buffer)
  BY <1>1
<1>3. \E n \in 0..Len(buffer) :
        disk' = Written(n) /\ buffer' \in {<<>>, SubSeq(buffer, n + 1, Len(buffer))}
  BY <1>2 DEF FlushFile, FlushFails, CloseFile, Die
<1>. QED
  BY <1>3, WrittenShrinks

\* What leaves every file as it was or empty, and the buffer.
LEMMA RemovalShrinks ==
  ASSUME FilesOK, buffer' = buffer, fd = NoName \/ Content(0)' = Content(0),
         \A a \in 0..MaxFiles : Content(a)' \in {Content(a), <<>>}
  PROVE  Shrinks /\ (fd = NoName /\ Content(0)' = <<>> => Load' = <<>>)
<1>1. /\ 0 \in 0..MaxFiles
      /\ \A a \in 0..MaxFiles : Content(a) \in Seq(Nat)
      /\ buffer \in Seq(Nat) /\ Load \in Seq(Nat)
  BY RotatingFiles
<1>2. \A a \in 0..MaxFiles : Prefix(Content(a)', Content(a))
  BY <1>1, PrefixEnds
<1>3. fd = NoName => buffer = <<>>
  BY DEF FilesOK
<1>4. <<>> \in Seq(Nat)
  OBVIOUS
<1>5. fd = NoName /\ Content(0)' = <<>> => Load' = <<>>
  BY <1>3, <1>4, ConcatEmptySeq DEF Load
<1>6. Content(0)' = Content(0) => Load' = Load
  BY DEF Load
<1>7. Prefix(Load', Load)
  BY <1>1, <1>5, <1>6, PrefixEnds
<1>. QED
  BY <1>2, <1>5, <1>7 DEF Shrinks

\* The messages given have sizes, and that of the call is one of them.
LEMMA GivenSized ==
  ASSUME IInv
  PROVE  /\ SizesKnown(given) /\ Len(given) \in Nat /\ DOMAIN given = 1..Len(given)
         /\ msg # 0 => msg \in DOMAIN given /\ given[msg].size \in Nat
<1>1. given \in Seq(Stamped)
  BY DEF IInv, ClientsOK
<1>2. Len(given) \in Nat /\ DOMAIN given = 1..Len(given) /\ \A k \in DOMAIN given : given[k] \in Stamped
  BY <1>1
<1>3. SizesKnown(given)
  BY <1>2 DEF SizesKnown, Stamped
<1>4. msg \in 0..Len(given)
  BY DEF IInv, OrderInv, SinkOK
<1>5. msg # 0 => msg \in DOMAIN given
  BY <1>2, <1>4
<1>. QED
  BY <1>2, <1>3, <1>5 DEF SizesKnown

\* The files after a step of the sink that writes no message.
LEMMA FitsStep ==
  ASSUME IInv, FilesFit, Shrinks, given' = given, failed \subseteq failed'
  PROVE  /\ FilesFit'
         /\ Sized(Load', given', failed') \in Nat /\ Sized(Load, given, failed) \in Nat
         /\ Sized(Load', given', failed') <= Sized(Load, given, failed)
<1>1. SizesKnown(given)
  BY GivenSized
<1>2. Later(given, failed, given', failed')
  BY DEF Later
<1>. QED
  BY <1>1, <1>2, FitsShrink

\* A sink that opens its file counts what is in it.
LEMMA ROpenSizes ==
  ASSUME IInv, sink = "rotating", FilesFit, Counted, ROpen \/ ROpenFails
  PROVE  FilesFit' /\ Counted'
<1>1. /\ step = "down" /\ UNCHANGED <<given, failed, buffer, newSize>>
      /\ step' \in {"down", "rotate", "idle"}
  BY DEF ROpen, ROpenFails, Goto, OpenFile, OpenFails, callFrame, rotatingVars
<1>2. FilesOK /\ fd = NoName /\ buffer = <<>>
  BY <1>1 DEF IInv, OrderInv, FInv, SinkOK, FilesOK
<1>3. /\ 0 \in 0..MaxFiles /\ 0..MaxFiles \subseteq Names
      /\ Content(0) \in Seq(Nat)
  BY <1>2, RotatingFiles
<1>4. \A a \in 0..MaxFiles : Content(a)' \in {Content(a), <<>>}
  <2>1. CASE ROpen
    <3>1. disk' = Opened(0, FALSE)
      BY <2>1 DEF ROpen, OpenFile
    <3>2. \A a \in Names : Content(a)' \in {Content(a), <<>>}
      BY <1>2, <1>3, <3>1, OpenedContents
    <3>. QED
      BY <1>3, <3>2
  <2>2. CASE ROpenFails
    <3>1. disk' = disk
      BY <2>2 DEF ROpenFails, OpenFails
    <3>. QED
      BY <3>1 DEF Content, Exists
  <2>. QED
    BY <2>1, <2>2
<1>5. Shrinks
  BY <1>1, <1>2, <1>4, RemovalShrinks
<1>6. FilesFit'
  BY <1>1, <1>5, FitsStep
<1>7. CASE ROpenFails
  <2>1. step' = "down" /\ currentSize' = currentSize
    BY <1>1, <1>7 DEF ROpenFails, callFrame, rotatingVars
  <2>. QED
    BY <1>1, <1>6, <2>1 DEF Counted
<1>8. CASE ROpen
  <2>1. currentSize' = Sized(Content(0), given, {}) /\ step' \in {"rotate", "idle"}
    BY <1>8 DEF ROpen, SizeOf, Sized, Goto
  <2>2. Load = Content(0) /\ Load \in Seq(DOMAIN given)
    BY <1>2, <1>3, ConcatEmptySeq DEF Load, FilesFit, Fits
  <2>3. SizesKnown(given) /\ Later(given, {}, given, failed) /\ Prefix(Load', Load)
    BY <1>5, GivenSized DEF Later, Shrinks
  <2>4. /\ Sized(Load', given, failed) \in Nat /\ Sized(Load, given, {}) \in Nat
        /\ Sized(Load', given, failed) <= Sized(Load, given, {})
    BY <2>2, <2>3, SizedLater
  <2>5. Sized(Load', given', failed') <= currentSize' /\ currentSize' \in Nat
    BY <1>1, <2>1, <2>2, <2>4
  <2>. QED
    BY <1>1, <1>6, <2>1, <2>5 DEF Counted
<1>. QED
  BY <1>7, <1>8

\* The flush before a rotation: only an empty file is written to after it.
LEMMA RFlushSizes ==
  ASSUME IInv, sink = "rotating", FilesFit, Counted, RFlush \/ RFlushFails \/ RClose
  PROVE  FilesFit' /\ Counted'
<1>1. /\ given' = given /\ failed \subseteq failed' /\ UNCHANGED <<currentSize, newSize>>
      /\ step \in {"flush", "rotate"} /\ step' \in {"idle", "write", "rotate", "rename"}
      /\ FlushFile \/ FlushFails \/ CloseFile
  BY DEF RFlush, RFlushFails, RClose, Goto, Throw, rotatingVars
<1>2. FilesOK /\ fd \in {0, NoName}
  BY DEF IInv, OrderInv, FInv, RotatingOK
<1>3. Shrinks
  BY <1>1, <1>2, FlushShrinks
<1>4. /\ FilesFit'
      /\ Sized(Load', given', failed') \in Nat /\ Sized(Load, given, failed) \in Nat
      /\ Sized(Load', given', failed') <= Sized(Load, given, failed)
  BY <1>1, <1>3, FitsStep
<1>5. currentSize' \in Nat /\ newSize' \in Nat
  BY <1>1 DEF Counted
<1>6. CASE step' = "idle"
  <2>1. step = "flush" /\ fd' = fd
    BY <1>6 DEF RFlush, RFlushFails, RClose, Goto, FlushFile, FlushFails
  <2>2. fd # NoName => Sized(Load', given', failed') <= currentSize'
    BY <1>1, <1>4, <2>1 DEF Counted
  <2>. QED
    BY <1>4, <1>5, <1>6, <2>1, <2>2 DEF Counted
<1>7. CASE step' = "write"
  <2>1. /\ step = "flush" /\ fd' = fd /\ fd # NoName /\ msg' = msg
        /\ disk'[fd] = <<>> /\ buffer' = <<>>
    BY <1>7 DEF RFlush, RFlushFails, RClose, Goto, Throw, FlushFile
  <2>2. Load' = <<>>
    <3>1. Content(0)' = <<>>
      BY <1>2, <2>1 DEF Content, Exists
    <3>2. <<>> \o <<>> = <<>>
      <4>1. <<>> \in Seq(Nat)
        OBVIOUS
      <4>. QED
        BY <4>1, ConcatEmptySeq
    <3>. QED
      BY <2>1, <3>1, <3>2 DEF Load
  <2>3. Sized(Load', given', failed') = 0
    BY <2>2, SizedNothing
  <2>4. msg # 0 /\ given'[msg'] = given[msg] /\ given[msg].size \in Nat /\ given[msg].size <= newSize'
    <3>1. msg # 0
      BY <2>1 DEF IInv, OrderInv, SinkOK
    <3>. QED
      BY <1>1, <2>1, <3>1, GivenSized DEF Counted
  <2>. QED
    BY <1>4, <1>5, <1>7, <2>2, <2>3, <2>4 DEF Counted
<1>8. CASE step' \in {"rotate", "rename"}
  BY <1>4, <1>5, <1>8 DEF Counted
<1>. QED
  BY <1>1, <1>6, <1>7, <1>8

\* The renames: a file holds what another held, or nothing.
LEMMA RenameSizes ==
  ASSUME IInv, sink = "rotating", FilesFit, Counted, Rename \/ RenameFails
  PROVE  FilesFit' /\ Counted'
<1>1. /\ step = "rename" /\ UNCHANGED <<fd, buffer, given, failed, currentSize, newSize>>
      /\ step' \in {"rename", "rename_failed"} /\ index > 0
  BY DEF Rename, RenameFails, Goto, callFrame, rotatingVars
<1>2. FilesOK /\ fd = NoName /\ buffer = <<>> /\ index \in 1..MaxFiles
  BY <1>1, RotatingAssumption DEF IInv, OrderInv, FInv, SinkOK, RotatingOK, FilesOK
<1>3. /\ 0 \in 0..MaxFiles /\ MaxFiles \in Nat /\ 0..MaxFiles \subseteq Names
      /\ \A a \in 0..MaxFiles : Content(a) \in Seq(Nat)
  BY <1>2, RotatingFiles
<1>4. Shrinks
  <2>1. CASE RenameFails \/ ~Exists(index - 1)
    <3>1. index \in Names
      BY <1>2, <1>3
    <3>2. disk' \in {disk, [disk EXCEPT ![index] = NoFile]}
      BY <2>1 DEF Rename, RenameFails
    <3>3. \A a \in 0..MaxFiles : disk'[a] = disk[a] \/ disk'[a] = NoFile
      BY <1>2, <1>3, <3>1, <3>2 DEF FilesOK
    <3>4. \A a \in 0..MaxFiles : Content(a)' \in {Content(a), <<>>}
      BY <3>3 DEF Content, Exists
    <3>. QED
      BY <1>1, <1>2, <3>4, RemovalShrinks
  <2>2. CASE Rename /\ Exists(index - 1)
    <3>1. disk' = [disk EXCEPT ![index] = disk[index - 1], ![index - 1] = NoFile]
      BY <2>2 DEF Rename
    <3>2. index \in 0..MaxFiles /\ index - 1 \in 0..MaxFiles /\ index # index - 1 /\ index # 0
      BY <1>2, <1>3
    <3>3. /\ disk'[index] = disk[index - 1] /\ disk'[index - 1] = NoFile
          /\ \A a \in 0..MaxFiles : a # index /\ a # index - 1 => disk'[a] = disk[a]
      BY <1>2, <1>3, <3>1, <3>2 DEF FilesOK
    <3>4. ASSUME NEW a \in 0..MaxFiles
          PROVE  Content(a)' \in {Content(a), <<>>} \/ (a = index /\ Content(a)' = Content(index - 1))
      BY <3>3 DEF Content, Exists
    <3>5. ASSUME NEW a \in 0..MaxFiles
          PROVE  \E b \in 0..MaxFiles : Prefix(Content(a)', Content(b))
      BY <1>3, <3>2, <3>4, PrefixEnds
    <3>6. Content(0)' \in {Content(0), <<>>}
      BY <1>3, <3>2, <3>4
    <3>7. Prefix(Load', Load)
      <4>1. <<>> \in Seq(Nat) /\ Content(0) \in Seq(Nat)
        BY <1>3
      <4>2. Load = Content(0)
        BY <1>2, <4>1, ConcatEmptySeq DEF Load
      <4>3. Load' = Content(0)'
        BY <1>1, <1>2, <3>6, <4>1, ConcatEmptySeq DEF Load
      <4>. QED
        BY <3>6, <4>1, <4>2, <4>3, PrefixEnds
    <3>. QED
      BY <3>5, <3>7 DEF Shrinks
  <2>. QED
    BY <2>1, <2>2
<1>5. FilesFit'
  BY <1>1, <1>4, FitsStep
<1>. QED
  BY <1>1, <1>5 DEF Counted

\* The open that ends a rotation leaves an empty file, or none.
LEMMA ReopenSizes ==
  ASSUME IInv, sink = "rotating", FilesFit, Counted,
         Reopen \/ ReopenFails \/ Abandon \/ AbandonFails
  PROVE  FilesFit' /\ Counted'
<1>1. /\ step \in {"rename", "rename_failed"} /\ step' \in {"idle", "write", "down"}
      /\ UNCHANGED <<given, msg, buffer>> /\ failed \subseteq failed'
      /\ OpenFile(0, TRUE) \/ (disk' \in {disk, Opened(0, TRUE)} /\ fd' = fd)
  BY DEF Reopen, ReopenFails, Abandon, AbandonFails, OpenFile, OpenFails, Goto, Throw,
         RThrow, rotatingVars
<1>2. FilesOK /\ fd = NoName
  BY <1>1 DEF IInv, OrderInv, FInv, SinkOK
<1>3. 0 \in Names /\ 0 \in 0..MaxFiles /\ 0..MaxFiles \subseteq Names
  BY <1>2, RotatingFiles
<1>4. /\ \A a \in 0..MaxFiles : Content(a)' \in {Content(a), <<>>}
      /\ fd' # NoName => Content(0)' = <<>>
  <2>1. CASE disk' = disk /\ fd' = fd
    BY <1>2, <2>1 DEF Content, Exists
  <2>2. CASE disk' = Opened(0, TRUE)
    <3>1. \A a \in Names : Content(a)' \in {Content(a), <<>>}
      BY <1>2, <1>3, <2>2, OpenedContents
    <3>2. disk'[0] = <<>>
      BY <1>2, <1>3, <2>2 DEF Opened, FilesOK
    <3>3. Content(0)' = <<>>
      BY <3>2 DEF Content, Exists
    <3>. QED
      BY <1>3, <3>1, <3>3
  <2>. QED
    BY <1>1, <2>1, <2>2 DEF OpenFile
<1>5. Shrinks /\ (fd' # NoName => Load' = <<>>)
  BY <1>1, <1>2, <1>4, RemovalShrinks
<1>6. FilesFit'
  BY <1>1, <1>5, FitsStep
<1>7. fd' # NoName => Load' = <<>> /\ Sized(Load', given', failed') = 0
  BY <1>5, SizedNothing
<1>8. currentSize' \in Nat
  <2>1. currentSize' \in {0, currentSize}
    BY DEF Reopen, ReopenFails, Abandon, AbandonFails, rotatingVars
  <2>. QED
    BY <2>1 DEF Counted
<1>9. msg # 0 => given[msg].size \in Nat
  BY GivenSized
<1>10. newSize' \in Nat
  BY <1>9 DEF Reopen, ReopenFails, Abandon, AbandonFails, rotatingVars, Counted
<1>11. step' = "write" => newSize' = given'[msg'].size /\ msg # 0
  BY <1>1 DEF Reopen, ReopenFails, Abandon, AbandonFails, Goto, Throw, RThrow
<1>12. fd' # NoName /\ step' = "write" =>
         Sized(Load', given', failed') + given'[msg'].size <= newSize'
  BY <1>1, <1>7, <1>9, <1>11
<1>13. fd' # NoName => Sized(Load', given', failed') <= currentSize'
  BY <1>7, <1>8
<1>. QED
  BY <1>1, <1>6, <1>7, <1>8, <1>10, <1>12, <1>13 DEF Counted

\* The message that is written was counted, one whose write throws is not.
LEMMA RWriteSizes ==
  ASSUME IInv, sink = "rotating", FilesFit, Counted, RWrite \/ RWriteFails
  PROVE  FilesFit' /\ Counted'
<1>1. /\ step = "write" /\ step' = "idle" /\ UNCHANGED <<given, disk, fd, newSize>>
      /\ failed \subseteq failed'
      /\ buffer' = buffer \/ (fd # NoName /\ buffer' = Append(buffer, msg))
  BY DEF RWrite, RWriteFails, WriteMessage, WriteFails, Goto, Throw, rotatingVars
<1>2. FilesOK /\ fd \in {0, NoName} /\ msg # 0
  BY <1>1 DEF IInv, OrderInv, FInv, RotatingOK, SinkOK
<1>3. /\ 0 \in 0..MaxFiles /\ Content(0) \in Seq(Nat) /\ buffer \in Seq(Nat)
  BY <1>2, RotatingFiles
<1>4. \A a \in 0..MaxFiles : Content(a)' = Content(a)
  BY <1>1 DEF Content, Exists
<1>5. SizesKnown(given) /\ msg \in DOMAIN given /\ given[msg].size \in Nat
  BY <1>2, GivenSized
<1>6. /\ currentSize \in Nat /\ newSize \in Nat
      /\ fd # NoName => /\ Sized(Load, given, failed) <= currentSize
                        /\ Sized(Load, given, failed) + given[msg].size <= newSize
                        /\ newSize <= MaxSize \/ Load = <<>>
  BY <1>1 DEF Counted
<1>7. Load \in Seq(DOMAIN given) /\ Prefix(Load, Load)
  <2>1. Load \in Seq(DOMAIN given)
    BY DEF FilesFit, Fits
  <2>. QED
    BY <2>1, PrefixEnds
<1>8. CASE RWrite /\ fd = NoName
  <2>1. buffer' = buffer
    BY <1>1, <1>8
  <2>2. Shrinks
    BY <1>2, <1>3, <1>4, <2>1, RemovalShrinks
  <2>3. FilesFit'
    BY <1>1, <2>2, FitsStep
  <2>4. currentSize' = newSize
    BY <1>8 DEF RWrite
  <2>. QED
    BY <1>1, <1>6, <1>8, <2>3, <2>4 DEF Counted
<1>9. CASE RWriteFails /\ buffer' = buffer
  <2>1. Shrinks
    BY <1>2, <1>3, <1>4, <1>9, RemovalShrinks
  <2>2. /\ FilesFit'
        /\ Sized(Load', given', failed') \in Nat /\ Sized(Load, given, failed) \in Nat
        /\ Sized(Load', given', failed') <= Sized(Load, given, failed)
    BY <1>1, <2>1, FitsStep
  <2>3. currentSize' = currentSize
    BY <1>9 DEF RWriteFails, rotatingVars
  <2>4. fd' # NoName => Sized(Load', given', failed') <= currentSize'
    BY <1>1, <1>6, <2>2, <2>3
  <2>. QED
    BY <1>1, <1>6, <2>2, <2>3, <2>4 DEF Counted
<1>10. CASE fd # NoName /\ buffer' = Append(buffer, msg)
  <2>1. Load' = Append(Load, msg)
    <3>1. msg \in Nat
      BY <1>5, GivenSized
    <3>2. Content(0) \o Append(buffer, msg) = Append(Content(0) \o buffer, msg)
      BY <1>3, <3>1
    <3>. QED
      BY <1>3, <1>4, <1>10, <3>2 DEF Load
  <2>2. Later(given, failed, given', failed')
    BY <1>1 DEF Later
  <2>3. /\ Sized(Load, given, failed') \in Nat /\ Sized(Load, given, failed) \in Nat
        /\ Sized(Load, given, failed') <= Sized(Load, given, failed)
    BY <1>1, <1>5, <1>7, <2>2, SizedLater
  <2>4. /\ Append(Load, msg) \in Seq(DOMAIN given)
        /\ Sized(Append(Load, msg), given, failed')
             = Sized(Load, given, failed') + (IF msg \in failed' THEN 0 ELSE given[msg].size)
    BY <1>5, <1>7, SizedAppend
  <2>5. ASSUME NEW a \in 0..MaxFiles PROVE Fits(Content(a)', given', failed')
    <3>1. Fits(Content(a), given, failed) /\ Content(a)' = Content(a)
      BY <1>4 DEF FilesFit
    <3>2. Prefix(Content(a), Content(a))
      BY <3>1, PrefixEnds DEF Fits
    <3>. QED
      BY <1>5, <2>2, <3>1, <3>2, FitsLater
  <2>6. Sized(Load', given', failed') <= currentSize' /\ currentSize' \in Nat
    <3>1. CASE RWrite
      <4>1. currentSize' = newSize
        BY <3>1 DEF RWrite
      <4>2. (IF msg \in failed' THEN 0 ELSE given[msg].size) <= given[msg].size
        BY <1>5
      <4>. QED
        BY <1>1, <1>5, <1>6, <1>10, <2>1, <2>3, <2>4, <4>1, <4>2
    <3>2. CASE RWriteFails
      <4>1. currentSize' = currentSize /\ msg \in failed'
        BY <3>2 DEF RWriteFails, rotatingVars, Throw
      <4>. QED
        BY <1>1, <1>6, <1>10, <2>1, <2>3, <2>4, <4>1
    <3>. QED
      BY <3>1, <3>2
  <2>7. Fits(Load', given', failed')
    <3>1. CASE Load = <<>>
      <4>1. Append(Load, msg) = <<msg>> /\ DOMAIN <<msg>> = {1}
        BY <3>1
      <4>2. Lone(Load', failed')
        BY <2>1, <4>1 DEF Lone
      <4>. QED
        BY <1>1, <2>1, <2>4, <4>2 DEF Fits
    <3>2. CASE RWrite /\ Load # <<>>
      <4>1. currentSize' = newSize /\ newSize <= MaxSize /\ MaxSize \in Nat
        BY <1>6, <1>10, <3>2, RotatingAssumption DEF RWrite
      <4>2. Sized(Load', given', failed') \in Nat
        BY <1>1, <1>5, <2>1, <2>3, <2>4
      <4>3. Sized(Load', given', failed') <= MaxSize
        BY <1>6, <2>6, <4>1, <4>2
      <4>. QED
        BY <1>1, <2>1, <2>4, <4>3 DEF Fits
    <3>3. CASE RWriteFails
      <4>1. msg \in failed'
        BY <3>3 DEF RWriteFails, Throw
      <4>2. Fits(Load, given, failed')
        BY <1>1, <1>5, <1>7, <2>2, FitsLater DEF FilesFit
      <4>3. Sized(Append(Load, msg), given, failed') = Sized(Load, given, failed')
        BY <2>3, <2>4, <4>1
      <4>4. Lone(Load, failed') => Lone(Append(Load, msg), failed')
        <5>1. /\ Len(Load) \in Nat /\ DOMAIN Load = 1..Len(Load)
              /\ DOMAIN Append(Load, msg) = 1..(Len(Load) + 1)
              /\ Append(Load, msg)[Len(Load) + 1] = msg
              /\ \A k \in 1..Len(Load) : Append(Load, msg)[k] = Load[k]
          BY <1>7
        <5>2. \A k \in 1..(Len(Load) + 1) : k \in 1..Len(Load) \/ k = Len(Load) + 1
          BY <5>1
        <5>. QED
          BY <4>1, <5>1, <5>2 DEF Lone
      <4>. QED
        BY <1>1, <2>1, <2>4, <4>2, <4>3, <4>4 DEF Fits
    <3>. QED
      BY <3>1, <3>2, <3>3
  <2>8. FilesFit'
    BY <2>5, <2>7 DEF FilesFit
  <2>. QED
    BY <1>1, <1>6, <2>6, <2>8 DEF Counted
<1>11. \/ RWrite /\ fd = NoName
       \/ RWriteFails /\ buffer' = buffer
       \/ fd # NoName /\ buffer' = Append(buffer, msg)
  BY DEF RWrite, RWriteFails, WriteMessage, WriteFails
<1>. QED
  BY <1>8, <1>9, <1>10, <1>11

\* Every step of the rotating sink keeps the sizes.
LEMMA SinkStepSizes ==
  ASSUME IInv, SizeInv, SinkStep
  PROVE  SizeInv'
<1>1. bounds' = bounds
  BY DEF SinkStep, counts
<1>2. sink' = sink
  BY <1>1 DEF sink
<1>3. CASE sink = "rotating"
  <2>1. FilesFit /\ Counted
    BY <1>3 DEF SizeInv
  <2>2. RStep
    BY <1>3 DEF SinkStep
  <2>3. FilesFit' /\ Counted'
    BY <1>3, <2>1, <2>2, ROpenSizes, RFlushSizes, RenameSizes, ReopenSizes, RWriteSizes
       DEF RStep
  <2>. QED
    BY <2>3 DEF SizeInv
<1>4. CASE sink # "rotating"
  BY <1>2, <1>4 DEF SizeInv
<1>. QED
  BY <1>3, <1>4

\* A new message is added to what the file has, unless that makes it too large.
LEMMA EnterSinkSizes ==
  ASSUME IInv, SizeInv, NEW t \in Threads, EnterSink(t)
  PROVE  SizeInv'
<1>1. bounds' = bounds
  BY DEF EnterSink, counts
<1>2. sink' = sink
  BY <1>1 DEF sink
<1>3. CASE sink = "rotating"
  <2>. DEFINE m == call[t].m
  <2>1. /\ UNCHANGED <<disk, fd, buffer, failed, currentSize>> /\ step = "idle"
        /\ given' = Append(given, m) /\ msg' = Len(given) + 1
        /\ newSize' = currentSize + m.size
        /\ step' = IF newSize' > MaxSize THEN "flush" ELSE "write"
    BY <1>3 DEF EnterSink, RLog, Give, fileVars
  <2>2. call[t] \in Calls /\ given \in Seq(Stamped)
    BY DEF IInv, ClientsOK, CallsTyped, EnterSink
  <2>3. m \in Stamped /\ m.size \in Nat
    BY <2>2 DEF Calls, Stamped
  <2>. HIDE DEF m
  <2>4. SizesKnown(given) /\ Len(given) \in Nat /\ DOMAIN given = 1..Len(given)
    BY GivenSized
  <2>5. /\ given' \in Seq(Stamped) /\ DOMAIN given' = 1..(Len(given) + 1)
        /\ given'[msg'] = m /\ \A k \in 1..Len(given) : given'[k] = given[k]
    BY <2>1, <2>2, <2>3
  <2>6. Later(given, failed, given', failed')
    BY <2>1, <2>4, <2>5 DEF Later
  <2>7. FilesFit /\ Counted /\ FilesOK
    BY <1>3 DEF SizeInv, IInv, OrderInv, FInv
  <2>8. Shrinks
    <3>1. \A a \in 0..MaxFiles : Content(a)' = Content(a)
      BY <2>1 DEF Content, Exists
    <3>2. 0 \in 0..MaxFiles
      BY <2>7, RotatingFiles
    <3>. QED
      BY <2>1, <2>7, <3>1, <3>2, RemovalShrinks
  <2>9. /\ FilesFit'
        /\ Sized(Load', given', failed') \in Nat /\ Sized(Load, given, failed) \in Nat
        /\ Sized(Load', given', failed') <= Sized(Load, given, failed)
    BY <2>4, <2>6, <2>7, <2>8, FitsShrink
  <2>10. currentSize \in Nat /\ MaxSize \in Nat
    BY <2>7, RotatingAssumption DEF Counted
  <2>11. newSize' \in Nat /\ (given'[msg']).size <= newSize'
    BY <2>1, <2>3, <2>5, <2>10
  <2>12. fd' # NoName => Sized(Load', given', failed') <= currentSize'
    BY <2>1, <2>7, <2>9, <2>10 DEF Counted
  <2>13. fd' # NoName => Sized(Load', given', failed') + (given'[msg']).size <= newSize'
    BY <2>1, <2>3, <2>5, <2>9, <2>10, <2>12
  <2>14. step' = "write" => newSize' <= MaxSize
    BY <2>1, <2>10, <2>11
  <2>15. Counted'
    BY <2>1, <2>10, <2>11, <2>12, <2>13, <2>14 DEF Counted
  <2>. QED
    BY <2>9, <2>15 DEF SizeInv
<1>4. CASE sink # "rotating"
  BY <1>2, <1>4 DEF SizeInv
<1>. QED
  BY <1>3, <1>4

\* What does not touch the sink keeps the sizes.
LEMMA UntouchedSizes ==
  ASSUME SizeInv, UNCHANGED <<files, bounds>>
  PROVE  SizeInv'
<1>1. UNCHANGED <<disk, fd, buffer, step, msg, given, failed, currentSize, newSize, bounds>>
  BY DEF files, sinkVars, fileVars, callFrame, rotatingVars
<1>2. \A a : Content(a)' = Content(a)
  BY <1>1 DEF Content, Exists
<1>3. Load' = Load
  BY <1>1, <1>2 DEF Load
<1>4. FilesFit => FilesFit'
  BY <1>1, <1>2, <1>3 DEF FilesFit
<1>5. Counted => Counted'
  BY <1>1, <1>3 DEF Counted
<1>6. sink' = sink
  BY <1>1 DEF sink
<1>. QED
  BY <1>4, <1>5, <1>6 DEF SizeInv

\* The flush after a message.
LEMMA AfterSinkSizes ==
  ASSUME IInv, SizeInv, NEW t \in Threads, AfterSink(t)
  PROVE  SizeInv'
<1>1. /\ UNCHANGED <<step, msg, given, failed, currentSize, newSize, bounds>>
      /\ UNCHANGED fileVars \/ (step = "idle" /\ (FlushFile \/ FlushFails))
  BY DEF AfterSink, callFrame, rotatingVars, counts
<1>2. CASE UNCHANGED fileVars
  <2>1. UNCHANGED <<files, bounds>>
    BY <1>1, <1>2 DEF AfterSink, files, sinkVars, callFrame, rotatingVars, dailyVars
  <2>. QED
    BY <2>1, UntouchedSizes
<1>3. CASE step = "idle" /\ (FlushFile \/ FlushFails)
  <2>1. sink' = sink
    BY <1>1 DEF sink
  <2>2. CASE sink = "rotating"
    <3>1. FilesFit /\ Counted /\ FilesOK /\ fd \in {0, NoName}
      BY <2>2 DEF SizeInv, IInv, OrderInv, FInv, RotatingOK
    <3>2. Shrinks
      BY <1>3, <3>1, FlushShrinks
    <3>3. /\ FilesFit'
          /\ Sized(Load', given', failed') \in Nat /\ Sized(Load, given, failed) \in Nat
          /\ Sized(Load', given', failed') <= Sized(Load, given, failed)
      BY <1>1, <3>1, <3>2, FitsStep
    <3>4. currentSize' \in Nat /\ newSize' \in Nat /\ fd' = fd
      BY <1>1, <1>3, <3>1 DEF Counted, FlushFile, FlushFails
    <3>5. fd' # NoName => Sized(Load', given', failed') <= currentSize'
      BY <1>1, <1>3, <3>1, <3>3, <3>4 DEF Counted
    <3>6. Counted'
      BY <1>1, <1>3, <3>4, <3>5 DEF Counted
    <3>. QED
      BY <3>3, <3>6 DEF SizeInv
  <2>3. CASE sink # "rotating"
    BY <2>1, <2>3 DEF SizeInv
  <2>. QED
    BY <2>2, <2>3
<1>. QED
  BY <1>1, <1>2, <1>3

\* The death of the process.
LEMMA CrashSizes ==
  ASSUME IInv, SizeInv, Crash
  PROVE  SizeInv'
<1>1. /\ Die /\ UNCHANGED <<given, failed, currentSize, newSize, bounds>>
      /\ step' = "down" /\ fd' = NoName
  BY DEF Crash, Die, rotatingVars
<1>2. sink' = sink
  BY <1>1 DEF sink
<1>3. CASE sink = "rotating"
  <2>1. FilesFit /\ Counted /\ FilesOK /\ fd \in {0, NoName}
    BY <1>3 DEF SizeInv, IInv, OrderInv, FInv, RotatingOK
  <2>2. Shrinks
    BY <1>1, <2>1, FlushShrinks
  <2>3. FilesFit'
    BY <1>1, <2>1, <2>2, FitsStep
  <2>4. Counted'
    BY <1>1, <2>1 DEF Counted
  <2>. QED
    BY <2>3, <2>4 DEF SizeInv
<1>4. CASE sink # "rotating"
  BY <1>2, <1>4 DEF SizeInv
<1>. QED
  BY <1>3, <1>4

\* The sizes when the process starts for the first time.
LEMMA InitSizes == Init => SizeInv
<1>. SUFFICES ASSUME Init PROVE SizeInv
  OBVIOUS
<1>. USE DEF Init, FileInit, RInit
<1>1. \A a \in Names : Content(a) = <<>>
  BY DEF Content, Exists
<1>2. 0 \in Names /\ 0..MaxFiles \subseteq Names
  BY RotatingAssumption
<1>3. Load = <<>>
  <2>1. <<>> \in Seq(Nat)
    OBVIOUS
  <2>. QED
    BY <1>1, <1>2, <2>1, ConcatEmptySeq DEF Load
<1>4. Fits(<<>>, given, failed)
  BY SizedNothing
<1>5. FilesFit
  BY <1>1, <1>2, <1>3, <1>4 DEF FilesFit
<1>6. Counted
  BY DEF Counted
<1>. QED
  BY <1>5, <1>6 DEF SizeInv

\* Every step keeps them.
LEMMA NextSizes == IInv /\ SizeInv /\ [Next]_vars => SizeInv'
<1>. SUFFICES ASSUME IInv, SizeInv, [Next]_vars PROVE SizeInv'
  OBVIOUS
<1>1. CASE SinkStep
  BY <1>1, SinkStepSizes
<1>2. CASE Crash
  BY <1>2, CrashSizes
<1>3. CASE ClockTick
  <2>1. sink' = sink /\ sink = "daily"
    BY <1>3 DEF ClockTick, counts, sink
  <2>. QED
    BY <2>1 DEF SizeInv
<1>4. ASSUME NEW t \in Threads, NEW level \in {"debug", "info"},
             ThreadStep(t) \/ Log(t, level) \/ Switch(t) \/ Dump(t)
      PROVE  SizeInv'
  <2>1. CASE EnterSink(t)
    BY <2>1, EnterSinkSizes
  <2>2. CASE AfterSink(t)
    BY <2>2, AfterSinkSizes
  <2>3. CASE \/ Log(t, level) \/ Trace(t) \/ Switch(t) \/ Dump(t)
             \/ Lock(t) \/ Item(t) \/ Pop(t) \/ Unlock(t)
    <3>1. UNCHANGED <<files, bounds>>
      BY <2>3 DEF Log, Trace, Switch, Dump, Lock, Item, Pop, Unlock, counts
    <3>. QED
      BY <3>1, UntouchedSizes
  <2>. QED
    BY <1>4, <2>1, <2>2, <2>3 DEF ThreadStep
<1>5. CASE UNCHANGED vars
  <2>1. UNCHANGED <<files, bounds>>
    BY <1>5 DEF vars, counts
  <2>. QED
    BY <2>1, UntouchedSizes
<1>. QED
  BY <1>1, <1>2, <1>3, <1>4, <1>5 DEF Next

\* What the invariant says of the files is what Bounded says.
LEMMA SizesBound == IInv /\ SizeInv => Bounded
<1>. SUFFICES ASSUME IInv, SizeInv, sink = "rotating" PROVE SizeBound
  BY DEF Bounded
<1>1. FilesFit /\ Counted
  BY DEF SizeInv
<1>2. \A s : SizeOf(s, failed) = Sized(s, given, failed)
  BY DEF SizeOf, Sized
<1>3. \A s : AtMostOne(s) <=> Lone(s, failed)
  BY DEF AtMostOne, Lone
<1>4. \A a \in 0..MaxFiles : SizeOf(Content(a), failed) <= MaxSize \/ AtMostOne(Content(a))
  BY <1>1, <1>2, <1>3 DEF FilesFit, Fits
<1>5. ASSUME step \in {"idle", "write"}, fd # NoName
      PROVE  Sized(Load, given, failed) <= IF step = "idle" THEN currentSize ELSE newSize
  <2>1. CASE step = "idle"
    BY <1>1, <2>1, <1>5 DEF Counted
  <2>2. CASE step = "write"
    <3>1. msg # 0
      BY <2>2 DEF IInv, OrderInv, SinkOK
    <3>2. SizesKnown(given) /\ given[msg].size \in Nat
      BY <3>1, GivenSized
    <3>3. Load \in Seq(DOMAIN given)
      BY <1>1 DEF FilesFit, Fits
    <3>4. Prefix(Load, Load) /\ Later(given, failed, given, failed)
      BY <3>3, PrefixEnds DEF Later
    <3>5. Sized(Load, given, failed) \in Nat
      BY <3>2, <3>3, <3>4, SizedLater
    <3>. QED
      BY <1>1, <1>5, <2>2, <3>2, <3>5 DEF Counted
  <2>. QED
    BY <1>5, <2>1, <2>2
<1>. QED
  BY <1>2, <1>4, <1>5 DEF SizeBound, Load

\* No file of the rotating sink grows beyond its size but by a single message,
\* and currentSize never says less than the file holds, whatever writes, flushes,
\* renames and opens fail and wherever the process dies: sink_it_ and rotate_ of
\* rotating_file_sink.
THEOREM FilesBounded == Spec => []Bounded
<1>1. Init => IInv /\ SizeInv
  BY InitInvariant, InitSizes
<1>2. IInv /\ SizeInv /\ [Next]_vars => (IInv /\ SizeInv)'
  BY NextInvariant, NextSizes
<1>3. IInv /\ SizeInv => Bounded
  BY SizesBound
<1>. QED
  BY <1>1, <1>2, <1>3, PTL DEF Spec

=============================================================================

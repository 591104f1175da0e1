------------------------- MODULE FtpTransferProofs -------------------------
(***************************************************************************)
(* Theorems of FtpTransfer: resuming keeps files prefixes of their sources *)
(* for any lengths, any number of attempts and any number of crashes, with *)
(* either kind of libcurl.                                                 *)
(***************************************************************************)
EXTENDS FtpTransfer, TLAPS

\* A sequence that begins as the source does.
FromSource(s) == s \in Seq(Nat) /\ Len(s) <= Length /\ \A i \in 1..Len(s) : s[i] = i

\* What the file being sent is.
LEMMA SourceType == Source \in Seq(Nat) /\ Len(Source) = Length /\ \A i \in 1..Length : Source[i] = i
BY FtpAssumption DEF Source

\* A sequence from the source is a prefix of it, the whole if it is as long.
LEMMA FromSourcePrefix ==
  ASSUME NEW s, FromSource(s)
  PROVE  IsPrefix(s, Source) /\ (Len(s) = Length => s = Source)
<1>. USE SourceType, FtpAssumption DEF FromSource
<1>1. SubSeq(s, 1, Len(s)) \in Seq(Nat) /\ SubSeq(Source, 1, Len(s)) \in Seq(Nat)
  OBVIOUS
<1>2. Len(SubSeq(s, 1, Len(s))) = Len(s) /\ Len(SubSeq(Source, 1, Len(s))) = Len(s)
  OBVIOUS
<1>3. \A i \in 1..Len(s) : SubSeq(s, 1, Len(s))[i] = i /\ SubSeq(Source, 1, Len(s))[i] = i
  OBVIOUS
<1>4. SubSeq(s, 1, Len(s)) = SubSeq(Source, 1, Len(s))
  BY <1>1, <1>2, <1>3
<1>. QED
  BY <1>4 DEF IsPrefix

\* Sending from any position writes blocks.
LEMMA RestType ==
  ASSUME NEW base \in Seq(Nat), NEW position \in Nat, NEW k \in Nat,
         k <= Len(SubSeq(Source, position + 1, Length))
  PROVE  base \o SubSeq(SubSeq(Source, position + 1, Length), 1, k) \in Seq(Nat)
<1>. DEFINE rest == SubSeq(Source, position + 1, Length)
<1>1. rest \in Seq(Nat)
  BY SourceType, FtpAssumption
<1>2. k <= Len(rest)
  OBVIOUS
<1>. HIDE DEF rest
<1>3. SubSeq(rest, 1, k) \in Seq(Nat)
  BY <1>1, <1>2
<1>4. base \o SubSeq(rest, 1, k) \in Seq(Nat)
  BY <1>3
<1>. QED
  BY <1>4 DEF rest

\* Sending from the position where the file ends continues it.
LEMMA SendExtends ==
  ASSUME NEW base, FromSource(base), NEW k \in Nat,
         k <= Len(SubSeq(Source, Len(base) + 1, Length))
  PROVE  LET rest == SubSeq(Source, Len(base) + 1, Length)
             sent == base \o SubSeq(rest, 1, k)
         IN  FromSource(sent) /\ (k = Len(rest) => Len(sent) = Length)
<1>. DEFINE n == Len(base)
            rest == SubSeq(Source, n + 1, Length)
            sent == base \o SubSeq(rest, 1, k)
<1>. USE SourceType, FtpAssumption
<1>1. base \in Seq(Nat) /\ n \in Nat /\ n <= Length /\ \A i \in 1..n : base[i] = i
  BY DEF FromSource
<1>. HIDE DEF n
<1>2. rest \in Seq(Nat) /\ Len(rest) = Length - n /\ \A i \in 1..(Length - n) : rest[i] = n + i
  BY <1>1
<1>. HIDE DEF rest
<1>3. /\ SubSeq(rest, 1, k) \in Seq(Nat) /\ Len(SubSeq(rest, 1, k)) = k
      /\ \A i \in 1..k : SubSeq(rest, 1, k)[i] = n + i
  BY <1>2 DEF rest, n
<1>4. sent \in Seq(Nat) /\ Len(sent) = n + k /\ \A i \in 1..(n + k) : sent[i] = i
  BY <1>1, <1>3 DEF n
<1>5. k <= Len(rest)
  BY DEF rest, n
<1>. QED
  BY SMTT(30), <1>1, <1>2, <1>4, <1>5 DEF FromSource, rest, n

\* A file on disk or on the server.
Stored(f) == f = NoFile \/ f \in Seq(Nat)

\* What a file holds is a sequence of blocks; the file itself if it exists.
LEMMA ContentType ==
  ASSUME NEW f, Stored(f)
  PROVE  Content(f) \in Seq(Nat) /\ (f # NoFile => Content(f) = f)
BY DEF Stored, Content

\* The empty sequence and what a finished transfer has added to nothing.
LEMMA FromSourceEmpty == FromSource(<<>>)
BY FtpAssumption DEF FromSource

\* Receiving the block after the last one continues the file.
LEMMA AppendNext ==
  ASSUME NEW base \in Seq(Nat), NEW buf \in Seq(Nat), FromSource(base \o buf),
         Len(base) + Len(buf) < Length
  PROVE  FromSource(base \o Append(buf, Source[Len(base) + Len(buf) + 1]))
<1>. DEFINE next == Source[Len(base) + Len(buf) + 1]
            longer == base \o Append(buf, next)
<1>1. next = Len(base) + Len(buf) + 1 /\ next \in Nat
  BY SourceType, FtpAssumption
<1>. HIDE DEF next
<1>2. Append(buf, next) \in Seq(Nat) /\ Len(Append(buf, next)) = Len(buf) + 1
  BY <1>1
<1>3. longer \in Seq(Nat) /\ Len(longer) = Len(base) + Len(buf) + 1
  BY <1>2
<1>4. \A i \in 1..(Len(base) + Len(buf)) : longer[i] = (base \o buf)[i]
  BY <1>1, <1>2
<1>5. longer[Len(base) + Len(buf) + 1] = next
  BY <1>1, <1>2
<1>6. \A i \in 1..(Len(base) + Len(buf)) : (base \o buf)[i] = i
  BY DEF FromSource
<1>. HIDE DEF longer
<1>7. \A i \in 1..(Len(base) + Len(buf)) : longer[i] = i
  BY <1>4, <1>6
<1>8. longer[Len(base) + Len(buf) + 1] = Len(base) + Len(buf) + 1
  BY <1>1, <1>5
<1>9. \A i \in 1..Len(longer) : longer[i] = i
  BY <1>3, <1>7, <1>8
<1>10. FromSource(longer)
  BY <1>3, <1>9, FtpAssumption DEF FromSource
<1>. QED
  BY <1>10 DEF longer, next

-----------------------------------------------------------------------------
(* The download.  The invariant ties the position of the transfer to what  *)
(* the file and the buffer hold; a crash loses the buffer, and a prefix of *)
(* a prefix of the source is one.                                          *)

Results == [{"upload", "download"} -> {"none", "ok", "fail"}]

DownloadInv ==
  /\ Stored(local) /\ buffer \in Seq(Nat) /\ received \in Nat
  /\ result \in Results /\ ret \in {"ok", "fail"}
  /\ pc = "receive" => local # NoFile
  /\ pc # "receive" => buffer = <<>>
  /\ result["download"] = "ok" => pc = "done"
  /\ ours => FromSource(Content(local) \o buffer)
  /\ ours /\ pc = "receive" => received = Len(local) + Len(buffer)
  /\ ours /\ result["download"] = "ok" => local # NoFile /\ Len(local) = Length

\* A part that begins a sequence from the source is from the source.
LEMMA FromSourcePart ==
  ASSUME NEW base \in Seq(Nat), NEW buf \in Seq(Nat), FromSource(base \o buf)
  PROVE  FromSource(base)
<1>1. \A i \in 1..Len(base) : (base \o buf)[i] = base[i]
  OBVIOUS
<1>2. Len(base) <= Len(base \o buf) /\ Len(base) \in Nat /\ Len(base \o buf) \in Nat
  OBVIOUS
<1>. QED
  BY <1>1, <1>2, FtpAssumption DEF FromSource

\* A file made only by FtpDownload is a prefix of the remote file, and the
\* whole of it after a success (RESUME_FROM_LARGE, "ab+", fclose).
THEOREM DownloadResumes == Spec => []DownloadInPlace
<1>1. Init => DownloadInv
  <2>. SUFFICES ASSUME Init PROVE DownloadInv
    OBVIOUS
  <2>1. Stored(local) /\ buffer = <<>> /\ received = 0
    BY FtpAssumption DEF Init, OldFiles, Stored, Old
  <2>2. result \in Results /\ result["download"] = "none" /\ pc = "upload" /\ ret = "fail"
    BY DEF Init, Results
  <2>3. ours => local = NoFile
    BY DEF Init
  <2>4. ours => Content(local) \o buffer = <<>>
    BY <2>1, <2>3 DEF Content
  <2>. QED
    BY <2>1, <2>2, <2>3, <2>4, FromSourceEmpty DEF DownloadInv
<1>2. DownloadInv /\ [Next]_vars => DownloadInv'
  <2>. SUFFICES ASSUME DownloadInv, [Next]_vars PROVE DownloadInv'
    OBVIOUS
  <2>0. Content(local) \in Seq(Nat) /\ (local # NoFile => Content(local) = local)
    BY ContentType DEF DownloadInv
  <2>1. CASE UploadNoFile \/ EndUpload
    <3>1. result' \in Results /\ result'["download"] = result["download"] /\ ret' = ret
      BY <2>1 DEF UploadNoFile, EndUpload, Return, Results, DownloadInv, uploadVars
    <3>. QED
      BY <2>1, <3>1 DEF UploadNoFile, EndUpload, downloadVars, DownloadInv, Content, Stored, FromSource
  <2>2. CASE StartUpload \/ Store \/ ProbeFails \/ Probe \/ AppendRest \/ RetryDownloads
             \/ Done \/ UNCHANGED vars
    <3>1. UNCHANGED <<local, buffer, received, ours, result>>
      BY <2>2 DEF StartUpload, Store, ProbeFails, Probe, AppendRest, RetryDownloads, Done,
                  vars, downloadVars
    <3>2. (pc' = "receive" <=> pc = "receive") /\ (pc = "done" => pc' = "done")
      BY <2>2 DEF StartUpload, Store, ProbeFails, Probe, AppendRest, RetryDownloads, Done, vars
    <3>3. ret' \in {"ok", "fail"}
      BY <2>2 DEF StartUpload, Store, ProbeFails, Probe, AppendRest, RetryDownloads, Done,
                  vars, uploadVars, Transfer, Sent, DownloadInv
    <3>. QED
      BY <3>1, <3>2, <3>3 DEF DownloadInv, Content, Stored, FromSource
  <2>3. CASE DownloadNoFile
    <3>1. result' \in Results /\ result'["download"] = "fail"
      BY <2>3 DEF DownloadNoFile, Return, Results, DownloadInv
    <3>. QED
      BY <2>3, <3>1 DEF DownloadNoFile, uploadVars, downloadVars, DownloadInv, Content, Stored, FromSource
  <2>4. CASE StartDownload
    <3>1. local' = Content(local) /\ buffer' = <<>> /\ buffer = <<>> /\ local' # NoFile
      BY <2>0, <2>4, FtpAssumption DEF StartDownload, DownloadInv
    <3>2. Content(local') \o buffer' = Content(local) \o buffer /\ Len(local') \in Nat
      BY <2>0, <3>1 DEF Content
    <3>3. received' = Len(local') /\ pc = "download" /\ pc' = "receive" /\ UNCHANGED <<ours, result, ret>>
      BY <2>4, <3>1 DEF StartDownload, uploadVars, ResumePosition, ResumeFrom
    <3>. QED
      BY <2>0, <3>1, <3>2, <3>3 DEF DownloadInv, Stored
  <2>5. CASE Receive
    <3>1. local # NoFile /\ pc = "receive" /\ UNCHANGED <<pc, local, ours, result, ret>>
      BY <2>5 DEF Receive, DownloadInv, uploadVars
    <3>2. Source[received + 1] \in Nat /\ received' = received + 1
      BY <2>5, SourceType, FtpAssumption DEF Receive, DownloadInv
    <3>3. buffer' \in Seq(Nat) /\ Len(buffer') = Len(buffer) + 1
      BY <2>5, <3>2 DEF Receive, DownloadInv
    <3>4. ours => FromSource(Content(local) \o buffer')
      BY <2>0, <2>5, <3>1, AppendNext DEF Receive, DownloadInv
    <3>5. Content(local') = Content(local)
      BY <3>1
    <3>6. ours => received' = Len(local) + Len(buffer')
      BY <2>0, <3>1, <3>2, <3>3 DEF DownloadInv
    <3>. QED
      BY <3>1, <3>2, <3>3, <3>4, <3>5, <3>6 DEF DownloadInv, Stored
  <2>6. CASE WriteBuffer
    <3>1. /\ local # NoFile /\ local \in Seq(Nat) /\ buffer \in Seq(Nat) /\ pc = "receive"
          /\ UNCHANGED <<pc, received, ours, result, ret>>
      BY <2>6 DEF WriteBuffer, DownloadInv, Stored, uploadVars
    <3>2. local' \in Seq(Nat) /\ Len(local') = Len(local) + Len(buffer) /\ buffer' = <<>>
      BY <2>6, <3>1 DEF WriteBuffer
    <3>3. local' # NoFile /\ Content(local') = local' /\ Content(local) = local
      BY <2>0, <3>1, <3>2, FtpAssumption DEF Content
    <3>4. local' \o <<>> = local'
      BY <3>2
    <3>5. Content(local') \o buffer' = Content(local) \o buffer
      BY <2>6, <3>2, <3>3, <3>4 DEF WriteBuffer
    <3>6. ours' => FromSource(Content(local') \o buffer')
      BY <3>1, <3>5 DEF DownloadInv
    <3>7. ours' => received' = Len(local') + Len(buffer')
      BY <3>1, <3>2 DEF DownloadInv
    <3>8. result'["download"] # "ok"
      BY <3>1 DEF DownloadInv
    <3>. QED
      BY <3>1, <3>2, <3>3, <3>6, <3>7, <3>8 DEF DownloadInv, Stored
  <2>7. CASE EndDownload
    <3>1. /\ local # NoFile /\ local \in Seq(Nat) /\ buffer \in Seq(Nat) /\ pc = "receive" /\ pc' = "done"
          /\ UNCHANGED <<received, ours, ret>>
      BY <2>7 DEF EndDownload, DownloadInv, Stored, uploadVars
    <3>2. local' \in Seq(Nat) /\ Len(local') = Len(local) + Len(buffer) /\ buffer' = <<>>
      BY <2>7, <3>1 DEF EndDownload
    <3>3. local' # NoFile /\ Content(local') = local' /\ Content(local) = local
      BY <2>0, <3>1, <3>2, FtpAssumption DEF Content
    <3>4. local' \o <<>> = local'
      BY <3>2
    <3>5. Content(local') \o buffer' = Content(local) \o buffer
      BY <2>7, <3>2, <3>3, <3>4 DEF EndDownload
    <3>6. result' \in Results /\ (result'["download"] = "ok" => received = Length)
      BY <2>7 DEF EndDownload, Return, Results, DownloadInv
    <3>7. ours /\ result'["download"] = "ok" => Len(local') = Length
      BY <3>1, <3>2, <3>6 DEF DownloadInv
    <3>8. ours' => FromSource(Content(local') \o buffer')
      BY <3>1, <3>5 DEF DownloadInv
    <3>. QED
      BY <3>1, <3>2, <3>3, <3>6, <3>7, <3>8 DEF DownloadInv, Stored
  <2>8. CASE Crash
    <3>1. /\ pc' = "upload" /\ buffer' = <<>> /\ UNCHANGED <<local, received, ours, ret>>
          /\ result' = [upload |-> "none", download |-> "none"]
      BY <2>8 DEF Crash, uploadVars
    <3>2. result' \in Results /\ result'["download"] = "none"
      BY <3>1 DEF Results
    <3>3. Content(local') \o buffer' = Content(local)
      BY <2>0, <3>1
    <3>4. ours => FromSource(Content(local))
      BY <2>0, FromSourcePart DEF DownloadInv
    <3>. QED
      BY <3>1, <3>2, <3>3, <3>4 DEF DownloadInv, Stored
  <2>. QED
    BY <2>1, <2>2, <2>3, <2>4, <2>5, <2>6, <2>7, <2>8 DEF Next
<1>3. DownloadInv => DownloadInPlace
  <2>. SUFFICES ASSUME DownloadInv, ours PROVE DownloadInPlace
    BY DEF DownloadInPlace
  <2>1. IsPrefix(Content(local) \o buffer, Source)
    BY FromSourcePrefix DEF DownloadInv
  <2>2. ASSUME result["download"] = "ok" PROVE local = Source
    <3>1. local # NoFile /\ local \in Seq(Nat) /\ buffer = <<>> /\ Len(local) = Length
      BY <2>2 DEF DownloadInv, Stored
    <3>2. Content(local) \o buffer = local
      BY <3>1 DEF Content
    <3>. QED
      BY <3>1, <3>2, FromSourcePrefix DEF DownloadInv
  <2>. QED
    BY <2>1, <2>2 DEF DownloadInPlace
<1>. QED
  BY <1>1, <1>2, <1>3, PTL DEF Spec

-----------------------------------------------------------------------------
(* The upload.  What makes resuming right is that the length an attempt    *)
(* seeks to is the length the server holds, or the attempt is blind, and   *)
(* that an attempt which writes ends the file it leaves with a block of    *)
(* the source.  A retry that downloads leaves the file as it is, and does  *)
(* not count as a first attempt.                                           *)

\* The last attempt uploaded, and readfunc handed out all there was.
Reliable == fresh /\ ~blind /\ ~ferr /\ (reuploads \/ c <= 1)

UploadInv ==
  /\ Stored(remote) /\ uploadedLen \in Nat /\ c \in Nat
  /\ result \in Results /\ ret \in {"ok", "fail"}
  /\ pc = "append" => remote # NoFile /\ c > 0
  /\ fresh /\ ~blind /\ pc \in {"attempt", "append"} => FromSource(Content(remote))
  /\ Reliable /\ pc = "attempt" /\ ret = "ok" => remote # NoFile /\ Len(remote) = Length
  /\ result["upload"] = "ok" => pc \in {"download", "receive", "done"}
  /\ fresh /\ ~blind /\ result["upload"] = "ok" => FromSource(Content(remote))
  /\ Reliable /\ result["upload"] = "ok" => remote # NoFile /\ Len(remote) = Length

\* A transfer from any position leaves a file of blocks.
LEMMA TransferStores ==
  ASSUME NEW base \in Seq(Nat), NEW position \in Nat, Transfer(base, position), Stored(remote)
  PROVE  Stored(remote') /\ ret' \in {"ok", "fail"} /\ (fresh' => fresh \/ base = <<>>)
<1>1. CASE ret' = "fail" /\ UNCHANGED <<remote, ferr, fresh>>
  BY <1>1 DEF Stored
<1>2. ASSUME NEW k \in 0..Len(SubSeq(Source, position + 1, Length)),
             remote' = base \o SubSeq(SubSeq(Source, position + 1, Length), 1, k),
             fresh' = (fresh \/ base = <<>>),
             Sent(SubSeq(Source, position + 1, Length), k)
      PROVE  Stored(remote') /\ ret' \in {"ok", "fail"} /\ (fresh' => fresh \/ base = <<>>)
  <2>1. SubSeq(Source, position + 1, Length) \in Seq(Nat)
    BY SourceType, FtpAssumption
  <2>2. k \in Nat /\ k <= Len(SubSeq(Source, position + 1, Length))
    BY <2>1
  <2>3. remote' \in Seq(Nat)
    BY <1>2, <2>2, RestType
  <2>4. ret' \in {"ok", "fail"}
    BY <1>2 DEF Sent
  <2>. QED
    BY <1>2, <2>3, <2>4 DEF Stored
<1>. QED
  BY <1>1, <1>2 DEF Transfer

\* A transfer that continues the source where the file ends changes nothing,
\* or leaves a file from the source, the whole of it when it ends well.
LEMMA TransferContinues ==
  ASSUME NEW base, FromSource(base), Transfer(base, Len(base))
  PROVE  \/ ret' = "fail" /\ UNCHANGED <<remote, fresh>>
         \/ FromSource(remote') /\ (ret' = "ok" /\ ~ferr' => Len(remote') = Length)
<1>. DEFINE rest == SubSeq(Source, Len(base) + 1, Length)
<1>1. CASE ret' = "fail" /\ UNCHANGED <<remote, ferr, fresh>>
  BY <1>1
<1>2. ASSUME NEW k \in 0..Len(rest), remote' = base \o SubSeq(rest, 1, k), Sent(rest, k)
      PROVE  FromSource(remote') /\ (ret' = "ok" /\ ~ferr' => Len(remote') = Length)
  <2>1. rest \in Seq(Nat)
    BY SourceType, FtpAssumption DEF FromSource
  <2>2. k \in Nat /\ k <= Len(rest)
    BY <2>1
  <2>3. ret' = "ok" /\ ~ferr' => k = Len(rest)
    BY <1>2 DEF Sent
  <2>. QED
    BY <1>2, <2>2, <2>3, SendExtends
<1>. QED
  BY <1>1, <1>2 DEF Transfer

\* The file an upload created or truncated is a prefix of the source through
\* all attempts that know what the server holds, and the whole of it when
\* FtpUpload succeeds with an attempt that uploads and reads that do not fail
\* (readfunc, uploaded_len, fseek, APPEND, NOBODY).
THEOREM UploadResumes == Spec => []ResumeInPlace
<1>1. Init => UploadInv
  <2>. SUFFICES ASSUME Init PROVE UploadInv
    OBVIOUS
  <2>1. Stored(remote) /\ uploadedLen = 0 /\ ret = "fail" /\ pc = "upload" /\ ~fresh /\ c = 0
    BY FtpAssumption DEF Init, OldFiles, Stored, Old
  <2>2. result \in Results /\ result["upload"] = "none"
    BY DEF Init, Results
  <2>. QED
    BY <2>1, <2>2 DEF UploadInv
<1>2. UploadInv /\ [Next]_vars => UploadInv'
  <2>. SUFFICES ASSUME UploadInv, [Next]_vars PROVE UploadInv'
    OBVIOUS
  <2>0. Content(remote) \in Seq(Nat) /\ (remote # NoFile => Content(remote) = remote)
    BY ContentType DEF UploadInv
  <2>1. CASE UploadNoFile
    <3>1. result' \in Results /\ result'["upload"] = "fail" /\ pc' = "download"
      BY <2>1 DEF UploadNoFile, Return, Results, UploadInv
    <3>. QED
      BY <2>1, <3>1 DEF UploadNoFile, uploadVars, UploadInv, Stored
  <2>2. CASE StartUpload
    <3>1. /\ pc = "upload" /\ pc' = "attempt" /\ ret' = "fail" /\ uploadedLen' = 0 /\ c' = 0
          /\ fresh' = (remote = NoFile) /\ UNCHANGED <<remote, result>>
      BY <2>2 DEF StartUpload
    <3>2. fresh' => Content(remote') = <<>>
      BY <3>1 DEF Content
    <3>. QED
      BY <3>1, <3>2, FromSourceEmpty DEF UploadInv, Stored
  <2>3. CASE Store
    <3>1. /\ Transfer(<<>>, 0) /\ pc = "attempt" /\ UNCHANGED <<pc, uploadedLen, blind, result>>
          /\ ret # "ok" /\ c' \in Nat
      BY <2>3 DEF Store, TryAgain, UploadInv
    <3>2. Stored(remote') /\ ret' \in {"ok", "fail"}
      <4>1. <<>> \in Seq(Nat) /\ 0 \in Nat /\ Stored(remote)
        BY DEF UploadInv
      <4>. QED
        BY <3>1, <4>1, TransferStores, Zenon
    <3>3. \/ ret' = "fail" /\ UNCHANGED <<remote, fresh>>
          \/ FromSource(remote') /\ (ret' = "ok" /\ ~ferr' => Len(remote') = Length)
      BY <3>1, FromSourceEmpty, TransferContinues
    <3>4. FromSource(remote') => remote' # NoFile /\ Content(remote') = remote'
      BY FtpAssumption DEF FromSource, Content
    <3>5. result'["upload"] # "ok" /\ pc' = "attempt"
      BY <3>1 DEF UploadInv
    <3>6. fresh' /\ ~blind' => FromSource(Content(remote'))
      BY <3>1, <3>3, <3>4 DEF UploadInv, Content
    <3>7. ret' = "ok" /\ ~ferr' => remote' # NoFile /\ Len(remote') = Length
      BY <3>3, <3>4
    <3>. QED
      BY <3>1, <3>2, <3>5, <3>6, <3>7 DEF UploadInv, Reliable
  <2>4. CASE ProbeFails
    <3>1. /\ pc = "attempt" /\ ret' = "fail" /\ c' \in Nat
          /\ UNCHANGED <<pc, remote, uploadedLen, fresh, blind, result>>
      BY <2>4 DEF ProbeFails, UploadInv
    <3>. QED
      BY <3>1 DEF UploadInv, Stored, Content
  <2>5. CASE Probe
    <3>1. /\ pc = "attempt" /\ pc' = "append" /\ ret' = "ok" /\ remote # NoFile /\ c > 0
          /\ uploadedLen' \in {Len(remote), uploadedLen}
          /\ UNCHANGED <<remote, c, fresh, blind, result>>
      BY <2>5 DEF Probe
    <3>2. uploadedLen' \in Nat
      BY <3>1 DEF UploadInv, Stored
    <3>. QED
      BY <3>1, <3>2 DEF UploadInv, Stored, Content
  <2>6. CASE AppendRest
    <3>1. /\ Transfer(Content(remote), uploadedLen) /\ pc = "append" /\ pc' = "attempt"
          /\ blind' = (blind \/ uploadedLen # Len(remote)) /\ c' \in Nat
          /\ UNCHANGED <<uploadedLen, result>>
      BY <2>6 DEF AppendRest, UploadInv
    <3>2. remote # NoFile /\ Content(remote) = remote
      BY <2>0, <3>1 DEF UploadInv
    <3>3. Stored(remote') /\ ret' \in {"ok", "fail"} /\ (fresh' => fresh \/ remote = <<>>)
      <4>1. Content(remote) \in Seq(Nat) /\ uploadedLen \in Nat /\ Stored(remote)
        BY <2>0 DEF UploadInv
      <4>2. Stored(remote') /\ ret' \in {"ok", "fail"} /\ (fresh' => fresh \/ Content(remote) = <<>>)
        BY <3>1, <4>1, TransferStores
      <4>. QED
        BY <3>2, <4>2
    <3>4. ASSUME fresh', ~blind'
          PROVE  /\ FromSource(Content(remote'))
                 /\ ret' = "ok" /\ ~ferr' => remote' # NoFile /\ Len(remote') = Length
      <4>1. ~blind /\ uploadedLen = Len(remote)
        BY <3>1, <3>4
      <4>2. FromSource(remote)
        BY <3>1, <3>2, <3>3, <3>4, <4>1, FromSourceEmpty DEF UploadInv
      <4>3. Transfer(remote, Len(remote))
        BY <3>1, <3>2, <4>1
      <4>4. \/ ret' = "fail" /\ UNCHANGED <<remote, fresh>>
            \/ FromSource(remote') /\ (ret' = "ok" /\ ~ferr' => Len(remote') = Length)
        BY <4>2, <4>3, TransferContinues
      <4>5. FromSource(remote')
        BY <4>2, <4>4
      <4>6. remote' # NoFile /\ Content(remote') = remote'
        BY <4>5, FtpAssumption DEF FromSource, Content
      <4>. QED
        BY <4>4, <4>5, <4>6
    <3>5. result'["upload"] # "ok"
      BY <3>1 DEF UploadInv
    <3>. QED
      BY <3>1, <3>3, <3>4, <3>5 DEF UploadInv, Reliable
  <2>7. CASE RetryDownloads
    <3>1. /\ pc = "append" /\ pc' = "attempt" /\ ~reuploads /\ ret' \in {"ok", "fail"} /\ c' = c + 1
          /\ UNCHANGED <<remote, uploadedLen, fresh, blind, result, reuploads>>
      BY <2>7 DEF RetryDownloads
    <3>2. c' \in Nat /\ ~Reliable' /\ result'["upload"] # "ok"
      BY <3>1 DEF UploadInv, Reliable
    <3>3. fresh' /\ ~blind' => FromSource(Content(remote'))
      BY <3>1 DEF UploadInv, Content
    <3>. QED
      BY <3>1, <3>2, <3>3 DEF UploadInv, Stored
  <2>8. CASE EndUpload
    <3>1. /\ pc = "attempt" /\ pc' = "download"
          /\ UNCHANGED <<remote, c, ret, uploadedLen, ferr, fresh, blind, reuploads>>
          /\ result' = [result EXCEPT !["upload"] = ret]
      BY <2>8 DEF EndUpload, uploadVars, Return
    <3>2. result' \in Results /\ result'["upload"] = ret
      BY <3>1 DEF Results, UploadInv
    <3>. QED
      BY <3>1, <3>2 DEF UploadInv, Reliable, Stored, Content
  <2>9. CASE DownloadNoFile \/ StartDownload \/ Receive \/ WriteBuffer \/ EndDownload \/ Done \/ UNCHANGED vars
    <3>1. UNCHANGED <<remote, c, ret, uploadedLen, ferr, fresh, blind, reuploads>>
      BY <2>9 DEF DownloadNoFile, StartDownload, Receive, WriteBuffer, EndDownload, Done, vars, uploadVars
    <3>2. result' \in Results /\ result'["upload"] = result["upload"]
      BY <2>9 DEF DownloadNoFile, StartDownload, Receive, WriteBuffer, EndDownload, Done, vars, Return, Results, UploadInv
    <3>3. pc' = pc \/ (pc' \in {"receive", "done"} /\ pc \in {"download", "receive"})
      BY <2>9 DEF DownloadNoFile, StartDownload, Receive, WriteBuffer, EndDownload, Done, vars
    <3>. QED
      BY <3>1, <3>2, <3>3 DEF UploadInv, Reliable, Stored, Content
  <2>10. CASE Crash
    <3>1. /\ pc' = "upload" /\ UNCHANGED <<remote, c, ret, uploadedLen>>
          /\ result' = [upload |-> "none", download |-> "none"]
      BY <2>10 DEF Crash, uploadVars
    <3>2. result' \in Results /\ result'["upload"] = "none"
      BY <3>1 DEF Results
    <3>. QED
      BY <3>1, <3>2 DEF UploadInv, Stored
  <2>. QED
    BY <2>1, <2>2, <2>3, <2>4, <2>5, <2>6, <2>7, <2>8, <2>9, <2>10 DEF Next
<1>3. UploadInv => ResumeInPlace
  <2>. SUFFICES ASSUME UploadInv, pc \in {"attempt", "append"} \/ result["upload"] = "ok", fresh, ~blind
                PROVE  /\ IsPrefix(Content(remote), Source)
                       /\ result["upload"] = "ok" /\ Reliable => remote = Source
    BY DEF ResumeInPlace, Reliable
  <2>1. FromSource(Content(remote))
    BY DEF UploadInv
  <2>2. result["upload"] = "ok" /\ Reliable => Content(remote) = remote /\ Len(remote) = Length
    BY DEF UploadInv, Content
  <2>. QED
    BY <2>1, <2>2, FromSourcePrefix
<1>. QED
  BY <1>1, <1>2, <1>3, PTL DEF Spec

-----------------------------------------------------------------------------
AttemptsInv == c \in Nat /\ c <= Tries /\ (pc = "append" => c < Tries)

\* FtpUpload makes at most Tries attempts, those that end with the probe
\* counted, and after the last it reports what that one returned.
THEOREM AttemptsEnd == Spec => [](c <= Tries)
<1>1. Init => AttemptsInv
  BY FtpAssumption DEF Init, AttemptsInv
<1>2. AttemptsInv /\ [Next]_vars => AttemptsInv'
  <2>. SUFFICES ASSUME AttemptsInv, [Next]_vars PROVE AttemptsInv'
    OBVIOUS
  <2>1. CASE Store \/ ProbeFails \/ Probe \/ AppendRest \/ RetryDownloads
    BY <2>1, FtpAssumption DEF AttemptsInv, Store, ProbeFails, Probe, AppendRest, RetryDownloads, TryAgain
  <2>2. CASE UploadNoFile \/ StartUpload \/ EndUpload \/ Crash
    BY <2>2, FtpAssumption DEF AttemptsInv, UploadNoFile, StartUpload, EndUpload, Crash, uploadVars
  <2>3. CASE DownloadNoFile \/ StartDownload \/ Receive \/ WriteBuffer \/ EndDownload
    BY <2>3 DEF AttemptsInv, DownloadNoFile, StartDownload, Receive, WriteBuffer, EndDownload, uploadVars
  <2>4. CASE Done \/ UNCHANGED vars
    BY <2>4 DEF AttemptsInv, Done, vars, uploadVars
  <2>. QED
    BY <2>1, <2>2, <2>3, <2>4 DEF Next
<1>3. AttemptsInv => c <= Tries
  BY DEF AttemptsInv
<1>. QED
  BY <1>1, <1>2, <1>3, PTL DEF Spec

=============================================================================
